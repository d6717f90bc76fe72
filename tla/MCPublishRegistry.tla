-------------------------- MODULE MCPublishRegistry --------------------------
(* Two targets of one step, and another step whose prepares drop stale entries. *)
EXTENDS PublishRegistry, TLC

CONSTANTS k1, k2

MCStepOf == [t \in Targets |-> k1]

Symmetry == Permutations(Targets)
=============================================================================
