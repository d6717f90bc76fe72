------------------------------ MODULE Discovery ------------------------------
(***************************************************************************)
(* What a discovery of targets promises, whatever it does to list them:    *)
(* each configured endpoint is asked in order and either fails or names    *)
(* some of the targets that it owns; what was named is reported, and the   *)
(* discovery fails only if there is nothing to report and something failed.*)
(* DiscoveryRun implements it.                                             *)
(***************************************************************************)
EXTENDS Integers, Sequences

CONSTANT Ownerships   \* for each kind of discovery a sequence: the targets that may
                      \* exist at each endpoint

VARIABLES
    owned,    \* the targets that may exist at each endpoint, for the kind asked for
    answers,  \* what each endpoint asked so far has brought
    targets,  \* the targets collected
    result    \* "open", "targets" or "error"

vars == <<owned, answers, targets, result>>

Failed == [ok |-> FALSE, targets |-> {}]
Brought(set) == [ok |-> TRUE, targets |-> set]

SomeFailed == \E i \in DOMAIN answers : ~answers[i].ok

Init ==
    /\ owned \in Ownerships
    /\ answers = <<>>
    /\ targets = {}
    /\ result = "open"

EndpointFails ==
    /\ Len(answers) < Len(owned)
    /\ answers' = Append(answers, Failed)
    /\ UNCHANGED <<owned, targets, result>>

EndpointAnswers ==
    /\ Len(answers) < Len(owned)
    /\ \E set \in SUBSET owned[Len(answers) + 1] :
         /\ answers' = Append(answers, Brought(set))
         /\ targets' = targets \cup set
    /\ UNCHANGED <<owned, result>>

\* Without a configured endpoint, or with no target and a failure, the discovery fails.
Conclude ==
    /\ result = "open" /\ Len(answers) = Len(owned)
    /\ result' = IF owned = <<>> \/ (targets = {} /\ SomeFailed) THEN "error" ELSE "targets"
    /\ UNCHANGED <<owned, answers, targets>>

Next == EndpointFails \/ EndpointAnswers \/ Conclude

Spec == Init /\ [][Next]_vars
=============================================================================
