------------------------- MODULE AlterQueueMaxLength -------------------------
(***************************************************************************)
(* The attack of extrabbitmq/alter_queue_max_length.go on one queue: Start *)
(* lists the policies of the vhost and puts a policy of its own with a     *)
(* higher priority, Stop deletes it again.  Each handler is a sequence of  *)
(* management calls; a call may be carried out and its reply lost.  PUT    *)
(* and DELETE are not repeated by the transport of clients.go.             *)
(*                                                                         *)
(* The broker is external: it keeps policies by name and applies to the    *)
(* queue the matching one of the highest priority.                         *)
(***************************************************************************)
EXTENDS Integers

CONSTANTS
    Attacks,    \* executions of the attack on the queue; also the policy names
    Foreign,    \* policies of somebody else that may exist in the vhost
    Priority,   \* the priority of each of them
    Matching,   \* those that the broker matches with the queue
    Readable,   \* those that highestPriorityForQueue matches: the right ApplyTo,
                \* and a pattern that the regular expressions of Go can express
    Lossy       \* replies of PUT and DELETE may be lost

ASSUME PriorityAssumption == Priority \in [Foreign -> Int]
ASSUME NamesAssumption == Attacks \cap Foreign = {}
ASSUME MatchingAssumption == Matching \subseteq Foreign
ASSUME ReadableAssumption == Readable \subseteq Foreign
ASSUME LossyAssumption == Lossy \in BOOLEAN

VARIABLES
    pc,        \* where each execution is
    highest,   \* what highestPriorityForQueue returned to it
    own,       \* the priority that it chose for its policy
    named,     \* executions whose state.PolicyName is set
    policies,  \* the policies that exist at the broker
    known      \* history: the policies that existed when an execution listed them

vars == <<pc, highest, own, named, policies, known>>

TypeOK ==
    /\ pc \in [Attacks -> {"prepared", "listed", "running", "failed", "stopped"}]
    /\ highest \in [Attacks -> Nat]
    /\ own \in [Attacks -> Nat]
    /\ named \subseteq Attacks
    /\ policies \subseteq Attacks \cup Foreign
    /\ known \in [Attacks -> SUBSET (Attacks \cup Foreign)]

Init ==
    /\ pc = [a \in Attacks |-> "prepared"]
    /\ highest = [a \in Attacks |-> 0]
    /\ own = [a \in Attacks |-> 0]
    /\ named = {}
    /\ policies \in SUBSET Foreign
    /\ known = [a \in Attacks |-> {}]

PriorityOf(p) == IF p \in Attacks THEN own[p] ELSE Priority[p]

-----------------------------------------------------------------------------
(* Start.                                                                  *)

Fail(a) == pc' = [pc EXCEPT ![a] = "failed"]

\* (Mutated form: only the policies of others are looked at.)
SeenForeign == {p \in policies : p \in Readable}

\* The policies that highestPriorityForQueue takes into account.
Seen == {p \in policies : p \in Readable \cup Attacks}

\* The priorities that the maximum is taken of; it starts at zero.
Candidates == {0} \cup {PriorityOf(p) : p \in Seen}

\* The result of highestPriorityForQueue.
IsHighest(h) == h \in Candidates /\ \A q \in Candidates : h >= q

\* The list of policies is read, or Start gives up.
StartList(a) ==
    /\ pc[a] = "prepared"
    /\ \/ /\ \E h \in Candidates : IsHighest(h) /\ highest' = [highest EXCEPT ![a] = h]
          /\ known' = [known EXCEPT ![a] = policies]
          /\ pc' = [pc EXCEPT ![a] = "listed"]
       \/ Fail(a) /\ UNCHANGED <<highest, known>>
    /\ UNCHANGED <<own, named, policies>>

\* (Mutated form: the priority is the highest one, not a higher one.)
StartPutEqual(a) ==
    /\ pc[a] = "listed"
    /\ own' = [own EXCEPT ![a] = highest[a]]
    /\ policies' = policies \cup {a}
    /\ named' = named \cup {a}
    /\ pc' = [pc EXCEPT ![a] = "running"]
    /\ UNCHANGED <<highest, known>>

\* The policy is put, refused, or put and the reply lost.  The clean-up after an error
\* deletes state.PolicyName, which is still empty: it names no policy.
StartPut(a) ==
    /\ pc[a] = "listed"
    /\ own' = [own EXCEPT ![a] = highest[a] + 1]
    /\ \/ /\ policies' = policies \cup {a}
          /\ named' = named \cup {a}
          /\ pc' = [pc EXCEPT ![a] = "running"]
       \/ policies' = policies /\ Fail(a) /\ UNCHANGED named
       \/ Lossy /\ policies' = policies \cup {a} /\ Fail(a) /\ UNCHANGED named
    /\ UNCHANGED <<highest, known>>

-----------------------------------------------------------------------------
(* Stop, which may be called again after an error, or although it was done. *)

\* Without a policy name there is nothing to delete.
StopUnnamed(a) ==
    /\ pc[a] \in {"failed", "running", "stopped"}
    /\ a \notin named
    /\ pc' = [pc EXCEPT ![a] = "stopped"]
    /\ UNCHANGED <<highest, own, named, policies, known>>

\* (Mutated form: a failed delete is not reported.)
StopDeleteQuietly(a) ==
    /\ pc[a] \in {"running", "stopped"}
    /\ a \in named
    /\ pc' = [pc EXCEPT ![a] = "stopped"]
    /\ policies' \in {policies, policies \ {a}}
    /\ UNCHANGED <<highest, own, named, known>>

\* safeDeletePolicy: an error of the call and a missing policy are both reported as
\* a failed Stop.
StopDelete(a) ==
    /\ pc[a] \in {"running", "stopped"}
    /\ a \in named
    /\ \/ /\ a \in policies
          /\ policies' = policies \ {a}
          /\ pc' = [pc EXCEPT ![a] = "stopped"]
       \/ UNCHANGED <<policies, pc>>
       \/ Lossy /\ policies' = policies \ {a} /\ UNCHANGED pc
    /\ UNCHANGED <<highest, own, named, known>>

Attack(a) == StartList(a) \/ StartPut(a) \/ StopUnnamed(a) \/ StopDelete(a)

-----------------------------------------------------------------------------
(* Somebody else adds or removes a policy, at any time: also between the   *)
(* list and the put of an attack, and while its policy exists.  A policy   *)
(* whose priority is changed counts as another one.                        *)

Edit(p) ==
    /\ policies' = IF p \in policies THEN policies \ {p} ELSE policies \cup {p}
    /\ UNCHANGED <<pc, highest, own, named, known>>

Next == (\E a \in Attacks : Attack(a)) \/ (\E p \in Foreign : Edit(p))

Spec == Init /\ [][Next]_vars

-----------------------------------------------------------------------------
(* Properties.                                                             *)

\* The policies that the broker would choose from for the queue: those of the highest
\* priority among the ones that match it.
InForce ==
    LET Matched == policies \cap (Matching \cup Attacks)
    IN {p \in Matched : \A q \in Matched : PriorityOf(p) >= PriorityOf(q)}

\* If the broker applies something else than the policy of an attack, or may do so because
\* of a tie, then it is nothing that the scan of this attack has missed: it came after the
\* list, or it is not readable for Go.  So two attacks tie only if neither found the policy
\* of the other in its list, and no attack that stops gives way to a policy that one of the
\* others has found, in whatever order attacks and edits come and go
\* (highestPriorityForQueue, Start and Stop).
LimitInForce ==
    \A a \in policies \cap Attacks : \A p \in InForce \ {a} :
        p \notin known[a] \cap (Readable \cup Attacks)

\* "A priority higher than any existing policy that matches this queue", at the time
\* the policy is put (the comment in Start above the call of highestPriorityForQueue).
PutOutranksExisting ==
    [][\A a \in Attacks :
         a \in policies' \ policies =>
             \A p \in policies \cap (Matching \cup Attacks) :
                 own'[a] > PriorityOf(p)]_vars

\* "The policy is removed when the attack ends": a Stop that reports success leaves
\* no policy of its execution behind.
StopRemovesPolicy == \A a \in Attacks : pc[a] = "stopped" => a \notin policies

\* The same for an execution whose Start succeeded, whatever replies get lost.
StopOfStartedRemovesPolicy ==
    \A a \in Attacks : pc[a] = "stopped" /\ a \in named => a \notin policies
=============================================================================
