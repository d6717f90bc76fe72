---------------------------- MODULE ExchangeGuard ----------------------------
(***************************************************************************)
(* guardExchangeTargetCount in extrabbitmq/publish.go: the mutex-protected *)
(* map of entries that limits how many queue targets one publish step with *)
(* an exchange parameter may prepare.  One action is one call; the mutex   *)
(* makes a call atomic, but for the clock, which it reads before it waits  *)
(* for the mutex.  A request without an execution context is let through   *)
(* without a look at the map, and is no action here.                       *)
(***************************************************************************)
EXTENDS Integers, FiniteSets

CONSTANTS
    Keys,         \* (experiment execution, exchange, routing key) of a step
    Targets,      \* action execution IDs, one per prepared target
    MaxTargets,   \* maxQueueTargetsWithExchange
    Retention,    \* time.Hour, in clock units
    MaxTime,      \* bound: the clock stops there
    MaxWait       \* bound: the longest wait of a call for the mutex

ASSUME TargetsAssumption == IsFiniteSet(Targets)
ASSUME MaxTargetsAssumption == MaxTargets \in Nat
ASSUME RetentionAssumption == Retention \in Nat
ASSUME MaxTimeAssumption == MaxTime \in Nat
ASSUME MaxWaitAssumption == MaxWait \in Nat

VARIABLES
    now,       \* the clock
    live,      \* keys that have an entry in exchangeGuard.entries
    targets,   \* the target set of each entry; empty without one
    lastSeen,  \* lastSeen of each entry; 0 without one
    admitted,  \* targets let through since the entry of their key was made
    reply      \* what the last call for the entry was told

vars == <<now, live, targets, lastSeen, admitted, reply>>

TypeOK ==
    /\ now \in Nat
    /\ live \subseteq Keys
    /\ targets \in [Keys -> SUBSET Targets]
    /\ lastSeen \in [Keys -> Nat]
    /\ admitted \in [Keys -> SUBSET Targets]
    /\ reply \in [Keys -> {"none", "admitted", "rejected"}]

Init ==
    /\ now = 0
    /\ live = {}
    /\ targets = [k \in Keys |-> {}]
    /\ lastSeen = [k \in Keys |-> 0]
    /\ admitted = [k \in Keys |-> {}]
    /\ reply = [k \in Keys |-> "none"]

\* Entries that have not been used for longer than the retention, as of the given time.
Stale(at) == {k \in live : at - lastSeen[k] > Retention}

\* What is left of an entry's field once the stale entries are dropped.
Kept(field, k, none, at) == IF k \in Stale(at) THEN none ELSE field[k]

\* (Mutated form: one target more.)
WithinOneMore(set) == Cardinality(set) <= MaxTargets + 1

\* At most MaxTargets distinct targets have been prepared.
Within(set) == Cardinality(set) <= MaxTargets

\* (Mutated form: a rejected target is not recorded.)
RecordAdmitted(k, t, at) ==
    LET all == Kept(targets, k, {}, at) \cup {t}
    IN  IF Within(all) THEN all ELSE Kept(targets, k, {}, at)

\* The entry of k with t recorded, whether t is let through or not.
Record(k, t, at) == Kept(targets, k, {}, at) \cup {t}

\* One call, which read the clock when it was at: drop the stale entries of all keys,
\* find or make the entry of k, record the target in it, set lastSeen, perhaps back, if
\* a call that read the clock later was faster, and only then check the limit.
Guard(k, t, at) ==
    LET ok == Within(Kept(targets, k, {}, at) \cup {t})
    IN  /\ live' = (live \ Stale(at)) \cup {k}
        /\ targets' = [j \in Keys |-> IF j = k THEN Record(k, t, at)
                                      ELSE Kept(targets, j, {}, at)]
        /\ lastSeen' = [j \in Keys |-> IF j = k THEN at ELSE Kept(lastSeen, j, 0, at)]
        /\ admitted' = [j \in Keys |-> IF j = k /\ ok
                                       THEN Kept(admitted, j, {}, at) \cup {t}
                                       ELSE Kept(admitted, j, {}, at)]
        /\ reply' = [j \in Keys |-> IF j = k
                                    THEN IF ok THEN "admitted" ELSE "rejected"
                                    ELSE Kept(reply, j, "none", at)]
        /\ UNCHANGED now

\* When a call that has the mutex now may have read the clock.
Readings == {at \in 0..now : now - at <= MaxWait}

\* Time passes between the calls.
Pass ==
    /\ now < MaxTime
    /\ now' = now + 1
    /\ UNCHANGED <<live, targets, lastSeen, admitted, reply>>

Next == Pass \/ \E k \in Keys, t \in Targets, at \in Readings : Guard(k, t, at)

Spec == Init /\ [][Next]_vars

-----------------------------------------------------------------------------
(* Properties.                                                             *)

\* No more than MaxTargets distinct targets of one step are let through as long as
\* its entry lives, however their prepares and retries are ordered.
AdmittedWithinLimit == \A k \in Keys : Cardinality(admitted[k]) <= MaxTargets

\* Once one target of a step was rejected the whole step is to fail: every further
\* prepare of it is rejected too, also the retry of a target let through before,
\* until its entry has become stale.
RejectionSticks ==
    [][\A k \in Keys :
         reply[k] = "rejected" /\ k \notin Stale(now) => reply'[k] = "rejected"]_vars
=============================================================================
