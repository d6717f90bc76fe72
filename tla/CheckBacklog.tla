---------------------------- MODULE CheckBacklog ----------------------------
(***************************************************************************)
(* The check of extrabbitmq/check_queue_backlog.go: Start and every Status *)
(* read the number of messages in the queue and compare it with the        *)
(* threshold.  The platform calls the handlers one after the other; a call *)
(* that returns an error, or a completed Status, is the last one.  The     *)
(* flag StateCheckSuccess is written and never read.                       *)
(***************************************************************************)
EXTENDS Integers, Sequences

CONSTANTS
    Thresholds,  \* the configured values of acceptableBacklog
    Backlogs,    \* the numbers of messages a queue may hold
    MaxPolls     \* bound: polls before the duration has passed

ASSUME ThresholdsAssumption == Thresholds \subseteq Int
ASSUME BacklogsAssumption == Backlogs \subseteq Nat
ASSUME MaxPollsAssumption == MaxPolls \in Nat

VARIABLES
    phase,      \* "new", "prepared", "running", "done" or "error"
    threshold,  \* state.AcceptableBacklog
    failEarly,  \* state.FailEarly
    elapsed,    \* state.End has passed
    exceeded,   \* state.StateCheckFailed
    verdict,    \* "open", "passed" or "failed"
    history     \* the backlogs that were read

vars == <<phase, threshold, failEarly, elapsed, exceeded, verdict, history>>

TypeOK ==
    /\ phase \in {"new", "prepared", "running", "done", "error"}
    /\ threshold \in Int
    /\ failEarly \in BOOLEAN
    /\ elapsed \in BOOLEAN
    /\ exceeded \in BOOLEAN
    /\ verdict \in {"open", "passed", "failed"}
    /\ history \in Seq(Nat)

Init ==
    /\ phase = "new"
    /\ threshold = 0 /\ failEarly = FALSE
    /\ elapsed = FALSE
    /\ exceeded = FALSE
    /\ verdict = "open"
    /\ history = <<>>

\* The call fails and leaves the state as it was.
CallFails ==
    /\ phase' = "error"
    /\ UNCHANGED <<threshold, failEarly, elapsed, exceeded, verdict, history>>

\* A target without its queue, its virtual host or its endpoint is refused.
Prepare ==
    /\ phase = "new"
    /\ \/ CallFails
       \/ /\ phase' = "prepared"
          /\ threshold' \in Thresholds
          /\ failEarly' \in BOOLEAN
          /\ exceeded' = FALSE
          /\ UNCHANGED <<elapsed, verdict, history>>

Elapse ==
    /\ phase \in {"prepared", "running"}
    /\ ~elapsed
    /\ elapsed' = TRUE
    /\ UNCHANGED <<phase, threshold, failEarly, exceeded, verdict, history>>

\* (Mutated form: the flag follows the last poll.)
ExceededNow(b) == b > threshold

\* A backlog above the threshold is never forgotten.
Exceeded(b) == exceeded \/ b > threshold

\* (Mutated form: without failing early.)
FailsAtEnd == exceeded' /\ elapsed

Fails == exceeded' /\ (failEarly \/ elapsed)

\* QueueBacklogCheckStatus with a queue of b messages.
CheckBacklogStatus(b) ==
    /\ exceeded' = Exceeded(b)
    /\ history' = Append(history, b)
    /\ UNCHANGED <<threshold, failEarly, elapsed>>

\* The endpoint is not configured, or the queue cannot be read.
LookupFails == CallFails

\* Start polls too, but its result does not tell that the check is completed.
Start ==
    /\ phase = "prepared"
    /\ \/ LookupFails
       \/ \E b \in Backlogs :
          /\ CheckBacklogStatus(b)
          /\ IF Fails THEN phase' = "done" /\ verdict' = "failed"
             ELSE phase' = "running" /\ UNCHANGED verdict

\* The bound: MaxPolls polls, and one more after the duration.
MorePolls == Len(history) < MaxPolls \/ (elapsed /\ Len(history) = MaxPolls)

\* (Mutated form: the result does not tell that the duration has passed.)
StatusOpen ==
    /\ phase = "running"
    /\ MorePolls
    /\ \/ LookupFails
       \/ \E b \in Backlogs :
          /\ CheckBacklogStatus(b)
          /\ IF Fails THEN phase' = "done" /\ verdict' = "failed"
             ELSE UNCHANGED <<phase, verdict>>

Status ==
    /\ phase = "running"
    /\ MorePolls
    /\ \/ LookupFails
       \/ \E b \in Backlogs :
          /\ CheckBacklogStatus(b)
          /\ IF Fails THEN phase' = "done" /\ verdict' = "failed"
             ELSE IF elapsed THEN phase' = "done" /\ verdict' = "passed"
             ELSE UNCHANGED <<phase, verdict>>

Finished == phase \in {"done", "error"} /\ UNCHANGED vars

Next == Prepare \/ Start \/ Status \/ Elapse \/ Finished

\* Time passes, and the platform polls every two seconds (CallInterval).
Spec == Init /\ [][Next]_vars /\ WF_vars(Status) /\ WF_vars(Elapse)

-----------------------------------------------------------------------------
(* Properties.                                                             *)

\* Some poll has read more messages than acceptable.
SawTooMany == \E i \in 1..Len(history) : history[i] > threshold

\* The verdict is about every poll, not only the last: the check fails when any of
\* them was above the threshold, and only then.
VerdictMatchesHistory == phase = "done" => (verdict = "failed" <=> SawTooMany)

\* With failEarly the first poll above the threshold ends the check; without it the
\* check goes on for the whole duration.
EndsInTime ==
    /\ failEarly /\ phase = "running" => ~SawTooMany
    /\ ~failEarly /\ phase = "done" => elapsed

\* A started check comes to an end.
CheckEnds == phase = "running" ~> phase \in {"done", "error"}
=============================================================================
