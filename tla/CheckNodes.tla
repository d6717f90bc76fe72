----------------------------- MODULE CheckNodes -----------------------------
(***************************************************************************)
(* The check of extrabbitmq/check_node.go: Prepare records which nodes     *)
(* run, Start and every Status look the nodes up and compare, and the last *)
(* Status concludes.  The platform calls the handlers one after the other  *)
(* and stops after an error or a completed Status; between the calls the   *)
(* state travels as JSON.  The configuration does not change, so that the  *)
(* endpoint that Prepare has found is found by every later call.           *)
(***************************************************************************)
EXTENDS Integers, Sequences

CONSTANTS
    Nodes,     \* the nodes of the target
    MaxPolls   \* bound: polls before the duration has passed

ASSUME MaxPollsAssumption == MaxPolls \in Nat

Kinds == {"down", "alarm"}

\* What GetNode tells of one node; "lost" is a failed lookup.
Looks == {"up", "down", "upAlarm", "downAlarm", "lost"}

VARIABLES
    phase,      \* "new", "prepared", "running", "done" or "error" (Prepare failed)
    expected,   \* state.ExpectedChanges
    mode,       \* state.StateCheckMode
    failEarly,  \* state.FailEarly
    baseline,   \* state.BaselineRunning and BaselineAlarms, as the look of each node
    elapsed,    \* state.End has passed
    once,       \* state.StateCheckOnce
    deviation,  \* state.DeviationTitle is set
    verdict,    \* "open", "passed" or "failed"
    history,    \* the changes each poll has found
    metrics     \* the states shown in the widget

settings == <<expected, mode, failEarly, baseline>>
vars == <<phase, settings, elapsed, once, deviation, verdict, history, metrics>>

TypeOK ==
    /\ phase \in {"new", "prepared", "running", "done", "error"}
    /\ expected \subseteq Kinds
    /\ mode \in {"allTheTime", "atLeastOnce"}
    /\ failEarly \in BOOLEAN
    /\ baseline \in [Nodes -> Looks \ {"lost"}]
    /\ elapsed \in BOOLEAN
    /\ once \in BOOLEAN
    /\ deviation \in BOOLEAN
    /\ verdict \in {"open", "passed", "failed"}
    /\ history \in Seq(SUBSET Kinds)
    /\ metrics \subseteq {"info", "warn", "success"}

Init ==
    /\ phase = "new"
    /\ expected = {} /\ mode = "allTheTime" /\ failEarly = TRUE
    /\ baseline = [n \in Nodes |-> "up"]
    /\ elapsed = FALSE
    /\ once = FALSE /\ deviation = FALSE
    /\ verdict = "open"
    /\ history = <<>> /\ metrics = {}

\* The parameters are read, then each node is looked up; one failure is an error.
Prepare(looks) ==
    /\ phase = "new"
    /\ expected' \in SUBSET Kinds
    /\ mode' \in {"allTheTime", "atLeastOnce"}
    /\ failEarly' \in BOOLEAN
    /\ IF \E n \in Nodes : looks[n] = "lost"
       THEN phase' = "error" /\ UNCHANGED baseline
       ELSE phase' = "prepared" /\ baseline' = looks
    /\ UNCHANGED <<elapsed, once, deviation, verdict, history, metrics>>

Elapse ==
    /\ phase \in {"prepared", "running"}
    /\ ~elapsed
    /\ elapsed' = TRUE
    /\ UNCHANGED <<phase, settings, once, deviation, verdict, history, metrics>>

WasRunning(n) == baseline[n] \in {"up", "upAlarm"}

\* The changes that a poll finds.  A node is down when it was running and is not, or
\* is not found; an alarm counts whatever it was at the baseline.
Changes(looks) ==
    {k \in Kinds : \E n \in Nodes :
        \/ k = "down" /\ WasRunning(n) /\ looks[n] \in {"down", "downAlarm", "lost"}
        \/ k = "alarm" /\ looks[n] \in {"upAlarm", "downAlarm"}}

\* (Mutated form: only a poll without any expected change deviates.)
DeviatesWithoutExpected(c) ==
    IF expected = {} THEN c # {}
    ELSE mode = "allTheTime" /\ c # {} /\ c \cap expected = {}

\* A poll that recordDeviation is called for.
Deviates(c) ==
    IF expected = {} THEN c # {}
    ELSE mode = "allTheTime" /\ c \ expected # {}

\* (Mutated form: the remembered deviation is only reported without another change.)
FailsForgetful(c) ==
    \/ Deviates(c) /\ failEarly
    \/ /\ elapsed
       /\ \/ expected # {} /\ mode = "allTheTime" /\ c = {}
          \/ expected # {} /\ mode = "atLeastOnce" /\ ~once'
          \/ ~failEarly /\ Deviates(c)

\* The poll returns an error: at once, or for what was missed or remembered at the end.
Fails(c) ==
    \/ Deviates(c) /\ failEarly
    \/ /\ elapsed
       /\ \/ expected # {} /\ mode = "allTheTime" /\ c = {}
          \/ expected # {} /\ mode = "atLeastOnce" /\ ~once'
          \/ ~failEarly /\ deviation'

\* (Mutated form: an unexpected change hides an expected one.)
MetricOfExpectedOnly(c) ==
    IF c = {} THEN "info" ELSE IF c \subseteq expected THEN "success" ELSE "warn"

\* toNodeChangeMetric: one expected change is enough for "success".
Metric(c) == IF c = {} THEN "info" ELSE IF c \cap expected # {} THEN "success" ELSE "warn"

\* checkNodesStatus, but for what the caller makes of its result.
CheckNodesStatus(looks) ==
    LET c == Changes(looks)
    IN  /\ once' = (once \/ (mode = "atLeastOnce" /\ c \cap expected # {}))
        /\ deviation' = (deviation \/ (Deviates(c) /\ ~failEarly))
        /\ history' = Append(history, c)
        /\ metrics' = metrics \cup {Metric(c)}
        /\ UNCHANGED <<settings, elapsed>>

\* Start polls too, but its result does not tell that the check is completed.
Start(looks) ==
    /\ phase = "prepared"
    /\ CheckNodesStatus(looks)
    /\ IF Fails(Changes(looks))
       THEN phase' = "done" /\ verdict' = "failed"
       ELSE phase' = "running" /\ UNCHANGED verdict

\* The bound: MaxPolls polls, and one more after the duration.
MorePolls == Len(history) < MaxPolls \/ (elapsed /\ Len(history) = MaxPolls)

\* (Mutated form: the result of Status does not tell that the check is completed.)
StatusOpen(looks) ==
    /\ phase = "running"
    /\ MorePolls
    /\ CheckNodesStatus(looks)
    /\ IF Fails(Changes(looks))
       THEN phase' = "done" /\ verdict' = "failed"
       ELSE UNCHANGED <<phase, verdict>>

Status(looks) ==
    /\ phase = "running"
    /\ MorePolls
    /\ CheckNodesStatus(looks)
    /\ IF Fails(Changes(looks))
       THEN phase' = "done" /\ verdict' = "failed"
       ELSE IF elapsed THEN phase' = "done" /\ verdict' = "passed"
       ELSE UNCHANGED <<phase, verdict>>

Finished == phase \in {"done", "error"} /\ UNCHANGED vars

Poll == \E looks \in [Nodes -> Looks] : Status(looks)

Next ==
    \/ \E looks \in [Nodes -> Looks] : Prepare(looks) \/ Start(looks)
    \/ Poll \/ Elapse \/ Finished

\* Time passes, and the platform polls every two seconds (CallInterval).
Spec == Init /\ [][Next]_vars /\ WF_vars(Poll) /\ WF_vars(Elapse)

-----------------------------------------------------------------------------
(* Properties.                                                             *)

Polls == 1..Len(history)

\* Some poll has found a change that was not expected.
Deviated ==
    /\ expected = {} \/ mode = "allTheTime"
    /\ \E i \in Polls : \E k \in history[i] : k \notin expected

\* The verdict against all that was observed: an unexpected change at any poll fails
\* the check, and so does the lack of an expected one, at the last poll or at all of
\* them; nothing else does.
VerdictMatchesHistory ==
    phase = "done" =>
        (verdict = "failed" <=>
            \/ Deviated
            \/ expected # {} /\ mode = "allTheTime" /\ history[Len(history)] = {}
            \/ /\ expected # {} /\ mode = "atLeastOnce"
               /\ \A i \in Polls : history[i] \cap expected = {})

\* With failEarly the first deviation ends the check; without it, and for changes that
\* must be seen once, only the end of the duration does.
EndsInTime ==
    /\ failEarly /\ phase = "running" => ~Deviated
    /\ phase = "done" /\ (~failEarly \/ (expected # {} /\ mode = "atLeastOnce")) => elapsed

\* The widget agrees with a check that passes: no warning is shown where each change
\* was to be expected, and a success where one had to be seen.
MetricsAgree ==
    verdict = "passed" =>
        IF expected = {} THEN metrics = {"info"}
        ELSE IF mode = "allTheTime" THEN "warn" \notin metrics
        ELSE "success" \in metrics

\* A started check comes to a verdict.
CheckEnds == phase = "running" ~> phase = "done"

\* "'All the time': every poll must detect it."
EveryPollDetects ==
    verdict = "passed" /\ expected # {} /\ mode = "allTheTime" =>
        \A i \in Polls : history[i] \cap expected # {}
=============================================================================
