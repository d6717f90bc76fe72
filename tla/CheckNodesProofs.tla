-------------------------- MODULE CheckNodesProofs --------------------------
(***************************************************************************)
(* The verdict of CheckNodes for any nodes, any observations and any       *)
(* number of polls: the flags StateCheckOnce and DeviationTitle are all    *)
(* the memory of earlier polls that the verdict needs.                     *)
(***************************************************************************)
EXTENDS CheckNodes, TLAPS

\* Some poll has found an expected change.
SawExpected == \E i \in Polls : history[i] \cap expected # {}

\* The last poll has found no change at all.
LastEmpty == history[Len(history)] = {}

\* What the flags remember of the polls so far.
Remembers ==
    /\ once <=> mode = "atLeastOnce" /\ SawExpected
    /\ deviation <=> ~failEarly /\ Deviated

\* What is known of a check that is not done, and of one that is.
Concludes ==
    /\ phase \in {"new", "prepared"} => history = <<>>
    /\ phase = "done" =>
         (verdict = "failed" <=>
             \/ Deviated
             \/ expected # {} /\ mode = "allTheTime" /\ LastEmpty
             \/ expected # {} /\ mode = "atLeastOnce" /\ ~SawExpected)

Inv == TypeOK /\ Remembers /\ Concludes /\ EndsInTime

LEMMA ChangesType ==
    ASSUME NEW looks
    PROVE  Changes(looks) \in SUBSET Kinds
BY DEF Changes

\* Without a poll nothing was seen.
LEMMA NothingSeen ==
    ASSUME history = <<>>
    PROVE  history \in Seq(SUBSET Kinds) /\ ~Deviated /\ ~SawExpected
<1>1. Len(history) = 0 /\ history \in Seq(SUBSET Kinds)
  OBVIOUS
<1> QED
  BY <1>1 DEF Deviated, SawExpected, Polls

LEMMA InitInv == Init => Inv
<1> SUFFICES ASSUME Init PROVE Inv
  OBVIOUS
<1>1. history \in Seq(SUBSET Kinds) /\ ~Deviated /\ ~SawExpected
  BY NothingSeen DEF Init
<1>2. TypeOK
  BY <1>1, Zenon DEF Init, TypeOK, Looks
<1>3. Remembers
  BY <1>1 DEF Init, Remembers
<1>4. Concludes /\ EndsInTime
  BY <1>1 DEF Init, Concludes, EndsInTime
<1> QED
  BY <1>2, <1>3, <1>4 DEF Inv

\* What a poll that finds the changes c adds to the history.
LEMMA PollAdds ==
    ASSUME TypeOK, NEW looks, CheckNodesStatus(looks)
    PROVE  LET c == Changes(looks)
           IN  /\ TypeOK' <=>
                      /\ phase' \in {"new", "prepared", "running", "done", "error"}
                      /\ verdict' \in {"open", "passed", "failed"}
               /\ Deviated' <=> Deviated \/ Deviates(c)
               /\ SawExpected' <=> SawExpected \/ c \cap expected # {}
               /\ LastEmpty' <=> c = {}
<1> DEFINE c == Changes(looks)
<1>1. c \in SUBSET Kinds
  BY ChangesType
<1>2. history \in Seq(SUBSET Kinds) /\ history' = Append(history, c)
  BY DEF TypeOK, CheckNodesStatus
<1>3. UNCHANGED <<expected, mode, failEarly, baseline, elapsed>>
  BY DEF CheckNodesStatus, settings
<1> HIDE DEF c
<1>4. /\ history' \in Seq(SUBSET Kinds)
      /\ Len(history') = Len(history) + 1
      /\ \A i \in 1..Len(history) : history'[i] = history[i]
      /\ history'[Len(history) + 1] = c
      /\ Len(history) \in Nat
  BY <1>1, <1>2
<1>5. \A i \in Polls' : i \in Polls \/ i = Len(history) + 1
  BY <1>4 DEF Polls
<1>6. /\ Len(history) + 1 \in Polls'
      /\ \A i \in Polls : i \in Polls' /\ history'[i] = history[i]
  BY <1>4 DEF Polls
<1>7. SawExpected' <=> SawExpected \/ c \cap expected # {}
  BY <1>3, <1>4, <1>5, <1>6 DEF SawExpected
<1>8. (\E i \in Polls' : \E k \in history'[i] : k \notin expected)
        <=> (\E i \in Polls : \E k \in history[i] : k \notin expected) \/ c \ expected # {}
  BY <1>4, <1>5, <1>6
<1>9. Deviates(c) <=> (expected = {} \/ mode = "allTheTime") /\ c \ expected # {}
  BY DEF Deviates
<1>10. Deviated' <=> Deviated \/ Deviates(c)
  BY <1>3, <1>8, <1>9 DEF Deviated
<1>11. LastEmpty' <=> c = {}
  BY <1>4 DEF LastEmpty
<1>12. /\ once' \in BOOLEAN /\ deviation' \in BOOLEAN
       /\ metrics' \subseteq {"info", "warn", "success"}
  BY DEF TypeOK, CheckNodesStatus, Metric
<1>13. TypeOK' <=>
           /\ phase' \in {"new", "prepared", "running", "done", "error"}
           /\ verdict' \in {"open", "passed", "failed"}
  BY <1>3, <1>4, <1>12 DEF TypeOK
<1> QED
  BY <1>7, <1>10, <1>11, <1>13 DEF c

\* The three ways in which a poll ends; Start never passes.
LEMMA PollConcludes ==
    ASSUME Inv, phase \in {"prepared", "running"},
           NEW looks, CheckNodesStatus(looks),
           LET fails == Fails(Changes(looks))
           IN  \/ fails /\ phase' = "done" /\ verdict' = "failed"
               \/ ~fails /\ elapsed /\ phase' = "done" /\ verdict' = "passed"
               \/ ~fails /\ phase' = "running" /\ UNCHANGED verdict
    PROVE  Inv'
<1> DEFINE c == Changes(looks)
<1>1. TypeOK /\ Remembers /\ Concludes /\ EndsInTime
  BY DEF Inv
<1>2. /\ TypeOK' <=>
             /\ phase' \in {"new", "prepared", "running", "done", "error"}
             /\ verdict' \in {"open", "passed", "failed"}
      /\ Deviated' <=> Deviated \/ Deviates(c)
      /\ SawExpected' <=> SawExpected \/ c \cap expected # {}
      /\ LastEmpty' <=> c = {}
  BY <1>1, PollAdds
<1>3. /\ UNCHANGED <<expected, mode, failEarly, elapsed>>
      /\ once' <=> once \/ (mode = "atLeastOnce" /\ c \cap expected # {})
      /\ deviation' <=> deviation \/ (Deviates(c) /\ ~failEarly)
  BY DEF CheckNodesStatus, settings
<1>4. \/ Fails(c) /\ phase' = "done" /\ verdict' = "failed"
      \/ ~Fails(c) /\ elapsed /\ phase' = "done" /\ verdict' = "passed"
      \/ ~Fails(c) /\ phase' = "running" /\ UNCHANGED verdict
  OBVIOUS
<1> HIDE DEF c
<1>5. mode \in {"allTheTime", "atLeastOnce"} /\ verdict \in {"open", "passed", "failed"}
  BY <1>1 DEF TypeOK
<1>6. TypeOK'
  BY <1>2, <1>4, <1>5
<1>7. Remembers'
  BY <1>1, <1>2, <1>3 DEF Remembers
<1>8. failEarly => ~Deviated
  <2>1. CASE phase = "prepared"
    BY <1>1, <2>1, NothingSeen DEF Concludes
  <2>2. CASE phase = "running"
    BY <1>1, <2>2 DEF EndsInTime
  <2> QED
    BY <2>1, <2>2
<1>9. Fails(c) <=>
        \/ Deviates(c) /\ failEarly
        \/ /\ elapsed
           /\ \/ expected # {} /\ mode = "allTheTime" /\ LastEmpty'
              \/ expected # {} /\ mode = "atLeastOnce" /\ ~SawExpected'
              \/ ~failEarly /\ Deviated'
  BY <1>2, <1>3, <1>7 DEF Fails, Remembers
<1>10. expected # {} /\ mode = "atLeastOnce" => ~Deviates(c) /\ ~Deviated
  BY DEF Deviates, Deviated
<1>11. CASE phase' = "running"
  BY <1>2, <1>3, <1>4, <1>6, <1>7, <1>8, <1>9, <1>11
     DEF Inv, Concludes, EndsInTime
<1>12. CASE phase' = "done"
  <2>1. \/ Fails(c) /\ verdict' = "failed"
        \/ ~Fails(c) /\ elapsed /\ verdict' = "passed"
    BY <1>4, <1>12
  <2>2. Concludes'
    BY <1>2, <1>3, <1>8, <1>9, <1>10, <1>12, <2>1 DEF Concludes
  <2>3. EndsInTime'
    BY <1>2, <1>3, <1>9, <1>10, <1>12, <2>1 DEF EndsInTime
  <2> QED
    BY <1>6, <1>7, <2>2, <2>3 DEF Inv
<1> QED
  BY <1>4, <1>11, <1>12

LEMMA NextStep == Inv /\ [Next]_vars => Inv'
<1> SUFFICES ASSUME Inv, [Next]_vars PROVE Inv'
  OBVIOUS
<1>1. ASSUME NEW looks \in [Nodes -> Looks], Prepare(looks) PROVE Inv'
  <2>1. /\ history = <<>> /\ history' = history /\ verdict' = verdict
        /\ UNCHANGED <<elapsed, once, deviation, metrics>>
        /\ phase' \in {"prepared", "error"}
    BY <1>1 DEF Prepare, Inv, Concludes
  <2>2. TypeOK'
    <3>1. baseline' \in [Nodes -> Looks \ {"lost"}]
      BY <1>1 DEF Prepare, Inv, TypeOK
    <3> QED
      BY <1>1, <2>1, <3>1 DEF Prepare, Inv, TypeOK
  <2>3. ~Deviated /\ ~SawExpected
    BY <2>1, NothingSeen
  <2>4. Len(history') = 0
    BY <2>1
  <2>5. ~Deviated' /\ ~SawExpected'
    BY <2>4 DEF Deviated, SawExpected, Polls
  <2>6. Remembers'
    BY <2>1, <2>3, <2>5 DEF Inv, Remembers
  <2> QED
    BY <2>1, <2>2, <2>5, <2>6 DEF Inv, Concludes, EndsInTime
<1>2. ASSUME NEW looks \in [Nodes -> Looks], Start(looks) PROVE Inv'
  BY <1>2, PollConcludes DEF Start
<1>3. ASSUME NEW looks \in [Nodes -> Looks], Status(looks) PROVE Inv'
  BY <1>3, PollConcludes DEF Status
<1>4. CASE Elapse
  BY <1>4 DEF Elapse, settings, Inv, TypeOK, Remembers,
              Concludes, EndsInTime,
              Deviated, SawExpected, LastEmpty, Polls
<1>5. CASE UNCHANGED vars
  BY <1>5 DEF vars, settings, Inv, TypeOK, Remembers,
              Concludes, EndsInTime,
              Deviated, SawExpected, LastEmpty, Polls
<1> QED
  BY <1>1, <1>2, <1>3, <1>4, <1>5 DEF Next, Poll, Finished

\* The node check fails for exactly the reasons that its polls give, for any set of
\* nodes and any number of polls.
THEOREM VerdictCorrect == Spec => []VerdictMatchesHistory
<1>1. Inv => VerdictMatchesHistory
  BY DEF Inv, VerdictMatchesHistory, Concludes, LastEmpty, SawExpected
<1> QED
  BY <1>1, InitInv, NextStep, PTL DEF Spec

\* It ends at the first deviation with failEarly, and not before its duration when the
\* verdict needs all polls.
THEOREM EndsInTimeCorrect == Spec => []EndsInTime
<1>1. Inv => EndsInTime
  BY DEF Inv
<1> QED
  BY <1>1, InitInv, NextStep, PTL DEF Spec

-----------------------------------------------------------------------------
(* What the widget shows.                                                  *)

\* The states shown are those of the polls, and a check that has passed has polled.
Shown ==
    /\ metrics = {Metric(history[i]) : i \in Polls}
    /\ verdict = "passed" => phase = "done" /\ Polls # {}
    /\ phase # "done" => verdict = "open"

\* A poll adds the state of its changes.
LEMMA PollShows ==
    ASSUME TypeOK, Shown, NEW looks, CheckNodesStatus(looks)
    PROVE  /\ metrics' = {Metric(history[i]) : i \in Polls}'
           /\ Polls' # {}
<1> DEFINE c == Changes(looks)
<1>1. c \in SUBSET Kinds
  BY ChangesType
<1>2. history \in Seq(SUBSET Kinds) /\ history' = Append(history, c)
  BY DEF TypeOK, CheckNodesStatus
<1>3. UNCHANGED expected /\ metrics' = metrics \cup {Metric(c)}
  BY DEF CheckNodesStatus, settings
<1> HIDE DEF c
<1>4. /\ Len(history') = Len(history) + 1 /\ Len(history) \in Nat
      /\ \A i \in 1..Len(history) : history'[i] = history[i]
      /\ history'[Len(history) + 1] = c
  BY <1>1, <1>2
<1>5. Polls' = Polls \cup {Len(history) + 1}
  BY <1>4 DEF Polls
<1>6. \A i \in Polls : history'[i] = history[i]
  BY <1>4 DEF Polls
<1>7. {Metric(history[i]) : i \in Polls}'
        = {Metric(history[i]) : i \in Polls} \cup {Metric(c)}
  BY <1>3, <1>4, <1>5, <1>6 DEF Metric
<1> QED
  BY <1>3, <1>5, <1>7 DEF Shown

LEMMA ShownStep == Inv /\ Shown /\ [Next]_vars => Shown'
<1> SUFFICES ASSUME Inv, Shown, [Next]_vars PROVE Shown'
  OBVIOUS
<1>1. TypeOK
  BY DEF Inv
<1>2. ASSUME NEW looks \in [Nodes -> Looks], Prepare(looks) PROVE Shown'
  <2>1. /\ history = <<>> /\ history' = history
        /\ UNCHANGED <<metrics, verdict>> /\ phase' \in {"prepared", "error"}
        /\ phase = "new"
    BY <1>2 DEF Prepare, Inv, Concludes
  <2>2. Len(history) = 0 /\ Len(history') = 0
    BY <2>1
  <2>3. Polls = {} /\ Polls' = {}
    BY <2>2 DEF Polls
  <2> QED
    BY <2>1, <2>3 DEF Shown
<1>3. ASSUME NEW looks \in [Nodes -> Looks], Start(looks) PROVE Shown'
  BY <1>1, <1>3, PollShows DEF Start, Shown
<1>4. ASSUME NEW looks \in [Nodes -> Looks], Status(looks) PROVE Shown'
  BY <1>1, <1>4, PollShows DEF Status, Shown
<1>5. CASE Elapse
  BY <1>5 DEF Elapse, settings, Shown, Polls, Metric
<1>6. CASE UNCHANGED vars
  BY <1>6 DEF vars, settings, Shown, Polls, Metric
<1> QED
  BY <1>2, <1>3, <1>4, <1>5, <1>6 DEF Next, Poll, Finished

\* The widget agrees with a check that passes, for any nodes and any number of polls.
THEOREM MetricsCorrect == Spec => []MetricsAgree
<1>1. Init => Shown
  BY DEF Init, Shown, Polls
<1>2. Inv /\ Shown => MetricsAgree
  <2> SUFFICES ASSUME Inv, Shown, verdict = "passed"
               PROVE  IF expected = {} THEN metrics = {"info"}
                      ELSE IF mode = "allTheTime" THEN "warn" \notin metrics
                      ELSE "success" \in metrics
    BY DEF MetricsAgree
  <2>1. /\ phase = "done" /\ Polls # {}
        /\ metrics = {Metric(history[i]) : i \in Polls}
    BY DEF Shown
  <2>2. ~Deviated /\ ~(expected # {} /\ mode = "atLeastOnce" /\ ~SawExpected)
    BY <2>1 DEF Inv, Concludes
  <2>3. CASE expected = {}
    <3>1. \A i \in Polls : Metric(history[i]) = "info"
      BY <2>2, <2>3 DEF Deviated, Metric
    <3> QED
      BY <2>1, <2>3, <3>1
  <2>4. CASE expected # {} /\ mode = "allTheTime"
    <3>1. \A i \in Polls : Metric(history[i]) # "warn"
      BY <2>2, <2>4 DEF Deviated, Metric
    <3> QED
      BY <2>1, <2>4, <3>1
  <2>5. CASE expected # {} /\ mode # "allTheTime"
    <3>1. PICK i \in Polls : history[i] \cap expected # {}
      BY <2>2, <2>5 DEF Inv, TypeOK, SawExpected
    <3>2. Metric(history[i]) = "success"
      BY <3>1 DEF Metric
    <3> QED
      BY <2>1, <2>5, <3>1, <3>2
  <2> QED
    BY <2>3, <2>4, <2>5
<1> QED
  BY <1>1, <1>2, InitInv, NextStep, ShownStep, PTL DEF Spec
=============================================================================
