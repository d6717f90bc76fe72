------------------------- MODULE CheckBacklogProofs -------------------------
(***************************************************************************)
(* The verdict of CheckBacklog for every threshold, every backlog and any  *)
(* number of polls: the flag StateCheckFailed is the memory of all polls.  *)
(***************************************************************************)
EXTENDS CheckBacklog, TLAPS

\* The flag says whether any poll so far was above the threshold.
Remembers == exceeded <=> SawTooMany

\* The verdict is given when the check is done and not before.
Concludes ==
    /\ phase = "done" => verdict \in {"passed", "failed"}
    /\ phase = "done" => (verdict = "failed" <=> exceeded)
    /\ phase \in {"new", "prepared"} => history = <<>> /\ ~exceeded

Inv == TypeOK /\ Remembers /\ Concludes /\ EndsInTime

\* Without a poll nothing was seen.
LEMMA NothingSeen ==
    ASSUME history = <<>>
    PROVE  history \in Seq(Nat) /\ ~SawTooMany
<1>1. Len(history) = 0 /\ history \in Seq(Nat)
  OBVIOUS
<1> QED
  BY <1>1 DEF SawTooMany

LEMMA InitInv == Init => Inv
<1> SUFFICES ASSUME Init PROVE Inv
  OBVIOUS
<1>1. history \in Seq(Nat) /\ ~SawTooMany
  BY NothingSeen DEF Init
<1>2. 0 \in Int
  OBVIOUS
<1>3. TypeOK
  BY <1>1, <1>2, Zenon DEF Init, TypeOK
<1>4. Remembers
  BY <1>1 DEF Init, Remembers
<1>5. phase = "new" /\ ~exceeded /\ history = <<>>
  BY DEF Init
<1>6. Concludes /\ EndsInTime
  BY <1>1, <1>5 DEF Concludes, EndsInTime
<1> QED
  BY <1>3, <1>4, <1>6 DEF Inv

\* One poll more: the flag remembers it as well.
LEMMA PollRemembers ==
    ASSUME TypeOK, Remembers, NEW b \in Nat, CheckBacklogStatus(b)
    PROVE  /\ history' \in Seq(Nat)
           /\ exceeded' \in BOOLEAN
           /\ exceeded' <=> SawTooMany'
<1>1. history \in Seq(Nat) /\ history' = Append(history, b) /\ threshold' = threshold
  BY DEF TypeOK, CheckBacklogStatus
<1>2. /\ history' \in Seq(Nat)
      /\ Len(history') = Len(history) + 1
      /\ \A i \in 1..Len(history) : history'[i] = history[i]
      /\ history'[Len(history) + 1] = b
      /\ Len(history) \in Nat
  BY <1>1
<1>3. exceeded' <=> exceeded \/ b > threshold
  BY DEF CheckBacklogStatus, Exceeded
<1>4. ASSUME SawTooMany PROVE SawTooMany'
  BY <1>1, <1>2, <1>4 DEF SawTooMany
<1>5. ASSUME b > threshold PROVE SawTooMany'
  BY <1>1, <1>2, <1>5 DEF SawTooMany
<1>6. ASSUME SawTooMany' PROVE SawTooMany \/ b > threshold
  <2>1. PICK i \in 1..Len(history') : history'[i] > threshold'
    BY <1>6 DEF SawTooMany
  <2>2. CASE i = Len(history) + 1
    BY <1>1, <1>2, <2>1, <2>2
  <2>3. CASE i # Len(history) + 1
    <3>1. i \in 1..Len(history)
      BY <1>2, <2>1, <2>3
    <3> QED
      BY <1>1, <1>2, <2>1, <3>1 DEF SawTooMany
  <2> QED
    BY <2>2, <2>3
<1>7. exceeded' \in BOOLEAN
  BY DEF CheckBacklogStatus, Exceeded, TypeOK
<1> QED
  BY <1>2, <1>3, <1>4, <1>5, <1>6, <1>7 DEF Remembers

\* What a poll concludes, in Start (which never passes) and in Status.
LEMMA PollConcludes ==
    ASSUME Inv, phase \in {"prepared", "running"},
           NEW b \in Nat, CheckBacklogStatus(b),
           \/ Fails /\ phase' = "done" /\ verdict' = "failed"
           \/ ~Fails /\ elapsed /\ phase' = "done" /\ verdict' = "passed"
           \/ ~Fails /\ phase' = "running" /\ UNCHANGED verdict
    PROVE  Inv'
<1>1. TypeOK /\ Remembers
  BY DEF Inv
<1>2. /\ history' \in Seq(Nat) /\ exceeded' \in BOOLEAN
      /\ exceeded' <=> SawTooMany'
  BY <1>1, PollRemembers
<1>3. UNCHANGED <<threshold, failEarly, elapsed>>
  BY DEF CheckBacklogStatus
<1>4. TypeOK'
  BY <1>1, <1>2, <1>3 DEF TypeOK
<1>5. Remembers'
  BY <1>2 DEF Remembers
<1>6. CASE Fails /\ phase' = "done" /\ verdict' = "failed"
  BY <1>2, <1>3, <1>4, <1>5, <1>6 DEF Inv, Fails, Concludes, EndsInTime
<1>7. CASE ~Fails /\ elapsed /\ phase' = "done" /\ verdict' = "passed"
  BY <1>2, <1>3, <1>4, <1>5, <1>7 DEF Inv, Fails, Concludes, EndsInTime
<1>8. CASE ~Fails /\ phase' = "running" /\ UNCHANGED verdict
  BY <1>2, <1>3, <1>4, <1>5, <1>8 DEF Inv, Fails, Concludes, EndsInTime
<1> QED
  BY <1>6, <1>7, <1>8

LEMMA NextStep == Inv /\ [Next]_vars => Inv'
<1> SUFFICES ASSUME Inv, [Next]_vars PROVE Inv'
  OBVIOUS
<1>1. ASSUME CallFails, phase \in {"new", "prepared", "running"} PROVE Inv'
  BY <1>1 DEF CallFails, Inv, TypeOK, Remembers, Concludes, EndsInTime, SawTooMany
<1>2. CASE Prepare
  <2>1. CASE CallFails
    BY <1>1, <1>2, <2>1 DEF Prepare
  <2>2. CASE ~CallFails
    <3>1. history = <<>> /\ UNCHANGED <<elapsed, verdict, history>> /\ phase' = "prepared"
      BY <1>2, <2>2 DEF Prepare, Inv, Concludes
    <3>2. TypeOK'
      BY <1>2, <2>2, ThresholdsAssumption DEF Prepare, Inv, TypeOK
    <3>3. Len(history') = 0
      BY <3>1
    <3>4. ~SawTooMany'
      BY <3>3 DEF SawTooMany
    <3> QED
      BY <1>2, <2>2, <3>1, <3>2, <3>4
         DEF Prepare, Inv, Remembers, Concludes, EndsInTime
  <2> QED
    BY <2>1, <2>2
<1>3. CASE Start
  <2>1. CASE LookupFails
    BY <1>1, <1>3, <2>1 DEF Start, LookupFails
  <2>2. CASE ~LookupFails
    <3>1. PICK b \in Backlogs :
             /\ CheckBacklogStatus(b)
             /\ IF Fails THEN phase' = "done" /\ verdict' = "failed"
                ELSE phase' = "running" /\ UNCHANGED verdict
      BY <1>3, <2>2 DEF Start
    <3>2. b \in Nat /\ phase = "prepared"
      BY <1>3, BacklogsAssumption DEF Start
    <3> QED
      BY <3>1, <3>2, PollConcludes
  <2> QED
    BY <2>1, <2>2
<1>4. CASE Status
  <2>1. CASE LookupFails
    BY <1>1, <1>4, <2>1 DEF Status, LookupFails
  <2>2. CASE ~LookupFails
    <3>1. PICK b \in Backlogs :
             /\ CheckBacklogStatus(b)
             /\ IF Fails THEN phase' = "done" /\ verdict' = "failed"
                ELSE IF elapsed THEN phase' = "done" /\ verdict' = "passed"
                ELSE UNCHANGED <<phase, verdict>>
      BY <1>4, <2>2 DEF Status
    <3>2. b \in Nat /\ phase = "running"
      BY <1>4, BacklogsAssumption DEF Status
    <3> QED
      BY <3>1, <3>2, PollConcludes
  <2> QED
    BY <2>1, <2>2
<1>5. CASE Elapse
  BY <1>5 DEF Elapse, Inv, TypeOK, Remembers,
              Concludes, EndsInTime, SawTooMany
<1>6. CASE UNCHANGED vars
  BY <1>6 DEF vars, Inv, TypeOK, Remembers,
              Concludes, EndsInTime, SawTooMany
<1> QED
  BY <1>2, <1>3, <1>4, <1>5, <1>6 DEF Next, Finished

\* The backlog check fails exactly if some poll was above the threshold, for every
\* threshold, queue and number of polls.
THEOREM VerdictCorrect == Spec => []VerdictMatchesHistory
<1>1. Inv => VerdictMatchesHistory
  BY DEF Inv, VerdictMatchesHistory, Remembers, Concludes
<1> QED
  BY <1>1, InitInv, NextStep, PTL DEF Spec

\* It ends at the first such poll with failEarly and not before its duration without.
THEOREM EndsInTimeCorrect == Spec => []EndsInTime
<1>1. Inv => EndsInTime
  BY DEF Inv
<1> QED
  BY <1>1, InitInv, NextStep, PTL DEF Spec
=============================================================================
