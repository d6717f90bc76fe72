-------------------------- MODULE PublishRunProofs --------------------------
(***************************************************************************)
(* Proofs about PublishRun for every number of workers and Stop calls,     *)
(* every number of messages and both kinds of action; about the pace that  *)
(* PublishPacing gives it, for every duration, number and rate; and about  *)
(* the arithmetic of SuccessRate, for all counters.                        *)
(***************************************************************************)
EXTENDS PublishRun, SuccessRate, FiniteSetTheorems, TLAPS

\* The size of the pool is a positive number.
LEMMA PoolSize == Cardinality(Workers) \in Nat /\ Cardinality(Workers) > 0
BY WorkersAssumption, FS_CardinalityType, FS_EmptySet

-----------------------------------------------------------------------------
(* Type correctness.                                                       *)

\* What a Stop writes into its verdict keeps the type of the verdicts.
LEMMA VerdictTypes ==
    ASSUME verdict \in [Stops -> Verdicts], NEW s \in Stops,
           NEW b \in BOOLEAN, NEW n \in Nat
    PROVE  /\ [verdict EXCEPT ![s].joined = b] \in [Stops -> Verdicts]
           /\ [verdict EXCEPT ![s].total = n] \in [Stops -> Verdicts]
           /\ [verdict EXCEPT ![s].success = n, ![s].failed = b] \in [Stops -> Verdicts]
<1>1. verdict[s] \in Verdicts
  OBVIOUS
<1>2. \A v \in Verdicts :
        /\ [v EXCEPT !.joined = b] \in Verdicts
        /\ [v EXCEPT !.total = n] \in Verdicts
        /\ [v EXCEPT !.success = n] \in Verdicts
        /\ [v EXCEPT !.failed = b] \in Verdicts
  BY DEF Verdicts
<1> QED
  BY <1>1, <1>2

\* Every step of the code keeps the type invariant; the jobs buffer never holds
\* more than MaxConcurrent ticks.
LEMMA TypeStep == TypeOK /\ [Next]_vars => TypeOK'
<1> SUFFICES ASSUME TypeOK, [Next]_vars PROVE TypeOK'
  OBVIOUS
<1>a. ASSUME jobs < Cardinality(Workers), jobs' = jobs + 1
      PROVE  jobs' \in 0..Cardinality(Workers)
  <2>1. jobs \in 0..Cardinality(Workers)
    BY DEF TypeOK
  <2> QED
    BY <2>1, <1>a, PoolSize
<1>b. requestCounter + 1 \in Nat /\ requestSuccessCounter + 1 \in Nat
  <2>1. requestCounter \in Nat /\ requestSuccessCounter \in Nat
    BY DEF TypeOK
  <2> QED
    BY <2>1
<1>1. CASE Prepare
  BY <1>1 DEF TypeOK, Prepare, counters, WorkerPlaces, StartPlaces
<1>2. CASE Start
  <2>1. CASE StartLoad
    <3>1. startCall' \in StartPlaces
      BY <2>1 DEF StartLoad, StartPlaces
    <3>2. panics' \subseteq {"send on closed jobs", "close of closed jobs", "nil run data"}
      BY <2>1 DEF TypeOK, StartLoad
    <3> QED
      BY <2>1, <3>1, <3>2 DEF TypeOK, StartLoad, channels, counters, pool
  <2>2. CASE StartSetTickers \/ StartMakeStopTicker \/ StartMakeTickerDone
    <3>1. CASE StartSetTickers
      BY <3>1 DEF TypeOK, StartSetTickers, StartPlaces, counters, pool
    <3>2. CASE StartMakeStopTicker
      BY <3>2 DEF TypeOK, StartMakeStopTicker, StartPlaces, counters, pool
    <3>3. CASE StartMakeTickerDone
      BY <3>3 DEF TypeOK, StartMakeTickerDone, StartPlaces, counters, pool
    <3> QED
      BY <2>2, <3>1, <3>2, <3>3
  <2>3. CASE StartFirstSend
    <3>1. jobs' \in 0..Cardinality(Workers)
      <4>1. \/ jobs < Cardinality(Workers) /\ jobs' = jobs + 1
            \/ jobs' = jobs
        BY <2>3 DEF StartFirstSend, RoomForJob
      <4> QED
        <5>1. jobs \in 0..Cardinality(Workers)
          BY DEF TypeOK
        <5> QED
          BY <4>1, <5>1, <1>a, Zenon
    <3>2. startCall' \in StartPlaces
      BY <2>3 DEF StartFirstSend, StartPlaces
    <3>3. panics' \subseteq {"send on closed jobs", "close of closed jobs", "nil run data"}
      BY <2>3 DEF TypeOK, StartFirstSend
    <3>4. UNCHANGED <<registered, jobsClosed, stopTicker, closedStopTickers, tickers, tickerDone,
                      counters, pool, ticker, stopCall, verdict, completed, overlapped>>
      BY <2>3 DEF StartFirstSend
    <3> QED
      BY <3>1, <3>2, <3>3, <3>4 DEF TypeOK, counters, pool
  <2>4. CASE StartSpawnTicker
    <3>1. startCall' \in StartPlaces /\ ticker' \in TickerPlaces
      BY <2>4 DEF StartSpawnTicker, StartPlaces, TickerPlaces
    <3> QED
      BY <2>4, <3>1 DEF TypeOK, StartSpawnTicker, channels, counters, pool
  <2>5. CASE StartStore
    <3>1. startCall' \in StartPlaces
      BY <2>5 DEF StartStore, StartPlaces
    <3> QED
      BY <2>5, <3>1 DEF TypeOK, StartStore, channels, counters, pool
  <2> QED
    BY <1>2, <2>1, <2>2, <2>3, <2>4, <2>5 DEF Start
<1>3. CASE Ticker
  <2>1. CASE TickerSend
    <3>1. jobs' \in 0..Cardinality(Workers)
      BY <2>1, <1>a DEF TickerSend, RoomForJob
    <3> QED
      BY <2>1, <3>1 DEF TypeOK, TickerSend, TickerPlaces, counters, pool, calls
  <2>2. CASE TickerTick \/ TickerSendPanics \/ TickerStop
    <3>1. CASE TickerTick
      BY <3>1 DEF TypeOK, TickerTick, TickerPlaces, channels, counters, pool, calls
    <3>2. CASE TickerSendPanics
      BY <3>2 DEF TypeOK, TickerSendPanics, TickerPlaces, channels, counters, pool, calls
    <3>3. CASE TickerStop
      BY <3>3 DEF TypeOK, TickerStop, TickerPlaces, channels, counters, pool, calls
    <3> QED
      BY <2>2, <3>1, <3>2, <3>3
  <2> QED
    BY <1>3, <2>1, <2>2 DEF Ticker
<1>4. CASE Status
  BY <1>4 DEF TypeOK, Status, StopTickers, counters, pool
<1>5. ASSUME NEW w \in Workers, Worker(w) PROVE TypeOK'
  <2>a. ASSUME NEW to \in WorkerPlaces, Move(w, to) PROVE worker' \in [Workers -> WorkerPlaces]
    BY <2>a DEF TypeOK, Move
  <2>b. ASSUME NEW l \in Links, Relink(w, l) PROVE link' \in [Workers -> Links]
    BY <2>b DEF TypeOK, Relink
  <2>1. CASE Dial(w)
    BY <2>1, <2>a, <2>b DEF TypeOK, Dial, WorkerPlaces, channels, counters, calls
  <2>2. CASE ReceiveJob(w)
    <3>1. jobs' \in 0..Cardinality(Workers)
      <4>1. jobs \in 0..Cardinality(Workers)
        BY DEF TypeOK
      <4>2. jobs > 0 /\ jobs' = jobs - 1
        BY <2>2 DEF ReceiveJob
      <4> QED
        BY <4>1, <4>2, PoolSize
    <3>2. worker' \in [Workers -> WorkerPlaces]
      BY <2>2, <2>a DEF ReceiveJob, WorkerPlaces
    <3> QED
      BY <2>2, <3>1, <3>2 DEF TypeOK, ReceiveJob, counters, calls
  <2>3. CASE JobsDrained(w)
    BY <2>3, <2>a, <2>b DEF TypeOK, JobsDrained, WorkerPlaces, Links, channels,
         counters, calls
  <2>4. CASE Check(w)
    BY <2>4, <2>a DEF TypeOK, Check, WorkerPlaces, channels, counters, calls
  <2>5. CASE Redial(w)
    <3>1. worker' \in [Workers -> WorkerPlaces]
      BY <2>5, <2>a DEF Redial, WorkerPlaces
    <3>2. link' \in [Workers -> Links]
      BY <2>5, <2>b DEF TypeOK, Redial, Links
    <3>3. requestCounter' \in Nat
      BY <2>5, <1>b DEF TypeOK, Redial
    <3> QED
      BY <2>5, <3>1, <3>2, <3>3 DEF TypeOK, Redial, channels, calls
  <2>6. CASE Publish(w)
    <3>1. worker' \in [Workers -> WorkerPlaces]
      BY <2>6, <2>a DEF Publish, AfterPublish, WorkerPlaces
    <3> QED
      BY <2>6, <3>1, <1>b DEF TypeOK, Publish, channels, calls
  <2>7. CASE Retry(w)
    <3>1. worker' \in [Workers -> WorkerPlaces]
      BY <2>7, <2>a DEF Retry, AfterPublish, WorkerPlaces
    <3>2. link' \in [Workers -> Links]
      BY <2>7, <2>b DEF Retry, Links
    <3> QED
      BY <2>7, <3>1, <3>2 DEF TypeOK, Retry, channels, counters, calls
  <2>8. CASE CountPlain(w)
    BY <2>8, <2>a, <1>b DEF TypeOK, CountPlain, WorkerPlaces, channels, calls
  <2>9. CASE AwaitOutcome(w)
    <3>1. worker' \in [Workers -> WorkerPlaces]
      BY <2>9, <2>a DEF AwaitOutcome, WorkerPlaces
    <3>2. link' \in [Workers -> Links]
      BY <2>9, <2>b DEF TypeOK, AwaitOutcome, Links
    <3>3. requestSuccessCounter' \in Nat
      BY <2>9, <1>b DEF TypeOK, AwaitOutcome
    <3> QED
      BY <2>9, <3>1, <3>2, <3>3 DEF TypeOK, AwaitOutcome, channels, calls
  <2> QED
    BY <1>5, <2>1, <2>2, <2>3, <2>4, <2>5, <2>6, <2>7, <2>8, <2>9 DEF Worker
<1>6. ASSUME NEW s \in Stops, StopLoad(s) \/ Stop(s) PROVE TypeOK'
  <2>a. ASSUME NEW to \in StopPlaces, MoveStop(s, to) PROVE stopCall' \in [Stops -> StopPlaces]
    BY <2>a DEF TypeOK, MoveStop
  <2>1. CASE StopLoad(s)
    BY <2>1, <2>a DEF TypeOK, StopLoad, StopPlaces, channels, counters, pool
  <2>2. CASE StopStopTickers(s)
    BY <2>2, <2>a DEF TypeOK, StopStopTickers, StopTickers, StopPlaces, counters, pool
  <2>3. CASE StopAwaitTicker(s)
    BY <2>3, <2>a DEF TypeOK, StopAwaitTicker, StopPlaces, channels, counters, pool
  <2>4. CASE StopCloseJobs(s)
    BY <2>4, <2>a DEF TypeOK, StopCloseJobs, CloseJobs, StopPlaces, counters, pool
  <2>5. CASE StopAwaitWorkers(s)
    <3>1. verdict' \in [Stops -> Verdicts]
      <4>1. verdict \in [Stops -> Verdicts] /\ WorkersDone \in BOOLEAN
        BY DEF TypeOK, WorkersDone
      <4>2. verdict' = [verdict EXCEPT ![s].joined = WorkersDone]
        BY <2>5 DEF StopAwaitWorkers
      <4> QED
        BY <4>1, <4>2, VerdictTypes, Zenon
    <3> QED
      BY <2>5, <2>a, <3>1 DEF TypeOK, StopAwaitWorkers, StopPlaces, channels, counters, pool
  <2>6. CASE StopReadTotal(s)
    <3>1. verdict' \in [Stops -> Verdicts]
      <4>1. verdict \in [Stops -> Verdicts] /\ requestCounter \in Nat
        BY DEF TypeOK
      <4>2. verdict' = [verdict EXCEPT ![s].total = requestCounter]
        BY <2>6 DEF StopReadTotal
      <4> QED
        BY <4>1, <4>2, VerdictTypes, Zenon
    <3> QED
      BY <2>6, <2>a, <3>1 DEF TypeOK, StopReadTotal, StopPlaces, channels, counters, pool
  <2>7. CASE StopConclude(s)
    <3>1. BelowRate(requestSuccessCounter, verdict[s].total) \in BOOLEAN
      BY DEF BelowRate
    <3>2. verdict' \in [Stops -> Verdicts]
      <4> DEFINE failed == BelowRate(requestSuccessCounter, verdict[s].total)
      <4>1. verdict \in [Stops -> Verdicts] /\ requestSuccessCounter \in Nat
        BY DEF TypeOK
      <4>2. verdict' = [verdict EXCEPT ![s].success = requestSuccessCounter,
                                       ![s].failed = failed]
        BY <2>7 DEF StopConclude
      <4>3. failed \in BOOLEAN
        BY <3>1
      <4> HIDE DEF failed
      <4> QED
        BY <4>1, <4>2, <4>3, VerdictTypes, Zenon
    <3> QED
      BY <2>7, <2>a, <3>2 DEF TypeOK, StopConclude, StopPlaces, counters, pool
  <2> QED
    BY <1>6, <2>1, <2>2, <2>3, <2>4, <2>5, <2>6, <2>7 DEF Stop
<1>7. CASE UNCHANGED vars
  BY <1>7 DEF TypeOK, vars, channels, counters, pool, calls
<1> QED
  BY <1>1, <1>2, <1>3, <1>4, <1>5, <1>6, <1>7 DEF Next, Terminated

\* The run data, the goroutines and the handler calls keep their types.
THEOREM TypeCorrect == Spec => []TypeOK
<1>1. Init => TypeOK
  <2> SUFFICES ASSUME Init PROVE TypeOK
    OBVIOUS
  <2>1. jobs \in 0..Cardinality(Workers)
    BY PoolSize DEF Init
  <2>2. worker \in [Workers -> WorkerPlaces] /\ link \in [Workers -> Links]
    BY DEF Init, WorkerPlaces, Links
  <2>3. verdict \in [Stops -> Verdicts] /\ stopCall \in [Stops -> StopPlaces]
    BY DEF Init, Verdicts, NoVerdict, StopPlaces
  <2> QED
    BY <2>1, <2>2, <2>3 DEF Init, TypeOK, TickerPlaces, StartPlaces
<1> QED
  BY <1>1, TypeStep, PTL DEF Spec

-----------------------------------------------------------------------------
(* The counters.                                                           *)

\* The set of workers at some places is finite and no larger than the pool, also
\* when one of them is left out.
LEMMA AtFinite ==
    ASSUME NEW places
    PROVE  /\ IsFiniteSet(At(places))
           /\ Cardinality(At(places)) \in Nat
           /\ Cardinality(At(places)) <= Cardinality(Workers)
           /\ \A w \in Workers : w \notin At(places) =>
                Cardinality(At(places)) <= Cardinality(Workers) - 1
<1>1. At(places) \subseteq Workers
  BY DEF At
<1>2. IsFiniteSet(At(places)) /\ Cardinality(At(places)) <= Cardinality(Workers)
  BY <1>1, WorkersAssumption, FS_Subset
<1>3. Cardinality(At(places)) \in Nat
  BY <1>2, FS_CardinalityType
<1>4. ASSUME NEW w \in Workers, w \notin At(places)
      PROVE  Cardinality(At(places)) <= Cardinality(Workers) - 1
  <2>1. Cardinality(At(places)) # Cardinality(Workers)
    BY <1>1, <1>4, WorkersAssumption, FS_Subset
  <2> QED
    BY <1>2, <1>3, <2>1, PoolSize
<1> QED
  BY <1>2, <1>3, <1>4

\* What one worker's move does to the number of workers at some places.
LEMMA MoveCount ==
    ASSUME NEW places, NEW w \in Workers, NEW to,
           worker \in [Workers -> WorkerPlaces], Move(w, to)
    PROVE  /\ worker[w] \in places /\ to \in places =>
                Cardinality(At(places)') = Cardinality(At(places))
           /\ worker[w] \notin places /\ to \notin places =>
                Cardinality(At(places)') = Cardinality(At(places))
           /\ worker[w] \notin places /\ to \in places =>
                Cardinality(At(places)') = Cardinality(At(places)) + 1
           /\ worker[w] \in places /\ to \notin places =>
                Cardinality(At(places)') = Cardinality(At(places)) - 1
<1>1. \A v \in Workers : worker'[v] = IF v = w THEN to ELSE worker[v]
  BY DEF Move
<1>2. IsFiniteSet(At(places))
  BY AtFinite
<1>3. ASSUME worker[w] \in places <=> to \in places
      PROVE  At(places)' = At(places)
  BY <1>1, <1>3 DEF At
<1>4. ASSUME worker[w] \notin places, to \in places
      PROVE  Cardinality(At(places)') = Cardinality(At(places)) + 1
  <2>1. At(places)' = At(places) \cup {w} /\ w \notin At(places)
    BY <1>1, <1>4 DEF At
  <2> QED
    BY <1>2, <2>1, FS_AddElement
<1>5. ASSUME worker[w] \in places, to \notin places
      PROVE  Cardinality(At(places)') = Cardinality(At(places)) - 1
  <2>1. At(places)' = At(places) \ {w} /\ w \in At(places)
    BY <1>1, <1>5 DEF At
  <2> QED
    BY <1>2, <2>1, FS_RemoveElement
<1> QED
  BY <1>3, <1>4, <1>5

CountInv == SuccessesAreRequests /\ CommittedBounded

\* The strengthening gives the bound on the number of requests.
LEMMA CommittedGivesOvershoot == TypeOK /\ CommittedBounded => OvershootBounded
<1> SUFFICES ASSUME TypeOK, CommittedBounded, Kind = "fixed"
             PROVE  requestCounter <= NumberOfMessages + Cardinality(Workers) - 1
  BY DEF OvershootBounded
<1>1. requestCounter + Cardinality(Committed)
        <= NumberOfMessages + Cardinality(Workers) - 1
  BY DEF CommittedBounded
<1>2. Cardinality(Committed) \in Nat
  BY AtFinite DEF Committed
<1>3. requestCounter \in Nat
  BY DEF TypeOK
<1> QED
  BY <1>1, <1>2, <1>3, NumberAssumption, PoolSize

\* A step of one worker keeps the relations between the counters and the places.
LEMMA WorkerCountStep ==
    ASSUME TypeOK, CountInv, NEW w \in Workers, Worker(w)
    PROVE  CountInv'
<1> DEFINE F == Cardinality(InFlight)
           C == Cardinality(Committed)
           flying == {"retry", "count", "await"}
           bound == {"redial", "publish"}
<1>1. /\ requestCounter \in Nat /\ requestSuccessCounter \in Nat
      /\ worker \in [Workers -> WorkerPlaces]
  BY DEF TypeOK
<1>2. F \in Nat /\ C \in Nat
  BY AtFinite DEF InFlight, Committed
<1>3. requestSuccessCounter + F <= requestCounter
  BY DEF CountInv, SuccessesAreRequests
<1>4. Kind = "fixed" => requestCounter + C <= NumberOfMessages + Cardinality(Workers) - 1
  BY DEF CountInv, CommittedBounded
\* What remains to be shown, given the moves of the counters.
<1>5. SUFFICES /\ requestSuccessCounter' + F' <= requestCounter'
               /\ Kind = "fixed" => requestCounter' + C'
                    <= NumberOfMessages + Cardinality(Workers) - 1
  BY DEF CountInv, SuccessesAreRequests, CommittedBounded
<1>6. ASSUME NEW to, Move(w, to)
      PROVE  /\ worker[w] \in flying /\ to \in flying => F' = F
             /\ worker[w] \notin flying /\ to \notin flying => F' = F
             /\ worker[w] \notin flying /\ to \in flying => F' = F + 1
             /\ worker[w] \in flying /\ to \notin flying => F' = F - 1
  BY <1>1, <1>6, MoveCount DEF InFlight
<1>7. ASSUME NEW to, Move(w, to)
      PROVE  /\ worker[w] \in bound /\ to \in bound => C' = C
             /\ worker[w] \notin bound /\ to \notin bound => C' = C
             /\ worker[w] \notin bound /\ to \in bound => C' = C + 1
             /\ worker[w] \in bound /\ to \notin bound => C' = C - 1
  BY <1>1, <1>7, MoveCount DEF Committed
<1> HIDE DEF F, C
<1>8. CASE Dial(w) \/ ReceiveJob(w) \/ JobsDrained(w)
  <2>1. UNCHANGED counters
    BY <1>8 DEF Dial, ReceiveJob, JobsDrained
  <2>2. F' = F /\ C' = C
    BY <1>6, <1>7, <1>8 DEF Dial, ReceiveJob, JobsDrained
  <2> QED
    BY <1>3, <1>4, <2>1, <2>2 DEF counters
<1>9. CASE Check(w)
  <2>1. UNCHANGED counters
    BY <1>9 DEF Check
  <2>2. worker[w] = "check"
    BY <1>9 DEF Check
  <2>3. F' = F
    BY <1>6, <1>9 DEF Check
  <2>4. CASE CheckEnded
    <3>1. C' = C
      BY <1>7, <1>9, <2>4 DEF Check
    <3> QED
      BY <1>3, <1>4, <2>1, <2>3, <3>1 DEF counters
  <2>5. CASE ~CheckEnded
    <3>1. C' = C + 1
      BY <1>7, <1>9, <2>5 DEF Check
    <3>2. w \notin Committed
      BY <2>2 DEF Committed, At
    <3>3. C <= Cardinality(Workers) - 1
      BY <3>2, AtFinite DEF C, Committed
    <3>4. Kind = "fixed" => requestCounter < NumberOfMessages
      BY <1>1, <2>5, NumberAssumption DEF CheckEnded
    <3> QED
      BY <1>1, <1>2, <1>3, <2>1, <2>3, <3>1, <3>3, <3>4, NumberAssumption, PoolSize
         DEF counters
  <2> QED
    BY <2>4, <2>5
<1>10. CASE Redial(w)
  <2>1. worker[w] = "redial" /\ UNCHANGED requestSuccessCounter
    BY <1>10 DEF Redial
  <2>2. CASE Move(w, "publish") /\ UNCHANGED requestCounter
    <3>1. F' = F /\ C' = C
      BY <1>6, <1>7, <2>1, <2>2
    <3> QED
      BY <1>3, <1>4, <2>1, <2>2, <3>1
  <2>3. CASE Move(w, "idle") /\ requestCounter' = requestCounter + 1
    <3>1. F' = F /\ C' = C - 1
      BY <1>6, <1>7, <2>1, <2>3
    <3> QED
      BY <1>1, <1>2, <1>3, <1>4, <2>1, <2>3, <3>1, NumberAssumption, PoolSize
  <2> QED
    BY <1>10, <2>2, <2>3 DEF Redial
<1>11. CASE Publish(w)
  <2>1. /\ worker[w] = "publish"
        /\ requestCounter' = requestCounter + 1
        /\ UNCHANGED requestSuccessCounter
    BY <1>11 DEF Publish
  <2>2. F' = F + 1 /\ C' = C - 1
    BY <1>6, <1>7, <1>11 DEF Publish, AfterPublish
  <2> QED
    BY <1>1, <1>2, <1>3, <1>4, <2>1, <2>2, NumberAssumption, PoolSize
<1>12. CASE Retry(w)
  <2>1. worker[w] = "retry" /\ UNCHANGED counters
    BY <1>12 DEF Retry
  <2>2. (F' = F \/ F' = F - 1) /\ C' = C
    BY <1>6, <1>7, <1>12 DEF Retry, AfterPublish
  <2> QED
    BY <1>1, <1>2, <1>3, <1>4, <2>1, <2>2 DEF counters
<1>13. CASE CountPlain(w)
  <2>1. /\ worker[w] = "count"
        /\ requestSuccessCounter' = requestSuccessCounter + 1
        /\ UNCHANGED requestCounter
    BY <1>13 DEF CountPlain
  <2>2. F' = F - 1 /\ C' = C
    BY <1>6, <1>7, <1>13 DEF CountPlain
  <2> QED
    BY <1>1, <1>2, <1>3, <1>4, <2>1, <2>2
<1>14. CASE AwaitOutcome(w)
  <2>1. worker[w] = "await" /\ UNCHANGED requestCounter
    BY <1>14 DEF AwaitOutcome
  <2>2. \/ requestSuccessCounter' = requestSuccessCounter + 1
        \/ UNCHANGED requestSuccessCounter
    BY <1>14 DEF AwaitOutcome
  <2>3. F' = F - 1 /\ C' = C
    BY <1>6, <1>7, <1>14 DEF AwaitOutcome
  <2> QED
    BY <1>1, <1>2, <1>3, <1>4, <2>1, <2>2, <2>3
<1> QED
  BY <1>8, <1>9, <1>10, <1>11, <1>12, <1>13, <1>14, Worker(w) DEF Worker

\* Every other step leaves the counters alone, and all workers but for Prepare,
\* which spawns them.
LEMMA CountStep == TypeOK /\ CountInv /\ [Next]_vars => CountInv'
<1> SUFFICES ASSUME TypeOK, CountInv, [Next]_vars PROVE CountInv'
  OBVIOUS
<1>1. CASE Prepare
  <2>1. /\ UNCHANGED counters
        /\ InFlight' = {} /\ Committed' = {}
    BY <1>1 DEF Prepare, InFlight, Committed, At
  <2>2. Cardinality({}) = 0
    BY FS_EmptySet
  <2>3. requestCounter \in Nat /\ requestSuccessCounter \in Nat
    BY DEF TypeOK
  <2>4. Cardinality(InFlight) \in Nat /\ Cardinality(Committed) \in Nat
    BY AtFinite DEF InFlight, Committed
  <2>5. requestSuccessCounter <= requestCounter
    BY <2>3, <2>4 DEF CountInv, SuccessesAreRequests
  <2>6. Kind = "fixed" => requestCounter <= NumberOfMessages + Cardinality(Workers) - 1
    BY CommittedGivesOvershoot DEF CountInv, OvershootBounded
  <2> QED
    BY <2>1, <2>2, <2>3, <2>5, <2>6, PoolSize, NumberAssumption
       DEF counters, CountInv, SuccessesAreRequests, CommittedBounded
<1>2. ASSUME UNCHANGED <<counters, worker>> PROVE CountInv'
  <2>1. InFlight' = InFlight /\ Committed' = Committed
    BY <1>2 DEF InFlight, Committed, At
  <2> QED
    BY <1>2, <2>1 DEF counters, CountInv, SuccessesAreRequests, CommittedBounded
<1>3. CASE Start
  BY <1>2, <1>3 DEF Start, StartLoad, StartSetTickers, StartMakeStopTicker,
       StartMakeTickerDone, StartFirstSend, StartSpawnTicker, StartStore, pool
<1>4. CASE Ticker \/ Status
  BY <1>2, <1>4 DEF Ticker, TickerTick, TickerSend, TickerSendPanics, TickerStop,
       Status, pool
<1>5. ASSUME NEW w \in Workers, Worker(w) PROVE CountInv'
  BY <1>5, WorkerCountStep
<1>6. ASSUME NEW s \in Stops, StopLoad(s) \/ Stop(s) PROVE CountInv'
  BY <1>2, <1>6 DEF StopLoad, Stop, StopStopTickers, StopAwaitTicker, StopCloseJobs,
       StopAwaitWorkers, StopReadTotal, StopConclude, pool
<1>7. CASE UNCHANGED vars
  BY <1>2, <1>7 DEF vars, pool
<1> QED
  BY <1>1, <1>3, <1>4, <1>5, <1>6, <1>7 DEF Next, Terminated

\* Nothing has been counted and no worker runs before Prepare.
LEMMA CountInit == Init => CountInv
<1> SUFFICES ASSUME Init PROVE CountInv
  OBVIOUS
<1>1. InFlight = {} /\ Committed = {}
  BY DEF Init, InFlight, Committed, At
<1>2. Cardinality({}) = 0
  BY FS_EmptySet
<1> QED
  BY <1>1, <1>2, PoolSize, NumberAssumption
     DEF Init, CountInv, SuccessesAreRequests, CommittedBounded

\* However the workers, the ticker and the Stop calls interleave, a message counted
\* as delivered was counted as a request before.
THEOREM SuccessesCorrect == Spec => []SuccessesAreRequests
<1>1. CountInv => SuccessesAreRequests
  BY DEF CountInv
<1> QED
  BY <1>1, CountInit, CountStep, TypeCorrect, PTL DEF Spec

\* A fixed-amount action exceeds its number of messages by less than the number of
\* its workers, for every pool and every number, also while it is being stopped.
THEOREM OvershootCorrect == Spec => []OvershootBounded
<1>1. TypeOK /\ CountInv => OvershootBounded
  BY CommittedGivesOvershoot DEF CountInv
<1> QED
  BY <1>1, CountInit, CountStep, TypeCorrect, PTL DEF Spec

-----------------------------------------------------------------------------
(* The order of the calls: Prepare, then perhaps Start, then Stop.         *)

\* The parts of the invariant behind NoPanic and NoEntryAfterStop.  It holds until a
\* Stop call overlaps Start.

StartHasReturned == startCall \in {"prepared", "returned"}

\* No Stop call before or during Start.
StopAfterStart ==
    \A s \in Stops : stopCall[s] # "uncalled" => StartHasReturned

\* tickerDone follows the ticker goroutine once Start has made the channel.
TickerDoneTells ==
    /\ startCall \in {"unprepared", "prepared", "setTickers", "makeStopTicker",
                      "makeTickerDone"} => tickerDone = "nil" /\ ticker = "none"
    /\ startCall \in {"firstSend", "spawnTicker"} => tickerDone = "open" /\ ticker = "none"
    /\ startCall \in {"store", "returned"} => tickerDone # "nil"
    /\ tickerDone = "closed" => ticker = "ended"

\* The jobs channel is closed by nobody but a Stop that found the ticker gone.
ClosedAfterTicker ==
    /\ \A s \in Stops :
         stopCall[s] \in {"closeJobs", "awaitWorkers", "readTotal", "conclude", "done"}
           => ticker \in {"none", "ended"}
    /\ jobsClosed => StartHasReturned /\ ticker \in {"none", "ended"}

\* Neither channel is closed before Start has returned or a Stop was called.
OpenDuringStart ==
    startCall # "returned" /\ (\A s \in Stops : stopCall[s] = "uncalled")
      => closedStopTickers = {} /\ ~jobsClosed

\* The entry is there from Prepare on until a Stop has deleted it.
EntryLives ==
    /\ (\A s \in Stops : stopCall[s] = "uncalled") /\ startCall # "unprepared"
         => registered = TRUE
    /\ \A s \in Stops : stopCall[s] = "done" => registered = FALSE

OrderInv ==
    /\ StopAfterStart
    /\ TickerDoneTells
    /\ ClosedAfterTicker
    /\ OpenDuringStart
    /\ EntryLives
    /\ panics = {}

OrderedInv == ~overlapped => OrderInv

\* Nothing is running yet.
LEMMA OrderInit == Init => OrderedInv
BY DEF Init, OrderedInv, OrderInv, StopAfterStart, StartHasReturned, TickerDoneTells,
     ClosedAfterTicker, OpenDuringStart, EntryLives

\* No step of the code breaks the order, but for a Stop that overlaps Start.
LEMMA OrderStep ==
    ASSUME TypeOK, OrderInv, [Next]_vars, ~overlapped'
    PROVE  OrderInv'
<1> USE DEF OrderInv, StopAfterStart, StartHasReturned, TickerDoneTells,
       ClosedAfterTicker, OpenDuringStart, EntryLives
<1>1. CASE Prepare
  BY <1>1 DEF Prepare
<1>2. CASE Start
  <2>1. CASE StartLoad
    BY <2>1 DEF StartLoad, StopCalled, channels
  <2>2. CASE StartSetTickers
    BY <2>2 DEF StartSetTickers
  <2>3. CASE StartMakeStopTicker
    BY <2>3 DEF StartMakeStopTicker
  <2>4. CASE StartMakeTickerDone
    BY <2>4 DEF StartMakeTickerDone
  <2>5. CASE StartFirstSend
    BY <2>5 DEF StartFirstSend, StopTickerClosed
  <2>6. CASE StartSpawnTicker
    BY <2>6 DEF StartSpawnTicker, channels
  <2>7. CASE StartStore
    BY <2>7 DEF StartStore
  <2> QED
    BY <1>2, <2>1, <2>2, <2>3, <2>4, <2>5, <2>6, <2>7 DEF Start
<1>3. CASE Ticker
  <2>1. CASE TickerTick
    BY <2>1 DEF TickerTick, channels, calls
  <2>2. CASE TickerSend
    BY <2>2 DEF TickerSend, calls
  <2>3. CASE TickerSendPanics
    BY <2>3 DEF TickerSendPanics
  <2>4. CASE TickerStop
    BY <2>4 DEF TickerStop, calls, StopTickerClosed
  <2> QED
    BY <1>3, <2>1, <2>2, <2>3, <2>4 DEF Ticker
<1>4. CASE Status
  BY <1>4 DEF Status
<1>5. ASSUME UNCHANGED <<registered, jobsClosed, closedStopTickers, tickerDone,
                         ticker, startCall, stopCall, panics>>
      PROVE  OrderInv'
  BY <1>5
<1>6. ASSUME NEW w \in Workers, Worker(w) PROVE OrderInv'
  BY <1>5, <1>6 DEF Worker, Dial, ReceiveJob, JobsDrained, Check, Redial, Publish,
       Retry, CountPlain, AwaitOutcome, channels, calls
<1>7. ASSUME NEW s \in Stops, StopLoad(s) \/ Stop(s) PROVE OrderInv'
  <2> USE DEF TypeOK, MoveStop
  <2>1. CASE StopLoad(s)
    BY <2>1 DEF StopLoad, channels
  <2>2. CASE StopStopTickers(s)
    BY <2>2 DEF StopStopTickers
  <2>3. CASE StopAwaitTicker(s)
    BY <2>3 DEF StopAwaitTicker, channels
  <2>4. CASE StopCloseJobs(s)
    BY <2>4 DEF StopCloseJobs, CloseJobs
  <2>5. CASE StopAwaitWorkers(s)
    BY <2>5 DEF StopAwaitWorkers, channels
  <2>6. CASE StopReadTotal(s)
    BY <2>6 DEF StopReadTotal, channels
  <2>7. CASE StopConclude(s)
    BY <2>7 DEF StopConclude
  <2> QED
    BY <1>7, <2>1, <2>2, <2>3, <2>4, <2>5, <2>6, <2>7 DEF Stop
<1>8. CASE UNCHANGED vars
  BY <1>5, <1>8 DEF vars, channels, calls
<1> QED
  BY <1>1, <1>2, <1>3, <1>4, <1>6, <1>7, <1>8 DEF Next, Terminated

\* An overlap is never forgotten, so that as long as there is none the order has held.
LEMMA OrderedStep == TypeOK /\ OrderedInv /\ [Next]_vars => OrderedInv'
<1> SUFFICES ASSUME TypeOK, OrderedInv, [Next]_vars, ~overlapped' PROVE OrderInv'
  BY DEF OrderedInv
<1>1. CASE StartLoad
  BY <1>1, OrderStep DEF StartLoad, OrderedInv
<1>2. ASSUME NEW s \in Stops, StopLoad(s) PROVE OrderInv'
  BY <1>2, OrderStep DEF StopLoad, OrderedInv
<1>3. ASSUME overlapped' = overlapped PROVE OrderInv'
  BY <1>3, OrderStep DEF OrderedInv
<1>4. CASE Prepare \/ Status
  BY <1>3, <1>4 DEF Prepare, Status
<1>5. CASE Start
  BY <1>1, <1>3, <1>5 DEF Start, StartSetTickers, StartMakeStopTicker,
       StartMakeTickerDone, StartFirstSend, StartSpawnTicker, StartStore
<1>6. CASE Ticker
  BY <1>3, <1>6 DEF Ticker, TickerTick, TickerSend, TickerSendPanics, TickerStop
<1>7. ASSUME NEW w \in Workers, Worker(w) PROVE OrderInv'
  BY <1>3, <1>7 DEF Worker, Dial, ReceiveJob, JobsDrained, Check, Redial, Publish,
       Retry, CountPlain, AwaitOutcome
<1>8. ASSUME NEW s \in Stops, Stop(s) PROVE OrderInv'
  BY <1>3, <1>8 DEF Stop, StopStopTickers, StopAwaitTicker, StopCloseJobs,
       StopAwaitWorkers, StopReadTotal, StopConclude
<1>9. CASE UNCHANGED vars
  BY <1>3, <1>9 DEF vars
<1> QED
  BY <1>2, <1>4, <1>5, <1>6, <1>7, <1>8, <1>9 DEF Next, Terminated

\* jobsCloseOnce: also when Stop overlaps Start no Stop closes the channel again.
CloseOnce == "close of closed jobs" \notin panics

LEMMA CloseOnceStep == CloseOnce /\ [Next]_vars => CloseOnce'
<1> SUFFICES ASSUME CloseOnce, [Next]_vars PROVE CloseOnce'
  OBVIOUS
<1>1. ASSUME UNCHANGED panics PROVE CloseOnce'
  BY <1>1 DEF CloseOnce
<1>a. "close of closed jobs" # "send on closed jobs" /\ "close of closed jobs" # "nil run data"
  OBVIOUS
<1>b. ASSUME NEW p, p # "close of closed jobs", panics' = panics \cup {p} PROVE CloseOnce'
  BY <1>b DEF CloseOnce
<1>2. CASE Prepare \/ Status
  BY <1>1, <1>2 DEF Prepare, Status
<1>3. CASE Start
  <2>1. \/ UNCHANGED panics
        \/ panics' = panics \cup {"send on closed jobs"}
        \/ panics' = panics \cup {"nil run data"}
    BY <1>3 DEF Start, StartLoad, StartSetTickers, StartMakeStopTicker,
         StartMakeTickerDone, StartFirstSend, StartSpawnTicker, StartStore
  <2> QED
    BY <2>1, <1>1, <1>a, <1>b
<1>4. CASE Ticker
  <2>1. UNCHANGED panics \/ panics' = panics \cup {"send on closed jobs"}
    BY <1>4 DEF Ticker, TickerTick, TickerSend, TickerSendPanics, TickerStop
  <2> QED
    BY <2>1, <1>1, <1>a, <1>b
<1>5. ASSUME NEW w \in Workers, Worker(w) PROVE CloseOnce'
  BY <1>1, <1>5 DEF Worker, Dial, ReceiveJob, JobsDrained, Check, Redial, Publish,
       Retry, CountPlain, AwaitOutcome
<1>6. ASSUME NEW s \in Stops, StopLoad(s) \/ Stop(s) PROVE CloseOnce'
  BY <1>1, <1>6 DEF StopLoad, Stop, StopStopTickers, StopAwaitTicker, StopCloseJobs,
       CloseJobs, StopAwaitWorkers, StopReadTotal, StopConclude
<1>7. CASE UNCHANGED vars
  BY <1>1, <1>7 DEF vars
<1> QED
  BY <1>2, <1>3, <1>4, <1>5, <1>6, <1>7 DEF Next, Terminated

\* As long as Stop does not overlap Start, no send on a closed jobs channel and no
\* missing run data: neither the ticker goroutine nor a handler panics.  And jobs is
\* never closed twice, whatever overlaps.
THEOREM NoPanicCorrect == Spec => []NoPanic
<1>1. OrderedInv /\ CloseOnce => NoPanic
  BY DEF OrderedInv, OrderInv, CloseOnce, NoPanic
<1>2. Init => CloseOnce
  BY DEF Init, CloseOnce
<1> QED
  BY <1>1, <1>2, CloseOnceStep, OrderedStep, OrderInit, TypeCorrect, PTL DEF Spec

\* As long as Stop does not overlap Start, the map never keeps, or regains, the
\* entry of an execution that a Stop call has finished.
THEOREM NoEntryCorrect == Spec => []NoEntryAfterStop
<1>1. OrderedInv => NoEntryAfterStop
  BY DEF OrderedInv, OrderInv, EntryLives, NoEntryAfterStop
<1> QED
  BY <1>1, OrderedStep, OrderInit, TypeCorrect, PTL DEF Spec

-----------------------------------------------------------------------------
(* The verdict.                                                            *)

\* A Stop that joined the workers finds them gone from then on; what it has read so
\* far is still what the counters say.
JoinedInv ==
    \A s \in Stops :
        /\ stopCall[s] # "uncalled" => startCall # "unprepared"
        /\ stopCall[s] \in {"readTotal", "conclude", "done"} /\ verdict[s].joined =>
             WorkersDone
        /\ stopCall[s] \in {"conclude", "done"} /\ verdict[s].joined =>
             verdict[s].total = requestCounter
        /\ stopCall[s] = "done" /\ verdict[s].joined =>
             /\ verdict[s].success = requestSuccessCounter
             /\ verdict[s].failed = BelowRate(requestSuccessCounter, verdict[s].total)

\* No Stop has been called yet.
LEMMA JoinedInit == Init => JoinedInv
BY DEF Init, JoinedInv

\* Once all workers have exited no step changes a counter or revives a worker.
LEMMA JoinedStep == TypeOK /\ JoinedInv /\ [Next]_vars => JoinedInv'
<1> SUFFICES ASSUME TypeOK, JoinedInv, [Next]_vars PROVE JoinedInv'
  OBVIOUS
<1>1. CASE Prepare
  <2>1. \A s \in Stops : stopCall[s] = "uncalled"
    BY <1>1 DEF Prepare, JoinedInv
  <2> QED
    BY <1>1, <2>1 DEF Prepare, JoinedInv
<1>2. ASSUME UNCHANGED <<counters, worker, stopCall, verdict>>,
             startCall' = "unprepared" => startCall = "unprepared"
      PROVE  JoinedInv'
  BY <1>2 DEF JoinedInv, WorkersDone, counters
<1>3. CASE Start
  BY <1>2, <1>3 DEF Start, StartLoad, StartSetTickers, StartMakeStopTicker,
       StartMakeTickerDone, StartFirstSend, StartSpawnTicker, StartStore, pool
<1>4. CASE Ticker \/ Status
  BY <1>2, <1>4 DEF Ticker, TickerTick, TickerSend, TickerSendPanics, TickerStop,
       Status, pool, calls
<1>5. ASSUME NEW w \in Workers, Worker(w) PROVE JoinedInv'
  <2>1. ~WorkersDone
    BY <1>5 DEF Worker, Dial, ReceiveJob, JobsDrained, Check, Redial, Publish, Retry,
         CountPlain, AwaitOutcome, WorkersDone
  <2>2. UNCHANGED <<startCall, stopCall, verdict>>
    BY <1>5 DEF Worker, Dial, ReceiveJob, JobsDrained, Check, Redial, Publish, Retry,
         CountPlain, AwaitOutcome, calls
  <2> QED
    BY <2>1, <2>2 DEF JoinedInv
<1>6. ASSUME NEW s \in Stops, StopLoad(s) \/ Stop(s) PROVE JoinedInv'
  <2>1. UNCHANGED <<counters, worker, startCall>>
    BY <1>6 DEF StopLoad, Stop, StopStopTickers, StopAwaitTicker, StopCloseJobs,
         StopAwaitWorkers, StopReadTotal, StopConclude, pool
  <2>2. WorkersDone' <=> WorkersDone
    BY <2>1 DEF WorkersDone
  <2>3. stopCall \in [Stops -> StopPlaces] /\ verdict \in [Stops -> Verdicts]
    BY DEF TypeOK
  <2>4. CASE StopLoad(s)
    BY <2>1, <2>2, <2>3, <2>4 DEF JoinedInv, StopLoad, MoveStop, counters
  <2>5. CASE StopStopTickers(s) \/ StopAwaitTicker(s) \/ StopCloseJobs(s)
    BY <2>1, <2>2, <2>3, <2>5 DEF JoinedInv, StopStopTickers, StopAwaitTicker,
         StopCloseJobs, MoveStop, counters
  <2>6. CASE StopAwaitWorkers(s)
    BY <2>1, <2>2, <2>3, <2>6 DEF JoinedInv, StopAwaitWorkers, MoveStop, counters, Verdicts
  <2>7. CASE StopReadTotal(s)
    BY <2>1, <2>2, <2>3, <2>7 DEF JoinedInv, StopReadTotal, MoveStop, counters, Verdicts
  <2>8. CASE StopConclude(s)
    BY <2>1, <2>2, <2>3, <2>8 DEF JoinedInv, StopConclude, MoveStop, counters, Verdicts
  <2> QED
    BY <1>6, <2>4, <2>5, <2>6, <2>7, <2>8 DEF Stop
<1>7. CASE UNCHANGED vars
  BY <1>2, <1>7 DEF vars, pool, calls
<1> QED
  BY <1>1, <1>3, <1>4, <1>5, <1>6, <1>7 DEF Next, Terminated

\* A Stop that waited for its workers to the end has judged the final counters,
\* however it overlaps with Start and with other Stop calls.
THEOREM VerdictCorrect == Spec => []JoinedVerdictIsFinal
<1>1. JoinedInv => JoinedVerdictIsFinal
  BY DEF JoinedInv, JoinedVerdictIsFinal
<1> QED
  BY <1>1, JoinedInit, JoinedStep, TypeCorrect, PTL DEF Spec

-----------------------------------------------------------------------------
(* PublishRun implements Publishing.                                       *)

\* No worker is there before Prepare, and no Stop has joined before it has waited.
QuietInv ==
    /\ startCall = "unprepared" => \A w \in Workers : worker[w] = "unspawned"
    /\ \A s \in Stops : verdict[s].joined => stopCall[s] \in {"readTotal", "conclude", "done"}

LEMMA QuietStep == TypeOK /\ QuietInv /\ [Next]_vars => QuietInv'
<1> SUFFICES ASSUME TypeOK, QuietInv, [Next]_vars PROVE QuietInv'
  OBVIOUS
<1>1. ASSUME UNCHANGED <<stopCall, verdict>>, startCall' # "unprepared" PROVE QuietInv'
  BY <1>1 DEF QuietInv
<1>2. ASSUME UNCHANGED <<worker, startCall, stopCall, verdict>> PROVE QuietInv'
  BY <1>2 DEF QuietInv
<1>3. CASE Prepare
  BY <1>1, <1>3 DEF Prepare
<1>4. CASE Start
  BY <1>1, <1>4 DEF Start, StartLoad, StartSetTickers, StartMakeStopTicker,
       StartMakeTickerDone, StartFirstSend, StartSpawnTicker, StartStore
<1>5. CASE Ticker \/ Status
  BY <1>2, <1>5 DEF Ticker, TickerTick, TickerSend, TickerSendPanics, TickerStop,
       Status, pool, calls
<1>6. ASSUME NEW w \in Workers, Worker(w) PROVE QuietInv'
  <2>1. worker[w] # "unspawned"
    BY <1>6 DEF Worker, Dial, ReceiveJob, JobsDrained, Check, Redial, Publish, Retry,
         CountPlain, AwaitOutcome
  <2>2. UNCHANGED <<startCall, stopCall, verdict>>
    BY <1>6 DEF Worker, Dial, ReceiveJob, JobsDrained, Check, Redial, Publish, Retry,
         CountPlain, AwaitOutcome, calls
  <2> QED
    BY <2>1, <2>2 DEF QuietInv
<1>7. ASSUME NEW s \in Stops, StopLoad(s) \/ Stop(s) PROVE QuietInv'
  <2>1. UNCHANGED <<worker, startCall>>
    BY <1>7 DEF StopLoad, Stop, StopStopTickers, StopAwaitTicker, StopCloseJobs,
         StopAwaitWorkers, StopReadTotal, StopConclude, pool
  <2>2. stopCall \in [Stops -> StopPlaces] /\ verdict \in [Stops -> Verdicts]
    BY DEF TypeOK
  <2>3. CASE StopLoad(s) \/ StopStopTickers(s) \/ StopAwaitTicker(s) \/ StopCloseJobs(s)
    BY <2>1, <2>2, <2>3 DEF QuietInv, StopLoad, StopStopTickers, StopAwaitTicker,
         StopCloseJobs, MoveStop
  <2>4. CASE StopAwaitWorkers(s)
    BY <2>1, <2>2, <2>4 DEF QuietInv, StopAwaitWorkers, MoveStop, Verdicts
  <2>5. CASE StopReadTotal(s)
    BY <2>1, <2>2, <2>5 DEF QuietInv, StopReadTotal, MoveStop, Verdicts
  <2>6. CASE StopConclude(s)
    BY <2>1, <2>2, <2>6 DEF QuietInv, StopConclude, MoveStop, Verdicts
  <2> QED
    BY <1>7, <2>3, <2>4, <2>5, <2>6 DEF Stop
<1>8. CASE UNCHANGED vars
  BY <1>2, <1>8 DEF vars, pool, calls
<1> QED
  BY <1>3, <1>4, <1>5, <1>6, <1>7, <1>8 DEF Next, Terminated

PromiseInv == TypeOK /\ CountInv /\ JoinedInv /\ QuietInv

THEOREM PromiseInvHolds == Spec => []PromiseInv
<1>1. Init => QuietInv
  BY DEF Init, QuietInv, NoVerdict
<1>2. TypeOK /\ CountInv /\ JoinedInv /\ QuietInv <=> PromiseInv
  BY DEF PromiseInv
<1> QED
  BY <1>1, <1>2, QuietStep, CountInit, CountStep, JoinedInit, JoinedStep, TypeCorrect, PTL
     DEF Spec

LEMMA PromiseInit == Init => Promise!Init
<1> SUFFICES ASSUME Init PROVE Promise!Init
  OBVIOUS
<1>1. InFlight = {} /\ Cardinality({}) = 0
  BY FS_EmptySet DEF Init, InFlight, At
<1> QED
  BY <1>1 DEF Init, Promise!Init, Promise!Nothing, NoVerdict, StageOf

\* Where nothing is counted, settled or judged the caller sees nothing.
LEMMA Unseen ==
    ASSUME UNCHANGED <<counters, completed, verdict>>,
           Cardinality(InFlight)' = Cardinality(InFlight),
           \A s \in Stops : StageOf(stopCall'[s]) = StageOf(stopCall[s])
    PROVE  UNCHANGED Promise!vars
BY DEF Promise!vars, counters

\* What one worker does is an attempt, settles one, or is not seen.
LEMMA WorkerIsPromised ==
    ASSUME PromiseInv, NEW w \in Workers, Worker(w)
    PROVE  [Promise!Next]_(Promise!vars)
<1> DEFINE F == Cardinality(InFlight)
           flying == {"retry", "count", "await"}
<1>1. /\ requestCounter \in Nat /\ requestSuccessCounter \in Nat
      /\ worker \in [Workers -> WorkerPlaces]
  BY DEF PromiseInv, TypeOK
<1>2. F \in Nat
  BY AtFinite DEF InFlight
<1>3. UNCHANGED <<stopCall, verdict, completed>>
  BY DEF Worker, Dial, ReceiveJob, JobsDrained, Check, Redial, Publish, Retry,
         CountPlain, AwaitOutcome, calls
<1>4. ~Promise!Final
  <2>1. ~WorkersDone
    BY DEF Worker, Dial, ReceiveJob, JobsDrained, Check, Redial, Publish, Retry,
           CountPlain, AwaitOutcome, WorkersDone
  <2> QED
    BY <2>1 DEF PromiseInv, JoinedInv, QuietInv, Promise!Final
<1>5. ASSUME NEW to, Move(w, to)
      PROVE  /\ worker[w] \in flying /\ to \in flying => F' = F
             /\ worker[w] \notin flying /\ to \notin flying => F' = F
             /\ worker[w] \notin flying /\ to \in flying => F' = F + 1
             /\ worker[w] \in flying /\ to \notin flying => F' = F - 1
  BY <1>1, <1>5, MoveCount DEF InFlight
<1>6. worker[w] \in flying => F > 0
  <2>1. ASSUME worker[w] \in flying PROVE F # 0
    <3>1. w \in InFlight
      BY <2>1 DEF InFlight, At
    <3>2. IsFiniteSet(InFlight)
      BY AtFinite DEF InFlight
    <3> QED
      BY <3>1, <3>2, FS_EmptySet
  <2> QED
    BY <1>2, <2>1
<1>7. worker[w] \in {"redial", "publish"} /\ Kind = "fixed" =>
        requestCounter < NumberOfMessages + (Cardinality(Workers) - 1)
  <2> SUFFICES ASSUME worker[w] \in {"redial", "publish"}, Kind = "fixed"
               PROVE  requestCounter < NumberOfMessages + (Cardinality(Workers) - 1)
    OBVIOUS
  <2>1. w \in Committed /\ IsFiniteSet(Committed) /\ Cardinality(Committed) \in Nat
    BY AtFinite DEF Committed, At
  <2>2. Cardinality(Committed) # 0
    BY <2>1, FS_EmptySet
  <2>3. requestCounter + Cardinality(Committed)
          <= NumberOfMessages + Cardinality(Workers) - 1
    BY DEF PromiseInv, CountInv, CommittedBounded
  <2> QED
    BY <1>1, <2>1, <2>2, <2>3, PoolSize, NumberAssumption
<1>8. ASSUME UNCHANGED counters, F' = F PROVE UNCHANGED Promise!vars
  BY <1>3, <1>8, Unseen
<1>9. ASSUME worker[w] \in {"redial", "publish"}, requestCounter' = requestCounter + 1,
             UNCHANGED requestSuccessCounter, F' \in {F, F + 1}
      PROVE  Promise!Attempt
  BY <1>3, <1>4, <1>7, <1>9 DEF Promise!Attempt
<1>10. ASSUME worker[w] \in flying, UNCHANGED requestCounter, F' = F - 1,
              requestSuccessCounter' \in {requestSuccessCounter, requestSuccessCounter + 1}
       PROVE  Promise!Settle
  BY <1>3, <1>6, <1>10 DEF Promise!Settle
<1> HIDE DEF F
<1>11. CASE Dial(w) \/ ReceiveJob(w) \/ JobsDrained(w) \/ Check(w)
  <2>1. UNCHANGED counters
    BY <1>11 DEF Dial, ReceiveJob, JobsDrained, Check
  <2>2. F' = F
    BY <1>5, <1>11 DEF Dial, ReceiveJob, JobsDrained, Check
  <2> QED
    BY <1>8, <2>1, <2>2
<1>12. CASE Redial(w)
  <2>1. worker[w] = "redial" /\ UNCHANGED requestSuccessCounter
    BY <1>12 DEF Redial
  <2>2. F' = F
    BY <1>5, <1>12, <2>1 DEF Redial
  <2>3. CASE UNCHANGED requestCounter
    BY <1>8, <2>1, <2>2, <2>3 DEF counters
  <2>4. CASE requestCounter' = requestCounter + 1
    BY <1>9, <2>1, <2>2, <2>4 DEF Promise!Next
  <2> QED
    BY <1>12, <2>3, <2>4 DEF Redial
<1>13. CASE Publish(w)
  <2>1. F' = F + 1
    BY <1>5, <1>13 DEF Publish, AfterPublish
  <2> QED
    BY <1>9, <1>13, <2>1 DEF Publish, Promise!Next
<1>14. CASE Retry(w)
  <2>1. worker[w] = "retry" /\ UNCHANGED counters
    BY <1>14 DEF Retry
  <2>2. F' = F \/ F' = F - 1
    BY <1>5, <1>14 DEF Retry, AfterPublish
  <2> QED
    BY <1>8, <1>10, <2>1, <2>2 DEF counters, Promise!Next
<1>15. CASE CountPlain(w)
  <2>1. F' = F - 1
    BY <1>5, <1>15 DEF CountPlain
  <2> QED
    BY <1>10, <1>15, <2>1 DEF CountPlain, Promise!Next
<1>16. CASE AwaitOutcome(w)
  <2>1. F' = F - 1 /\ worker[w] = "await" /\ UNCHANGED requestCounter
    BY <1>5, <1>16 DEF AwaitOutcome
  <2>2. requestSuccessCounter' \in {requestSuccessCounter, requestSuccessCounter + 1}
    BY <1>16 DEF AwaitOutcome
  <2> QED
    BY <1>10, <2>1, <2>2 DEF Promise!Next
<1> QED
  BY <1>11, <1>12, <1>13, <1>14, <1>15, <1>16, Worker(w) DEF Worker

\* A Stop waits, reads and judges as it should; the rest of it is not seen.
LEMMA StopIsPromised ==
    ASSUME PromiseInv, NEW s \in Stops, StopLoad(s) \/ Stop(s)
    PROVE  [Promise!Next]_(Promise!vars)
<1> DEFINE stage == [t \in Stops |-> StageOf(stopCall[t])]
<1>1. UNCHANGED <<counters, completed, worker>>
  BY DEF StopLoad, Stop, StopStopTickers, StopAwaitTicker, StopCloseJobs,
         StopAwaitWorkers, StopReadTotal, StopConclude, pool
<1>2. InFlight' = InFlight
  BY <1>1 DEF InFlight, At
<1>3. stopCall \in [Stops -> StopPlaces] /\ verdict \in [Stops -> Verdicts]
  BY DEF PromiseInv, TypeOK
<1>4. ASSUME NEW to, MoveStop(s, to)
      PROVE  stage' = [stage EXCEPT ![s] = StageOf(to)]
  BY <1>3, <1>4 DEF MoveStop
<1>5. CASE StopLoad(s) \/ StopStopTickers(s) \/ StopAwaitTicker(s) \/ StopCloseJobs(s)
  <2>1. UNCHANGED verdict
    BY <1>5 DEF StopLoad, StopStopTickers, StopAwaitTicker, StopCloseJobs
  <2>2. \A t \in Stops : StageOf(stopCall'[t]) = StageOf(stopCall[t])
    BY <1>3, <1>5 DEF StopLoad, StopStopTickers, StopAwaitTicker, StopCloseJobs,
         MoveStop, StageOf
  <2> QED
    BY <1>1, <1>2, <2>1, <2>2, Unseen
<1>6. CASE StopAwaitWorkers(s)
  <2>1. WorkersDone => Cardinality(InFlight) = 0
    <3>1. WorkersDone => InFlight = {}
      BY DEF WorkersDone, InFlight, At
    <3> QED
      BY <3>1, FS_EmptySet
  <2>2. stage[s] = "called" /\ stage' = [stage EXCEPT ![s] = "waited"]
    BY <1>4, <1>6 DEF StopAwaitWorkers, StageOf
  <2>3. WorkersDone \in BOOLEAN /\ verdict' = [verdict EXCEPT ![s].joined = WorkersDone]
    BY <1>6 DEF StopAwaitWorkers, WorkersDone
  <2>4. Promise!Wait(s)
    BY <1>1, <1>2, <2>1, <2>2, <2>3 DEF Promise!Wait, Promise!Advance, counters
  <2> QED
    BY <2>4 DEF Promise!Next
<1>7. CASE StopReadTotal(s)
  <2>1. stage[s] = "waited" /\ stage' = [stage EXCEPT ![s] = "read"]
    BY <1>4, <1>7 DEF StopReadTotal, StageOf
  <2>2. Promise!ReadTotal(s)
    BY <1>1, <1>2, <1>7, <2>1 DEF StopReadTotal, Promise!ReadTotal, Promise!Advance, counters
  <2> QED
    BY <2>2 DEF Promise!Next
<1>8. CASE StopConclude(s)
  <2>1. stage[s] = "read" /\ stage' = [stage EXCEPT ![s] = "judged"]
    BY <1>4, <1>8 DEF StopConclude, StageOf
  <2>2. BelowRate(requestSuccessCounter, verdict[s].total)
          = Promise!Below(requestSuccessCounter, verdict[s].total)
    BY DEF BelowRate, Promise!Below
  <2>3. Promise!Judge(s)
    BY <1>1, <1>2, <1>8, <2>1, <2>2 DEF StopConclude, Promise!Judge, Promise!Advance, counters
  <2> QED
    BY <2>3 DEF Promise!Next
<1> QED
  BY <1>5, <1>6, <1>7, <1>8 DEF Stop

\* However many workers and Stop calls there are and however they interleave, the
\* platform sees an amount that is attempted and settled, and verdicts about it: an
\* execution implements Publishing.
THEOREM PublishingImplemented == Spec => ImplementsPublishing
<1>1. PromiseInv /\ [Next]_vars => [Promise!Next]_(Promise!vars)
  <2> SUFFICES ASSUME PromiseInv, [Next]_vars PROVE [Promise!Next]_(Promise!vars)
    OBVIOUS
  <2>1. ASSUME UNCHANGED <<counters, completed, worker, stopCall, verdict>>
        PROVE  UNCHANGED Promise!vars
    <3>1. InFlight' = InFlight
      BY <2>1 DEF InFlight, At
    <3> QED
      BY <2>1, <3>1, Unseen
  <2>2. CASE Prepare
    <3>1. InFlight = {} /\ InFlight' = {}
      BY <2>2 DEF Prepare, PromiseInv, QuietInv, InFlight, At
    <3>2. UNCHANGED <<counters, completed, stopCall, verdict>>
      BY <2>2 DEF Prepare
    <3> QED
      BY <3>1, <3>2, Unseen
  <2>3. CASE Start
    BY <2>1, <2>3 DEF Start, StartLoad, StartSetTickers, StartMakeStopTicker,
         StartMakeTickerDone, StartFirstSend, StartSpawnTicker, StartStore, pool
  <2>4. CASE Ticker
    BY <2>1, <2>4 DEF Ticker, TickerTick, TickerSend, TickerSendPanics, TickerStop,
         pool, calls
  <2>5. CASE Status
    <3>1. InFlight' = InFlight
      BY <2>5 DEF Status, InFlight, At, pool
    <3>2. Promise!Complete
      BY <2>5, <3>1 DEF Status, CheckEnded, Promise!Complete, counters
    <3> QED
      BY <3>2 DEF Promise!Next
  <2>6. ASSUME NEW w \in Workers, Worker(w) PROVE [Promise!Next]_(Promise!vars)
    BY <2>6, WorkerIsPromised
  <2>7. ASSUME NEW s \in Stops, StopLoad(s) \/ Stop(s) PROVE [Promise!Next]_(Promise!vars)
    BY <2>7, StopIsPromised
  <2>8. CASE UNCHANGED vars
    BY <2>1, <2>8 DEF vars, pool, calls
  <2> QED
    BY <2>2, <2>3, <2>4, <2>5, <2>6, <2>7, <2>8 DEF Next, Terminated
<1> QED
  BY <1>1, PromiseInit, PromiseInvHolds, PTL DEF Spec, ImplementsPublishing, Promise!Spec

-----------------------------------------------------------------------------
(* The pace.                                                               *)

\* Integer division, as the provers know it.
LEMMA DivisionBounds ==
    ASSUME NEW a \in Nat, NEW b \in Nat \ {0}
    PROVE  /\ a \div b \in Nat
           /\ b * (a \div b) <= a
           /\ a < b * ((a \div b) + 1)
BY Z3

\* A dividend that is not smaller than the divisor has a positive quotient.
LEMMA PositiveQuotient ==
    ASSUME NEW a \in Nat, NEW b \in Nat \ {0}, b <= a
    PROVE  a \div b >= 1
<1>1. a \div b \in Nat /\ a < b * ((a \div b) + 1)
  BY DivisionBounds
<1>2. a \div b # 0
  BY <1>1
<1> QED
  BY <1>1, <1>2

\* Whatever the derived interval, the one that is used is a positive number.
LEMMA IntervalPositive ==
    ASSUME NEW given \in Nat, NEW ms \in Nat, NEW n \in Nat
    PROVE  PositiveInterval(given, ms, n) \in Nat /\ PositiveInterval(given, ms, n) >= 1
<1>1. n > 0 => ms \div n \in Nat
  BY DivisionBounds
<1> QED
  BY <1>1 DEF PositiveInterval

\* The interval of a fixed amount spreads its messages over the duration.
LEMMA FixedSpread ==
    ASSUME NEW ms \in Nat, NEW n \in Nat, n > 1, n - 1 <= ms
    PROVE  /\ (n - 1) * PositiveInterval(FixedDelay(ms, n), ms, n) <= ms
           /\ (n - 1) * (PositiveInterval(FixedDelay(ms, n), ms, n) + 1) > ms
<1>1. n - 1 \in Nat \ {0}
  OBVIOUS
<1>2. ms \div (n - 1) \in Nat /\ ms \div (n - 1) >= 1
  BY <1>1, DivisionBounds, PositiveQuotient
<1>3. PositiveInterval(FixedDelay(ms, n), ms, n) = ms \div (n - 1)
  BY <1>2 DEF PositiveInterval, FixedDelay
<1> QED
  BY <1>1, <1>3, DivisionBounds

\* The interval of a periodic action keeps its rate.
LEMMA PeriodicRate ==
    ASSUME NEW r \in Nat, NEW ms \in Nat
    PROVE  r \in 1..1000 =>
             /\ r * PositiveInterval(PeriodicDelay(r), ms, 0) <= 1000
             /\ r * (PositiveInterval(PeriodicDelay(r), ms, 0) + 1) > 1000
<1> SUFFICES ASSUME r \in 1..1000
             PROVE  /\ r * PositiveInterval(PeriodicDelay(r), ms, 0) <= 1000
                    /\ r * (PositiveInterval(PeriodicDelay(r), ms, 0) + 1) > 1000
  OBVIOUS
<1>1. r \in Nat \ {0} /\ r <= 1000
  OBVIOUS
<1>2. 1000 \div r \in Nat /\ 1000 \div r >= 1
  BY <1>1, DivisionBounds, PositiveQuotient
<1>3. PositiveInterval(PeriodicDelay(r), ms, 0) = 1000 \div r
  BY <1>1, <1>2 DEF PositiveInterval, PeriodicDelay
<1> QED
  BY <1>1, <1>3, DivisionBounds

PacingInv == PacingTypeOK /\ DelayPositive /\ SpreadOverDuration /\ KeepsRate

\* Prepare establishes the interval; nothing changes it afterwards.
LEMMA PacingStep == PacingInv /\ [PacingNext]_pacing => PacingInv'
<1> SUFFICES ASSUME PacingInv, [PacingNext]_pacing PROVE PacingInv'
  OBVIOUS
<1>1. ASSUME Reject PROVE PacingInv'
  BY <1>1 DEF Reject, PacingInv, PacingTypeOK, DelayPositive, SpreadOverDuration, KeepsRate
<1>2. ASSUME NEW s \in Durations, NEW n \in Numbers, NEW p \in Pools,
             PrepareFixed(s, n, p)
      PROVE  PacingInv'
  <2>1. s * 1000 \in Nat /\ n \in Nat
    BY DurationsAssumption, NumbersAssumption
  <2>2. FixedDelay(s * 1000, n) \in Nat
    <3>1. n > 1 => n - 1 \in Nat \ {0}
      BY <2>1
    <3> QED
      BY <2>1, <3>1, DivisionBounds DEF FixedDelay
  <2>3. CASE Reject
    BY <1>1, <2>3
  <2>4. CASE /\ action' = "fixed"
             /\ duration' = s * 1000
             /\ number' = n
             /\ delay' = PositiveInterval(FixedDelay(s * 1000, n), s * 1000, n)
             /\ UNCHANGED rate
    <3>1. delay' \in Nat /\ delay' >= 1
      BY <2>1, <2>2, <2>4, IntervalPositive
    <3>2. n > 1 /\ n - 1 <= s * 1000 =>
            /\ (n - 1) * delay' <= s * 1000
            /\ (n - 1) * (delay' + 1) > s * 1000
      BY <2>1, <2>4, FixedSpread
    <3>3. PacingTypeOK' /\ DelayPositive'
      BY <2>1, <2>4, <3>1 DEF PacingInv, PacingTypeOK, DelayPositive
    <3>4. LastDue' = (n - 1) * delay' /\ number' = n /\ duration' = s * 1000
      BY <2>4 DEF LastDue
    <3>5. SpreadOverDuration'
      BY <3>2, <3>4 DEF SpreadOverDuration
    <3>6. KeepsRate'
      BY <2>4 DEF KeepsRate
    <3> QED
      BY <3>3, <3>5, <3>6 DEF PacingInv
  <2> QED
    BY <1>2, <2>3, <2>4 DEF PrepareFixed
<1>3. ASSUME NEW s \in Durations, NEW r \in Rates, NEW p \in Pools,
             PreparePeriodic(s, r, p)
      PROVE  PacingInv'
  <2>1. s * 1000 \in Nat /\ r \in Nat
    BY DurationsAssumption, RatesAssumption
  <2>2. PeriodicDelay(r) \in Nat
    BY <2>1, DivisionBounds DEF PeriodicDelay
  <2>3. CASE Reject
    BY <1>1, <2>3
  <2>4. CASE /\ action' = "periodic"
             /\ duration' = s * 1000
             /\ rate' = r
             /\ delay' = PositiveInterval(PeriodicDelay(r), s * 1000, 0)
             /\ UNCHANGED number
    <3>1. delay' \in Nat /\ delay' >= 1
      BY <2>1, <2>2, <2>4, IntervalPositive
    <3>2. r \in 1..1000 => r * delay' <= 1000 /\ r * (delay' + 1) > 1000
      BY <2>1, <2>4, PeriodicRate
    <3> QED
      BY <2>1, <2>4, <3>1, <3>2
         DEF PacingInv, PacingTypeOK, DelayPositive, SpreadOverDuration, KeepsRate
  <2> QED
    BY <1>3, <2>3, <2>4 DEF PreparePeriodic
<1>4. CASE UNCHANGED pacing
  BY <1>4 DEF pacing, PacingInv, PacingTypeOK, DelayPositive, SpreadOverDuration, KeepsRate, LastDue
<1> QED
  BY <1>2, <1>3, <1>4 DEF PacingNext

\* Nothing is prepared at first.
LEMMA PacingStarts == PacingInit => PacingInv
BY DEF PacingInit, PacingInv, PacingTypeOK, DelayPositive, SpreadOverDuration, KeepsRate

\* No accepted request, of whatever size, makes time.NewTicker panic in start.
THEOREM DelayPositiveCorrect == PacingSpec => []DelayPositive
<1>1. PacingInv => DelayPositive
  BY DEF PacingInv
<1> QED
  BY <1>1, PacingStarts, PacingStep, PTL DEF PacingSpec

\* A fixed amount of at most one message per millisecond ends within its duration and
\* fills it up to a millisecond per message, for every duration and number.
THEOREM SpreadCorrect == PacingSpec => []SpreadOverDuration
<1>1. PacingInv => SpreadOverDuration
  BY DEF PacingInv
<1> QED
  BY <1>1, PacingStarts, PacingStep, PTL DEF PacingSpec

\* A periodic action keeps every rate up to one message per millisecond.
THEOREM RateCorrect == PacingSpec => []KeepsRate
<1>1. PacingInv => KeepsRate
  BY DEF PacingInv
<1> QED
  BY <1>1, PacingStarts, PacingStep, PTL DEF PacingSpec

-----------------------------------------------------------------------------
(* The verdict on the success rate.                                        *)

\* Rounding goes astray by half a unit at most.
LEMMA NearestIsNear ==
    ASSUME NEW n \in Nat, NEW d \in Nat \ {0}
    PROVE  /\ Nearest(n, d) \in Nat
           /\ 2 * (d * Nearest(n, d)) <= 2 * n + d
           /\ 2 * n <= 2 * (d * Nearest(n, d)) + d
<1> DEFINE q == n \div d
           e == n % d
<1>1. q \in Nat /\ e \in Nat /\ e < d /\ n = d * q + e
  BY Z3
<1>2. Nearest(n, d) = IF 2 * e < d \/ (2 * e = d /\ q % 2 = 0) THEN q ELSE q + 1
  BY DEF Nearest
<1> HIDE DEF q, e
<1>3. d * (q + 1) = d * q + d /\ d * q \in Nat
  BY <1>1, Z3
<1>4. CASE Nearest(n, d) = q /\ 2 * e <= d
  BY <1>1, <1>3, <1>4
<1>5. CASE Nearest(n, d) = q + 1 /\ 2 * e >= d
  BY <1>1, <1>3, <1>5
<1> QED
  BY <1>1, <1>2, <1>4, <1>5

\* The same for the two ways in which a product is rounded.
LEMMA ProductIsNear ==
    ASSUME NEW n \in Nat
    PROVE  /\ /\ Nearest(n, 64) \in Nat
              /\ 64 * Nearest(n, 64) <= n + 32
              /\ n <= 64 * Nearest(n, 64) + 32
           /\ /\ Nearest(n, 128) \in Nat
              /\ 128 * Nearest(n, 128) <= n + 64
              /\ n <= 128 * Nearest(n, 128) + 64
<1>1. /\ Nearest(n, 64) \in Nat
      /\ 2 * (64 * Nearest(n, 64)) <= 2 * n + 64
      /\ 2 * n <= 2 * (64 * Nearest(n, 64)) + 64
  BY NearestIsNear
<1>2. /\ Nearest(n, 128) \in Nat
      /\ 2 * (128 * Nearest(n, 128)) <= 2 * n + 128
      /\ 2 * n <= 2 * (128 * Nearest(n, 128)) + 128
  BY NearestIsNear
<1> QED
  BY <1>1, <1>2

\* The scale of a quotient of numbers that are not greater than the powers considered.
LEMMA ScaleFits ==
    ASSUME NEW s \in Nat \ {0}, NEW t \in Nat, t < 1073741824
    PROVE  /\ Scale(s, t) \in PowersOfTwo
           /\ t <= s * Scale(s, t)
           /\ Scale(s, t) = 1 \/ s * Scale(s, t) < 2 * t
<1> DEFINE Fits(p) == t <= s * p /\ (p = 1 \/ s * p < 2 * t)
<1>1. \E p \in PowersOfTwo : Fits(p)
  BY DEF PowersOfTwo
<1> QED
  BY <1>1 DEF Scale

\* Multiples of 128 units are not passed by the rounding of a product: neither by one that
\* reaches them nor by one that stays 65 or more below.
LEMMA ProductKeepsSide ==
    ASSUME NEW m \in Nat, NEW g \in Nat
    PROVE  /\ 128 * g <= 100 * m => 128 * g <= Product(m)
           /\ 100 * m + 64 < 128 * g => Product(m) < 128 * g
           /\ Product(m) \in Nat
<1> DEFINE n == 100 * m
<1>1. n \in Nat
  OBVIOUS
<1> HIDE DEF n
<1>2. /\ Nearest(n, 64) \in Nat
      /\ 64 * Nearest(n, 64) <= n + 32
  BY <1>1, ProductIsNear
<1>3. /\ Nearest(n, 128) \in Nat
      /\ 128 * Nearest(n, 128) <= n + 64
  BY <1>1, ProductIsNear
<1>4. Nearest(n, 64) >= n \div 64 /\ Nearest(n, 128) >= n \div 128
  BY <1>1 DEF Nearest
<1>5. 128 * g <= n => n \div 64 >= 2 * g /\ n \div 128 >= g
  BY <1>1
<1>6. CASE Product(m) = 64 * Nearest(n, 64)
  BY <1>1, <1>2, <1>4, <1>5, <1>6 DEF n
<1>7. CASE Product(m) = 128 * Nearest(n, 128)
  BY <1>1, <1>3, <1>4, <1>5, <1>7 DEF n
<1> QED
  BY <1>6, <1>7 DEF Product, n

\* Laws of multiplication, as the provers know them.
LEMMA Distributes ==
    ASSUME NEW a \in Nat, NEW b \in Nat, NEW c \in Nat, NEW d \in Nat
    PROVE  /\ a * b \in Nat /\ a * b = b * a
           /\ a * (b * c) = (a * b) * c
           /\ (a + b) * c = a * c + b * c
           /\ a <= b => a * c <= b * c
           /\ a * c < b * c => a < b
BY Z3

\* The exact rate and the required one differ by a hundredth of a request or more: that is
\* more than both roundings take off or add.
LEMMA RoundingsKeepSide ==
    ASSUME NEW s \in Nat \ {0}, NEW t \in Nat \ {0}, NEW r \in Percentages,
           t < 1073741824, 64 * t <= Unit
    PROVE  /\ 100 * s < r * t => RateBelow(s, t, r)
           /\ r * t < 100 * s => ~RateBelow(s, t, r)
<1> DEFINE p == Scale(s, t)
           x == p * Unit
           m == Quotient(s, t)
<1>1. /\ p \in PowersOfTwo /\ t <= s * p
      /\ p = 1 \/ s * p < 2 * t
  BY ScaleFits
<1>2. p \in Nat \ {0} /\ (p = 1 \/ p >= 2)
  BY <1>1 DEF PowersOfTwo
<1>3. Unit \in Nat /\ r \in Nat /\ r <= 100
  BY UnitAssumption DEF Percentages
<1>4. s * p * Unit = s * x
  BY <1>2, <1>3, Distributes
<1>5. RateBelow(s, t, r) <=> Product(m) < r * x
  BY DEF RateBelow
<1>6. m = Nearest(s * x, t)
  BY <1>4 DEF Quotient
<1>7. x \in Nat /\ 64 * t <= x /\ (p # 1 => 128 * t <= x)
  <2>1. 1 * Unit <= p * Unit /\ (p # 1 => 2 * Unit <= p * Unit) /\ p * Unit \in Nat
    BY <1>2, <1>3, Distributes
  <2> QED
    BY <1>3, <2>1
<1>8. PICK g \in Nat : r * x = 128 * g
  <2>1. PICK h \in Nat : Unit = 128 * h
    BY UnitAssumption
  <2>2. x = 128 * (p * h) /\ p * h \in Nat
    BY <1>2, <2>1, Z3
  <2>3. r * x = 128 * (r * (p * h)) /\ r * (p * h) \in Nat
    BY <1>3, <2>2, Z3
  <2> QED
    BY <2>3
<1> HIDE DEF p, x, m
<1>9. s * x \in Nat /\ r * x \in Nat /\ r * t \in Nat
  BY <1>3, <1>7, Distributes
<1>10. m \in Nat /\ 2 * (t * m) <= 2 * (s * x) + t /\ 2 * (s * x) <= 2 * (t * m) + t
  <2> DEFINE n == s * x
  <2>1. n \in Nat /\ m = Nearest(n, t)
    BY <1>6, <1>9
  <2> HIDE DEF n
  <2>2. m \in Nat /\ 2 * (t * m) <= 2 * n + t /\ 2 * n <= 2 * (t * m) + t
    BY <2>1, NearestIsNear
  <2> QED
    BY <2>2 DEF n
<1>11. t * (100 * m) = 100 * (t * m) /\ t * m \in Nat /\ 100 * m \in Nat
  BY <1>10, Z3
<1>12. /\ (100 * s) * x = 100 * (s * x) /\ 100 * s \in Nat
       /\ (r * t) * x = t * (r * x)
  BY <1>3, <1>7, Z3
<1>13. ASSUME 100 * s < r * t PROVE RateBelow(s, t, r)
  <2>1. p # 1
    <3>1. p = 1 => t <= s
      BY <1>1
    <3>2. r * t <= 100 * t
      BY <1>3, Distributes
    <3> QED
      BY <1>9, <1>13, <3>1, <3>2
  <2>2. (100 * s + 1) * x <= (r * t) * x /\ (100 * s + 1) * x = (100 * s) * x + x
    BY <1>7, <1>9, <1>12, <1>13, Distributes
  <2>3. 100 * (s * x) + x <= t * (r * x)
    BY <1>12, <2>2
  <2>4. t * (100 * m) + 78 * t <= t * (r * x)
    BY <1>7, <1>9, <1>10, <1>11, <2>1, <2>3
  <2>5. t * (100 * m + 78) <= t * (r * x)
    BY <1>11, <2>4
  <2>6. 100 * m + 78 <= r * x
    BY <1>9, <1>11, <2>5, Z3
  <2>7. Product(m) < 128 * g
    BY <1>8, <1>10, <2>6, ProductKeepsSide
  <2> QED
    BY <1>5, <1>8, <2>7
<1>14. ASSUME r * t < 100 * s PROVE ~RateBelow(s, t, r)
  <2>1. (r * t + 1) * x <= (100 * s) * x /\ (r * t + 1) * x = (r * t) * x + x
    BY <1>7, <1>9, <1>12, <1>14, Distributes
  <2>2. t * (r * x) + x <= 100 * (s * x)
    BY <1>12, <2>1
  <2>3. t * (r * x) <= t * (100 * m)
    BY <1>7, <1>9, <1>10, <1>11, <2>2
  <2>4. r * x <= 100 * m
    BY <1>9, <1>11, <2>3, Z3
  <2>5. 128 * g <= Product(m) /\ Product(m) \in Nat
    BY <1>8, <1>10, <2>4, ProductKeepsSide
  <2> QED
    BY <1>5, <1>8, <2>5
<1> QED
  BY <1>13, <1>14

LEMMA FractionDecides ==
    ASSUME NEW s \in Nat, NEW t \in Totals, t > 0, NEW r \in Percentages
    PROVE  /\ 100 * s < r * t => RateBelow(s, t, r)
           /\ 100 * s > r * t => ~RateBelow(s, t, r)
<1>1. t \in Nat \ {0} /\ t < 1073741824 /\ 64 * t <= Unit
  BY TotalsAssumption
<1>2. CASE s = 0
  <2>1. r \in Nat /\ r * t \in Nat /\ (r = 0 => r * t = 0)
    BY <1>1, Distributes DEF Percentages
  <2> QED
    BY <1>2, <2>1 DEF RateBelow
<1>3. CASE s # 0
  <2>1. /\ 100 * s < r * t => RateBelow(s, t, r)
        /\ r * t < 100 * s => ~RateBelow(s, t, r)
    BY <1>1, <1>3, RoundingsKeepSide
  <2>2. r * t \in Nat /\ 100 * s \in Nat
    BY <1>1, Distributes DEF Percentages
  <2> QED
    BY <2>1, <2>2
<1> QED
  BY <1>2, <1>3

\* The verdict follows from the counters of its own step.
LEMMA FractionStep ==
    VerdictMatchesFraction /\ [VerdictNext]_<<pacing, measured>> => VerdictMatchesFraction'
<1> SUFFICES ASSUME VerdictMatchesFraction, [VerdictNext]_<<pacing, measured>>
             PROVE  VerdictMatchesFraction'
  OBVIOUS
<1>1. CASE UNCHANGED measured
  BY <1>1 DEF VerdictMatchesFraction, Share, Demand, measured
<1>2. CASE Conclude
  <2>1. total' \in Totals /\ total' \in Nat /\ successes' \in Nat /\ required' \in Percentages
    <3>1. Totals \subseteq Nat
      BY TotalsAssumption, Z3
    <3> QED
      BY <1>2, <3>1 DEF Conclude, Percentages
  <2>2. result' = IF RateBelow(successes', total', required') THEN "failed" ELSE "passed"
    BY <1>2 DEF Conclude
  <2>3. total' > 0 =>
          /\ 100 * successes' < required' * total' => result' = "failed"
          /\ 100 * successes' > required' * total' => result' = "passed"
    BY <2>1, <2>2, FractionDecides
  <2> QED
    BY <2>3 DEF VerdictMatchesFraction, Share, Demand
<1> QED
  BY <1>1, <1>2 DEF VerdictNext, PrepareAny, pacing, measured

\* However many requests there were, of whatever outcome, the two float64 operations of
\* stop never turn a rate below the required one into a pass or one above into a failure.
THEOREM FractionCorrect == VerdictSpec => []VerdictMatchesFraction
<1>1. VerdictInit => VerdictMatchesFraction
  BY DEF VerdictInit, VerdictMatchesFraction
<1> QED
  BY <1>1, FractionStep, PTL DEF VerdictSpec

\* The product of a quotient that was rounded from w hundredths of a unit: it is rounded to
\* less than w units, if what is missing is more than half of the 64 units of its last bit.
LEMMA ProductOfHundredths ==
    ASSUME NEW w \in Nat, 100 <= w, w < 200, w % 2 = 0,
           NEW m \in Nat, 2 * (100 * m) <= 2 * (w * Unit) + 100,
           2 * (w * Unit) <= 2 * (100 * m) + 100
    PROVE  Product(m) < w * Unit <=> w \in {114, 116}
<1>1. PICK k \in Nat, j \in Nat : Unit = 128 * k /\ Unit = 100 * j + 96
  <2>1. \E k \in Nat : Unit = 128 * k
    BY UnitAssumption
  <2>2. \E j \in Nat : Unit = 100 * j + 96
    BY UnitAssumption
  <2> QED
    BY <2>1, <2>2
<1> DEFINE n == 100 * m
           full == w * Unit
           a == w * j
           g == w * k
<1>2. /\ a \in Nat /\ g \in Nat
      /\ full = 100 * a + 96 * w /\ full = 128 * g
  BY <1>1, Z3
<1>3. /\ Unit >= 96 /\ Unit \in Nat
      /\ w <= 127 => full <= 127 * Unit
      /\ w = 128 => full = 128 * Unit
      /\ w >= 129 => full >= 129 * Unit
  BY <1>1, Distributes
<1>4. n \in Nat
  OBVIOUS
<1> HIDE DEF n, full, a, g
<1>5. n = 100 * m /\ n \in Nat /\ full \in Nat /\ 2 * n <= 2 * full + 100 /\ 2 * full <= 2 * n + 100
  BY <1>2 DEF n, full
\* What the first rounding adds: its last two digits are those of 4 * w.
<1>6. /\ w \in {114, 116} => n + 32 < full
      /\ w = 128 => n >= full
      /\ w \notin {114, 116} /\ w < 128 => n + 32 > full
  <2>1. 100 * m <= 100 * a + 96 * w + 50 /\ 100 * a + 96 * w <= 100 * m + 50
    BY <1>2, <1>5
  <2>2. PICK d \in Int : m = a + d
    BY <1>2
  <2>3. 100 * d <= 96 * w + 50 /\ 96 * w <= 100 * d + 50
    BY <1>2, <2>1, <2>2
  <2>4. /\ w \in {114, 116} => 100 * d + 32 < 96 * w
        /\ w = 128 => 100 * d >= 96 * w
        /\ w \notin {114, 116} /\ w < 128 => 100 * d + 32 > 96 * w
    BY <2>3
  <2> QED
    BY <1>2, <1>5, <2>2, <2>4
<1>7. n < 128 * Unit <=> w < 128
  BY <1>3, <1>5, <1>6
<1>8. CASE w < 128
  <2>1. /\ Nearest(n, 64) \in Nat
        /\ 64 * Nearest(n, 64) <= n + 32
        /\ n <= 64 * Nearest(n, 64) + 32
    BY ONLY <1>4, ProductIsNear
  <2>2. Product(m) = 64 * Nearest(n, 64)
    BY <1>7, <1>8 DEF Product, n
  <2>3. 64 * Nearest(n, 64) < 128 * g <=> w \in {114, 116}
    BY <1>2, <1>5, <1>6, <1>8, <2>1
  <2> QED
    BY <1>2, <2>2, <2>3 DEF full
<1>9. CASE w >= 128
  <2>1. /\ Nearest(n, 128) \in Nat
        /\ 128 * Nearest(n, 128) <= n + 64
        /\ n <= 128 * Nearest(n, 128) + 64
    BY ONLY <1>4, ProductIsNear
  <2>2. Product(m) = 128 * Nearest(n, 128)
    BY <1>7, <1>9 DEF Product, n
  <2>3. ~(128 * Nearest(n, 128) < 128 * g)
    BY <1>2, <1>5, <2>1
  <2> QED
    BY <1>2, <1>9, <2>2, <2>3 DEF full
<1> QED
  BY <1>8, <1>9

\* What becomes of a rate that is exactly the required one: it fails at 29, 57 and 58
\* percent, however many requests there were, although the description of the parameter
\* has it pass, and passes at every other percentage.
THEOREM EqualityRounds ==
    ASSUME NEW s \in Nat \ {0}, NEW t \in Totals, t > 0, NEW r \in Percentages,
           100 * s = r * t
    PROVE  RateBelow(s, t, r) <=> r \in {29, 57, 58}
<1> DEFINE p == Scale(s, t)
           w == r * p
           m == Quotient(s, t)
<1>1. t \in Nat \ {0} /\ t < 1073741824 /\ Unit \in Nat
  BY TotalsAssumption, UnitAssumption
<1>2. p \in PowersOfTwo /\ t <= s * p /\ (p = 1 \/ s * p < 2 * t)
  BY <1>1, ScaleFits
<1>3. p \in Nat \ {0} /\ r \in Nat /\ r <= 100
  BY <1>2 DEF PowersOfTwo, Percentages
<1> HIDE DEF p
<1>4. /\ t * w = 100 * (s * p) /\ w \in Nat /\ s * p \in Nat
      /\ t * 100 <= t * w
      /\ t * 200 > t * w \/ p = 1
  <2>1. t * w = (r * t) * p /\ (100 * s) * p = 100 * (s * p) /\ w \in Nat /\ s * p \in Nat
    BY <1>1, <1>3, Z3
  <2> QED
    BY <1>1, <1>2, <2>1
<1>5. 100 <= w /\ (w < 200 \/ p = 1)
  <2> HIDE DEF w
  <2>1. t * 100 = 100 * t /\ t * w = w * t /\ t * 200 = 200 * t
    BY <1>1, <1>4, Distributes
  <2>2. ~(w < 100) /\ (p # 1 => ~(200 <= w))
    <3>1. w < 100 => w + 1 <= 100
      BY <1>4
    <3>2. w + 1 <= 100 => (w + 1) * t <= 100 * t /\ (w + 1) * t = w * t + t
      BY <1>1, <1>4, Z3
    <3>3. 200 <= w => 200 * t <= w * t
      BY <1>1, <1>4, Distributes
    <3>4. w * t \in Nat
      BY <1>1, <1>4, Distributes
    <3> QED
      BY <1>1, <1>4, <2>1, <3>1, <3>2, <3>3, <3>4
  <2> QED
    BY <1>4, <2>2
<1>6. w < 200 /\ w % 2 = 0 /\ (w \in {114, 116} <=> r \in {29, 57, 58})
  BY <1>2, <1>3, <1>5 DEF PowersOfTwo
<1> HIDE DEF w
<1>7. /\ m \in Nat
      /\ 2 * (t * m) <= 2 * (s * p * Unit) + t
      /\ 2 * (s * p * Unit) <= 2 * (t * m) + t
  <2> DEFINE n == s * p * Unit
  <2>1. n \in Nat
    BY <1>1, <1>4, Distributes
  <2>2. m = Nearest(n, t)
    BY DEF p, Quotient
  <2> HIDE DEF n, m
  <2>3. m \in Nat /\ 2 * (t * m) <= 2 * n + t /\ 2 * n <= 2 * (t * m) + t
    BY <1>1, <2>1, <2>2, NearestIsNear
  <2> QED
    BY <2>3 DEF n
<1> HIDE DEF m
<1>8. /\ 100 * (s * p * Unit) = t * (w * Unit) /\ s * p * Unit \in Nat
      /\ t * (100 * m) = 100 * (t * m)
      /\ w * Unit \in Nat /\ 100 * m \in Nat /\ t * m \in Nat
      /\ t * (w * Unit) \in Nat
  <2>1. (100 * (s * p)) * Unit = 100 * (s * p * Unit) /\ (t * w) * Unit = t * (w * Unit)
    BY <1>1, <1>4, Z3
  <2>2. t * (100 * m) = 100 * (t * m) /\ t * m \in Nat /\ w * Unit \in Nat
    BY <1>1, <1>4, <1>7, Z3
  <2>3. s * p * Unit \in Nat /\ t * (w * Unit) \in Nat
    BY <1>1, <1>4, <2>2, Distributes
  <2> QED
    BY <1>4, <1>7, <2>1, <2>2, <2>3
<1>9. 2 * (100 * m) <= 2 * (w * Unit) + 100 /\ 2 * (w * Unit) <= 2 * (100 * m) + 100
  <2> DEFINE x == w * Unit
             y == 100 * m
  <2>1. /\ x \in Nat /\ y \in Nat
        /\ 2 * (t * y) <= 2 * (t * x) + 100 * t
        /\ 2 * (t * x) <= 2 * (t * y) + 100 * t
    BY <1>1, <1>7, <1>8
  <2> HIDE DEF x, y
  <2>2. t * (2 * y) <= t * (2 * x + 100) /\ t * (2 * x) <= t * (2 * y + 100)
    BY <1>1, <2>1, Z3
  <2>3. 2 * y <= 2 * x + 100 /\ 2 * x <= 2 * y + 100
    BY <1>1, <2>1, <2>2, Z3
  <2> QED
    BY <2>3 DEF x, y
<1>10. Product(m) < w * Unit <=> w \in {114, 116}
  BY <1>4, <1>5, <1>6, <1>7, <1>9, ProductOfHundredths
<1>11. r * (p * Unit) = w * Unit
  BY <1>1, <1>3, Distributes DEF w
<1>12. RateBelow(s, t, r) <=> Product(m) < r * (p * Unit)
  BY <1>1 DEF RateBelow, m, p
<1> QED
  BY <1>6, <1>10, <1>11, <1>12

\* What holds of the pacing holds up to the verdict.
THEOREM VerdictKeepsPace == VerdictSpec => PacingSpec
<1>1. VerdictInit => PacingInit
  BY DEF VerdictInit
<1>2. [VerdictNext]_<<pacing, measured>> => [PacingNext]_pacing
  BY DEF VerdictNext, PrepareAny, Conclude, pacing, measured
<1> QED
  BY <1>1, <1>2, PTL DEF VerdictSpec, PacingSpec
=============================================================================
