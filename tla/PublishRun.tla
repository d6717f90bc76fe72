----------------------------- MODULE PublishRun -----------------------------
(***************************************************************************)
(* One execution of a publish action (extrabbitmq/publish.go): the         *)
(* handlers Prepare, Start, Status and Stop, the ticker goroutine that     *)
(* Start spawns, and the pool of publisher workers that Prepare spawns.    *)
(* They share the ExecutionRunData record: the jobs channel, the           *)
(* stopTicker and tickerDone channels, two atomic counters, two sync.Once, *)
(* a WaitGroup, and the entry of ExecutionRunDataMap that points to it.    *)
(*                                                                         *)
(* A step is one access to shared state together with the local work       *)
(* before it.  What the broker answers is a choice here; ConfirmStream     *)
(* models the confirm protocol behind that choice.                         *)
(***************************************************************************)
EXTENDS Integers, FiniteSets

CONSTANTS
    Workers,          \* the MaxConcurrent publisher workers of the pool
    Stops,            \* the Stop calls of the platform and the SDK, in their order
    Kind,             \* "fixed" (amount) or "periodic" publishing
    NumberOfMessages, \* state.NumberOfMessages of a fixed-amount action
    MaxRequests,      \* bound: a periodic ticker rests once so many were made
    FurtherStopsAt,   \* bound: the places of Start at which a further Stop is made
    MaxRunning,       \* bound: the most workers that run when a further Stop is made
    SuccessRate       \* state.SuccessRate, the required percentage

ASSUME WorkersAssumption == IsFiniteSet(Workers) /\ Workers # {}
ASSUME KindAssumption == Kind \in {"fixed", "periodic"}
ASSUME NumberAssumption == NumberOfMessages \in Nat \ {0}
ASSUME StopsAssumption == Stops \subseteq Nat
ASSUME MaxRequestsAssumption == MaxRequests \in Nat
ASSUME MaxRunningAssumption == MaxRunning \in Nat
ASSUME SuccessRateAssumption == SuccessRate \in Nat

VARIABLES
    registered,            \* ExecutionRunDataMap has an entry for the execution
    jobs,                  \* number of ticks buffered in the jobs channel
    jobsClosed,            \* jobs is closed (jobsCloseOnce was done)
    stopTicker,            \* the channel in the stopTicker field, named by its maker
    closedStopTickers,     \* the stopTicker channels that are closed
    tickers,               \* the time.Ticker: "nil", "running" or "stopped"
    tickerDone,            \* the tickerDone channel: "nil", "open" or "closed"
    requestCounter,        \* messages attempted
    requestSuccessCounter, \* messages counted as delivered
    worker,                \* where each worker is
    link,                  \* each worker's channel: none, without or with confirms
    ticker,                \* where the ticker goroutine is
    startCall,             \* where the Prepare and Start handlers are
    stopCall,              \* where each Stop call is
    verdict,               \* what each Stop call has read and concluded
    completed,             \* Status has reported Completed
    panics,                \* the Go panics that have happened
    overlapped             \* history: Stop was called before Start had returned

channels == <<registered, jobs, jobsClosed, stopTicker, closedStopTickers,
              tickers, tickerDone>>
counters == <<requestCounter, requestSuccessCounter>>
pool == <<worker, link>>
calls == <<startCall, stopCall, verdict, completed>>
vars == <<channels, counters, pool, ticker, calls, panics, overlapped>>

-----------------------------------------------------------------------------

WorkerPlaces == {"unspawned", "dial", "idle", "check", "redial", "publish",
                 "retry", "count", "await", "exited"}
TickerPlaces == {"none", "select", "send", "ended", "crashed"}
StartPlaces == {"unprepared", "prepared", "setTickers", "makeStopTicker",
                "makeTickerDone", "firstSend", "spawnTicker", "store",
                "returned", "panicked"}
StopPlaces == {"uncalled", "stopTickers", "awaitTicker", "closeJobs",
               "awaitWorkers", "readTotal", "conclude", "done"}

Links == {"none", "plain", "confirms"}

\* What a Stop call knows: joined says which branch its wait for the workers took.
Verdicts == [joined : BOOLEAN, total : Nat, success : Nat, failed : BOOLEAN]
NoVerdict == [joined |-> FALSE, total |-> 0, success |-> 0, failed |-> FALSE]

TypeOK ==
    /\ registered \in BOOLEAN
    /\ jobs \in 0..Cardinality(Workers)
    /\ jobsClosed \in BOOLEAN
    /\ stopTicker \in {"prepare", "start"}
    /\ closedStopTickers \subseteq {"prepare", "start"}
    /\ tickers \in {"nil", "running", "stopped"}
    /\ tickerDone \in {"nil", "open", "closed"}
    /\ requestCounter \in Nat
    /\ requestSuccessCounter \in Nat
    /\ worker \in [Workers -> WorkerPlaces]
    /\ link \in [Workers -> Links]
    /\ ticker \in TickerPlaces
    /\ startCall \in StartPlaces
    /\ stopCall \in [Stops -> StopPlaces]
    /\ verdict \in [Stops -> Verdicts]
    /\ completed \in BOOLEAN
    /\ panics \subseteq {"send on closed jobs", "close of closed jobs", "nil run data"}
    /\ overlapped \in BOOLEAN

Init ==
    /\ registered = FALSE
    /\ jobs = 0
    /\ jobsClosed = FALSE
    /\ stopTicker = "prepare"
    /\ closedStopTickers = {}
    /\ tickers = "nil"
    /\ tickerDone = "nil"
    /\ requestCounter = 0
    /\ requestSuccessCounter = 0
    /\ worker = [w \in Workers |-> "unspawned"]
    /\ link = [w \in Workers |-> "none"]
    /\ ticker = "none"
    /\ startCall = "unprepared"
    /\ stopCall = [s \in Stops |-> "uncalled"]
    /\ verdict = [s \in Stops |-> NoVerdict]
    /\ completed = FALSE
    /\ panics = {}
    /\ overlapped = FALSE

-----------------------------------------------------------------------------
(* Helpers.                                                                *)

\* checkEnded: a fixed amount ends at its count, periodic publishing never does.
\* (Mutated form: one message more.)
CheckEndedLate == Kind = "fixed" /\ requestCounter > NumberOfMessages
CheckEnded == Kind = "fixed" /\ requestCounter >= NumberOfMessages

\* A tick fits the buffer: cap(jobs) is MaxConcurrent.
RoomForJob == jobs < Cardinality(Workers)

\* The channel that the stopTicker field holds now is closed.
StopTickerClosed == stopTicker \in closedStopTickers

\* stopOnce: the first call stops the time.Ticker, if there is one already, and
\* closes the channel that the field holds at that moment; later calls do nothing.
StopTickers ==
    /\ closedStopTickers' = IF closedStopTickers = {} THEN {stopTicker}
                            ELSE closedStopTickers
    /\ tickers' = IF closedStopTickers = {} /\ tickers = "running" THEN "stopped"
                  ELSE tickers

\* The verdict of stop: the percentage is below the required one (exact rationals;
\* a run without any request has a rate of zero).
BelowRate(success, total) ==
    \/ total > 0 /\ success * 100 < SuccessRate * total
    \/ total = 0 /\ 0 < SuccessRate

StopCalled == \E s \in Stops : stopCall[s] # "uncalled"

Running == {w \in Workers : worker[w] # "exited"}

Move(w, to) == worker' = [worker EXCEPT ![w] = to]
Relink(w, to) == link' = [link EXCEPT ![w] = to]
MoveStop(s, to) == stopCall' = [stopCall EXCEPT ![s] = to]

\* The worker has a message on its way and waits for the confirm, or, without
\* confirms, counts it at once.
AfterPublish(l) == IF l = "confirms" THEN "await" ELSE "count"

-----------------------------------------------------------------------------
(* Prepare and Start.                                                      *)

\* prepareCommon: make and store the run data, then spawn the pool.
Prepare ==
    /\ startCall = "unprepared"
    /\ startCall' = "prepared"
    /\ registered' = TRUE
    /\ worker' = [w \in Workers |-> "dial"]
    /\ UNCHANGED <<jobs, jobsClosed, stopTicker, closedStopTickers, tickers,
                   tickerDone, counters, link, ticker, stopCall, verdict,
                   completed, panics, overlapped>>

\* Start loads the run data.  A missing entry is only logged; the first use of
\* the nil pointer panics.
StartLoad ==
    /\ startCall = "prepared"
    /\ overlapped' = (overlapped \/ StopCalled)
    /\ startCall' = IF registered THEN "setTickers" ELSE "panicked"
    /\ panics' = IF registered THEN panics ELSE panics \cup {"nil run data"}
    /\ UNCHANGED <<channels, counters, pool, ticker, stopCall, verdict, completed>>

StartSetTickers ==
    /\ startCall = "setTickers"
    /\ tickers' = "running"
    /\ startCall' = "makeStopTicker"
    /\ UNCHANGED <<registered, jobs, jobsClosed, stopTicker, closedStopTickers,
                   tickerDone, counters, pool, ticker, stopCall, verdict,
                   completed, panics, overlapped>>

\* Start replaces the channel that Prepare made.
StartMakeStopTicker ==
    /\ startCall = "makeStopTicker"
    /\ stopTicker' = "start"
    /\ startCall' = "makeTickerDone"
    /\ UNCHANGED <<registered, jobs, jobsClosed, closedStopTickers, tickers,
                   tickerDone, counters, pool, ticker, stopCall, verdict,
                   completed, panics, overlapped>>

StartMakeTickerDone ==
    /\ startCall = "makeTickerDone"
    /\ tickerDone' = "open"
    /\ startCall' = "firstSend"
    /\ UNCHANGED <<registered, jobs, jobsClosed, stopTicker, closedStopTickers,
                   tickers, counters, pool, ticker, stopCall, verdict,
                   completed, panics, overlapped>>

\* The select of the first message: send it, give up without spawning the ticker
\* goroutine, or panic on a closed channel.
StartFirstSend ==
    /\ startCall = "firstSend"
    /\ \/ /\ ~jobsClosed /\ RoomForJob
          /\ jobs' = jobs + 1
          /\ startCall' = "spawnTicker"
          /\ UNCHANGED panics
       \/ /\ StopTickerClosed
          /\ startCall' = "returned"
          /\ UNCHANGED <<jobs, panics>>
       \/ /\ jobsClosed
          /\ startCall' = "panicked"
          /\ panics' = panics \cup {"send on closed jobs"}
          /\ UNCHANGED jobs
    /\ UNCHANGED <<registered, jobsClosed, stopTicker, closedStopTickers, tickers,
                   tickerDone, counters, pool, ticker, stopCall, verdict, completed, overlapped>>

StartSpawnTicker ==
    /\ startCall = "spawnTicker"
    /\ ticker' = "select"
    /\ startCall' = "store"
    /\ UNCHANGED <<channels, counters, pool, stopCall, verdict, completed, panics, overlapped>>

\* Start stores the pointer under its key a second time.
StartStore ==
    /\ startCall = "store"
    /\ registered' = TRUE
    /\ startCall' = "returned"
    /\ UNCHANGED <<jobs, jobsClosed, stopTicker, closedStopTickers, tickers,
                   tickerDone, counters, pool, ticker, stopCall, verdict,
                   completed, panics, overlapped>>

Start ==
    \/ StartLoad \/ StartSetTickers \/ StartMakeStopTicker
    \/ StartMakeTickerDone \/ StartFirstSend \/ StartSpawnTicker \/ StartStore

-----------------------------------------------------------------------------
(* The ticker goroutine.                                                   *)

\* The time.Ticker fires and its tick is taken.  No tick arrives after Stop.
TickerTick ==
    /\ ticker = "select"
    /\ tickers = "running"
    /\ Kind = "fixed" \/ requestCounter < MaxRequests
    /\ ticker' = "send"
    /\ UNCHANGED <<channels, counters, pool, calls, panics, overlapped>>

\* The inner select: hand the tick to a worker when there is room for it.
TickerSend ==
    /\ ticker = "send"
    /\ ~jobsClosed /\ RoomForJob
    /\ jobs' = jobs + 1
    /\ ticker' = "select"
    /\ UNCHANGED <<registered, jobsClosed, stopTicker, closedStopTickers, tickers,
                   tickerDone, counters, pool, calls, panics, overlapped>>

\* A send case on a closed channel is ready, and panics when it is chosen.
TickerSendPanics ==
    /\ ticker = "send"
    /\ jobsClosed
    /\ ticker' = "crashed"
    /\ panics' = panics \cup {"send on closed jobs"}
    /\ UNCHANGED <<channels, counters, pool, calls, overlapped>>

\* Either select sees stopTicker closed; the deferred close of tickerDone follows.
\* (Mutated form: the send itself does not listen to stopTicker.)
TickerStopBetweenSends ==
    /\ ticker = "select"
    /\ StopTickerClosed
    /\ ticker' = "ended"
    /\ tickerDone' = "closed"
    /\ UNCHANGED <<registered, jobs, jobsClosed, stopTicker, closedStopTickers,
                   tickers, counters, pool, calls, panics, overlapped>>

TickerStop ==
    /\ ticker \in {"select", "send"}
    /\ StopTickerClosed
    /\ ticker' = "ended"
    /\ tickerDone' = "closed"
    /\ UNCHANGED <<registered, jobs, jobsClosed, stopTicker, closedStopTickers,
                   tickers, counters, pool, calls, panics, overlapped>>

Ticker == TickerTick \/ TickerSend \/ TickerSendPanics \/ TickerStop

-----------------------------------------------------------------------------
(* The publisher workers (requestPublisherWorker).                         *)

\* The first connection; a worker that cannot make it is gone for good.
Dial(w) ==
    /\ worker[w] = "dial"
    /\ \E l \in Links :
        /\ Relink(w, l)
        /\ Move(w, IF l = "none" THEN "exited" ELSE "idle")
    /\ UNCHANGED <<channels, counters, ticker, calls, panics, overlapped>>

ReceiveJob(w) ==
    /\ worker[w] = "idle"
    /\ jobs > 0
    /\ jobs' = jobs - 1
    /\ Move(w, "check")
    /\ UNCHANGED <<registered, jobsClosed, stopTicker, closedStopTickers, tickers,
                   tickerDone, counters, link, ticker, calls, panics, overlapped>>

\* The range over jobs ends once the channel is closed and drained.
JobsDrained(w) ==
    /\ worker[w] = "idle"
    /\ jobsClosed /\ jobs = 0
    /\ Move(w, "exited")
    /\ Relink(w, "none")
    /\ UNCHANGED <<channels, counters, ticker, calls, panics, overlapped>>

\* checkEnded decides whether this job is still to be published.
Check(w) ==
    /\ worker[w] = "check"
    /\ Move(w, CASE CheckEnded -> "idle"
                 [] ~CheckEnded /\ link[w] = "none" -> "redial"
                 [] OTHER -> "publish")
    /\ UNCHANGED <<channels, counters, link, ticker, calls, panics, overlapped>>

\* Reconnect before publishing; when that fails the message is skipped, but counted.
\* (Mutated form: a skipped message is not counted.)
RedialUncounted(w) ==
    /\ worker[w] = "redial"
    /\ \/ /\ \E l \in {"plain", "confirms"} : Relink(w, l)
          /\ Move(w, "publish")
       \/ Move(w, "idle") /\ UNCHANGED link
    /\ UNCHANGED <<channels, counters, ticker, calls, panics, overlapped>>

Redial(w) ==
    /\ worker[w] = "redial"
    /\ \/ /\ \E l \in {"plain", "confirms"} : Relink(w, l)
          /\ Move(w, "publish")
          /\ UNCHANGED requestCounter
       \/ /\ requestCounter' = requestCounter + 1
          /\ Move(w, "idle")
          /\ UNCHANGED link
    /\ UNCHANGED <<channels, requestSuccessCounter, ticker, calls, panics, overlapped>>

\* PublishWithContext; the request is counted whether it fails or not.
Publish(w) ==
    /\ worker[w] = "publish"
    /\ requestCounter' = requestCounter + 1
    /\ \/ Move(w, AfterPublish(link[w]))
       \/ Move(w, "retry")
    /\ UNCHANGED <<channels, requestSuccessCounter, link, ticker, calls, panics, overlapped>>

\* (Mutated form: the second attempt counts as a request of its own.)
RetryCountedAgain(w) ==
    /\ worker[w] = "retry"
    /\ requestCounter' = requestCounter + 1
    /\ \/ Relink(w, "none") /\ Move(w, "idle")
       \/ \E l \in {"plain", "confirms"} :
            /\ Relink(w, l)
            /\ Move(w, AfterPublish(l)) \/ Move(w, "idle")
    /\ UNCHANGED <<channels, requestSuccessCounter, ticker, calls, panics, overlapped>>

\* One more attempt on a fresh connection: the redial fails, the second publish
\* fails and leaves its connection in place, or the message is on its way.
Retry(w) ==
    /\ worker[w] = "retry"
    /\ \/ Relink(w, "none") /\ Move(w, "idle")
       \/ \E l \in {"plain", "confirms"} :
            /\ Relink(w, l)
            /\ Move(w, AfterPublish(l)) \/ Move(w, "idle")
    /\ UNCHANGED <<channels, counters, ticker, calls, panics, overlapped>>

\* Without confirms a publish without an error is a success.
CountPlain(w) ==
    /\ worker[w] = "count"
    /\ requestSuccessCounter' = requestSuccessCounter + 1
    /\ Move(w, "idle")
    /\ UNCHANGED <<channels, requestCounter, link, ticker, calls, panics, overlapped>>

\* awaitPublishOutcome: delivered, failed, or unknown, which drops the connection.
AwaitOutcome(w) ==
    /\ worker[w] = "await"
    /\ Move(w, "idle")
    /\ \/ requestSuccessCounter' = requestSuccessCounter + 1 /\ UNCHANGED link
       \/ UNCHANGED <<requestSuccessCounter, link>>
       \/ Relink(w, "none") /\ UNCHANGED requestSuccessCounter
    /\ UNCHANGED <<channels, requestCounter, ticker, calls, panics, overlapped>>

Worker(w) ==
    \/ Dial(w) \/ ReceiveJob(w) \/ JobsDrained(w) \/ Check(w) \/ Redial(w)
    \/ Publish(w) \/ Retry(w) \/ CountPlain(w) \/ AwaitOutcome(w)

-----------------------------------------------------------------------------
(* Status and Stop.                                                        *)

\* Status of a fixed-amount action.  The counter only grows and stopTickers is
\* idempotent, so reading the one and calling the other is a single step.
Status ==
    /\ startCall = "returned"
    /\ registered
    /\ ~completed
    /\ CheckEnded
    /\ completed' = TRUE
    /\ StopTickers
    /\ UNCHANGED <<registered, jobs, jobsClosed, stopTicker, tickerDone, counters,
                   pool, ticker, startCall, stopCall, verdict, panics, overlapped>>

\* stop loads the run data.  When it is gone an earlier Stop has done the work, and
\* this one returns at once.  The calls have the order of their loads.
StopLoad(s) ==
    /\ stopCall[s] = "uncalled"
    /\ startCall # "unprepared"
    /\ \A t \in Stops : t < s => stopCall[t] # "uncalled"
    /\ StopCalled /\ registered =>
         startCall \in FurtherStopsAt /\ Cardinality(Running) <= MaxRunning
    /\ overlapped' = (overlapped \/ startCall \notin {"prepared", "returned"})
    /\ MoveStop(s, IF registered THEN "stopTickers" ELSE "uncalled")
    /\ UNCHANGED <<channels, counters, pool, ticker, startCall, verdict,
                   completed, panics>>

StopStopTickers(s) ==
    /\ stopCall[s] = "stopTickers"
    /\ StopTickers
    /\ MoveStop(s, "awaitTicker")
    /\ UNCHANGED <<registered, jobs, jobsClosed, stopTicker, tickerDone, counters,
                   pool, ticker, startCall, verdict, completed, panics, overlapped>>

\* A nil tickerDone means that no ticker was started.
\* (Mutated form: stop does not wait for the ticker goroutine.)
StopPassTicker(s) ==
    /\ stopCall[s] = "awaitTicker"
    /\ MoveStop(s, "closeJobs")
    /\ UNCHANGED <<channels, counters, pool, ticker, startCall, verdict,
                   completed, panics, overlapped>>

StopAwaitTicker(s) ==
    /\ stopCall[s] = "awaitTicker"
    /\ tickerDone # "open"
    /\ MoveStop(s, "closeJobs")
    /\ UNCHANGED <<channels, counters, pool, ticker, startCall, verdict,
                   completed, panics, overlapped>>

\* close(jobs) panics when the channel is closed already.
CloseJobs ==
    /\ jobsClosed' = TRUE
    /\ panics' = IF jobsClosed THEN panics \cup {"close of closed jobs"} ELSE panics

\* jobsCloseOnce: the first Stop closes the channel, any other leaves it as it is.
StopCloseJobs(s) ==
    /\ stopCall[s] = "closeJobs"
    /\ IF jobsClosed THEN UNCHANGED <<jobsClosed, panics>> ELSE CloseJobs
    /\ MoveStop(s, "awaitWorkers")
    /\ UNCHANGED <<registered, jobs, stopTicker, closedStopTickers, tickers, tickerDone,
                   counters, pool, ticker, startCall, verdict, completed, overlapped>>

\* The WaitGroup has reached zero.
\* (Mutated form: one Done for the whole pool.)
SomeWorkerDone == \E w \in Workers : worker[w] = "exited"
WorkersDone == \A w \in Workers : worker[w] = "exited"

\* Wait for the WaitGroup, at most publishConfirmTimeout and three seconds.
StopAwaitWorkers(s) ==
    /\ stopCall[s] = "awaitWorkers"
    /\ verdict' = [verdict EXCEPT ![s].joined = WorkersDone]
    /\ MoveStop(s, "readTotal")
    /\ UNCHANGED <<channels, counters, pool, ticker, startCall, completed, panics, overlapped>>

StopReadTotal(s) ==
    /\ stopCall[s] = "readTotal"
    /\ verdict' = [verdict EXCEPT ![s].total = requestCounter]
    /\ MoveStop(s, "conclude")
    /\ UNCHANGED <<channels, counters, pool, ticker, startCall, completed, panics, overlapped>>

\* Read the second counter, delete the entry, compare the rate.
\* (Mutated form: the return of a failed verdict comes before the Delete.)
StopConcludeKeepingFailed(s) ==
    /\ stopCall[s] = "conclude"
    /\ verdict' = [verdict EXCEPT
                     ![s].success = requestSuccessCounter,
                     ![s].failed = BelowRate(requestSuccessCounter, verdict[s].total)]
    /\ registered' = (registered /\ verdict'[s].failed)
    /\ MoveStop(s, "done")
    /\ UNCHANGED <<jobs, jobsClosed, stopTicker, closedStopTickers, tickers,
                   tickerDone, counters, pool, ticker, startCall, completed, panics, overlapped>>

StopConclude(s) ==
    /\ stopCall[s] = "conclude"
    /\ verdict' = [verdict EXCEPT
                     ![s].success = requestSuccessCounter,
                     ![s].failed = BelowRate(requestSuccessCounter, verdict[s].total)]
    /\ registered' = FALSE
    /\ MoveStop(s, "done")
    /\ UNCHANGED <<jobs, jobsClosed, stopTicker, closedStopTickers, tickers,
                   tickerDone, counters, pool, ticker, startCall, completed, panics, overlapped>>

Stop(s) ==
    \/ StopStopTickers(s) \/ StopAwaitTicker(s) \/ StopCloseJobs(s)
    \/ StopAwaitWorkers(s) \/ StopReadTotal(s) \/ StopConclude(s)

\* No call is under way, the entry is gone and every goroutine has ended.
AtRest ==
    /\ \A s \in Stops : stopCall[s] \in {"uncalled", "done"}
    /\ StopCalled /\ ~registered
    /\ WorkersDone
    /\ ticker \in {"none", "ended"}

\* A Stop that overlaps Start may also leave them waiting for ever.
Terminated == (AtRest \/ overlapped) /\ UNCHANGED vars

Next ==
    \/ Prepare \/ Start \/ Ticker \/ Status
    \/ \E w \in Workers : Worker(w)
    \/ \E s \in Stops : StopLoad(s) \/ Stop(s)
    \/ Terminated

Spec == Init /\ [][Next]_vars

\* Every goroutine and every handler call that is under way keeps running: the
\* scheduler is fair to goroutines, dialing and publishing carry timeouts, and the
\* platform polls Status.  That Start or Stop is called at all is not assumed.
Fairness ==
    /\ WF_vars(startCall # "prepared" /\ Start)
    /\ WF_vars(Ticker)
    /\ WF_vars(Status)
    /\ \A w \in Workers : WF_vars(Worker(w))
    /\ \A s \in Stops : WF_vars(Stop(s))

FairSpec == Spec /\ Fairness

-----------------------------------------------------------------------------
(* Properties.                                                             *)

\* Unless Stop overlaps Start, nothing panics: neither Start nor the ticker goroutine
\* ever sends on a jobs channel that a Stop has closed (stop waits for tickerDone before
\* it closes jobs), and Start finds its run data.  And no two Stop calls close jobs
\* twice, whatever overlaps with what (jobsCloseOnce).
NoPanic ==
    /\ "close of closed jobs" \notin panics
    /\ ~overlapped => panics = {}

\* The workers check the count before they publish and count after, so each may
\* be past its check when the count is reached: a fixed amount is exceeded by at
\* most the number of workers less one.
OvershootBounded ==
    Kind = "fixed" => requestCounter <= NumberOfMessages + Cardinality(Workers) - 1

\* The workers at one of the given places.
At(places) == {w \in Workers : worker[w] \in places}

\* Messages that were attempted and whose outcome is open.
InFlight == At({"retry", "count", "await"})

\* A message is counted as attempted before it can be counted as delivered, and
\* never twice as delivered: successes and open outcomes are all attempts.
SuccessesAreRequests ==
    requestSuccessCounter + Cardinality(InFlight) <= requestCounter

\* Workers that have passed the check but have not counted their request yet.
Committed == At({"redial", "publish"})

\* The reason for OvershootBounded: requests made and requests committed to
\* together stay within the bound.
CommittedBounded ==
    Kind = "fixed" =>
        requestCounter + Cardinality(Committed)
            <= NumberOfMessages + Cardinality(Workers) - 1

\* A Stop that saw all workers finish judged the final counters: nothing is
\* attempted or confirmed any more after it has read them, so a duplicate Stop
\* that also saw it comes to the same verdict.
JoinedVerdictIsFinal ==
    \A s \in Stops :
        stopCall[s] = "done" /\ verdict[s].joined =>
            /\ verdict[s].total = requestCounter
            /\ verdict[s].success = requestSuccessCounter
            /\ verdict[s].failed = BelowRate(requestSuccessCounter, requestCounter)

\* Once a Stop has returned, the map holds no entry of the execution, whatever
\* Start stored and however many Stop calls ran at once, unless Stop overlaps Start.
NoEntryAfterStop ==
    ~overlapped /\ (\E s \in Stops : stopCall[s] = "done") => ~registered

\* Every Stop call returns and leaves no goroutine of the execution behind: the ticker
\* ends, also when all workers are dead and the jobs channel is full, and every worker
\* drains the closed jobs channel and exits, also after the timeout of stop, after a
\* Prepare that no Start followed, or when two Stop calls overlap; unless a Stop
\* overlaps Start.
StopEndsEverything ==
    (\E s \in Stops : stopCall[s] = "stopTickers") ~>
        \/ /\ \A s \in Stops : stopCall[s] \in {"uncalled", "done"}
           /\ WorkersDone
           /\ ticker \in {"none", "ended"}
        \/ overlapped

\* A fixed-amount action that has one connected worker completes, whatever its
\* publishes come to, unless it is stopped before.
ConnectedFixedCompletes ==
    /\ Kind = "fixed"
    /\ startCall = "returned"
    /\ \E w \in Workers : worker[w] \notin {"unspawned", "dial", "exited"}
    ~> completed \/ StopCalled

-----------------------------------------------------------------------------
(* PublishRun implements Publishing.                                       *)

\* What a Stop at the given place has done of what matters.
StageOf(place) ==
    CASE place = "readTotal" -> "waited"
      [] place = "conclude" -> "read"
      [] place = "done" -> "judged"
      [] OTHER -> "called"

Promise == INSTANCE Publishing WITH
    Excess <- Cardinality(Workers) - 1,
    requests <- requestCounter,
    successes <- requestSuccessCounter,
    open <- Cardinality(InFlight),
    stage <- [s \in Stops |-> StageOf(stopCall[s])]

\* "If the success rate drops below this, the experiment fails": however the goroutines
\* of the execution and several Stop calls interleave, the platform sees nothing but an
\* amount that is attempted and settled, and verdicts about it.
ImplementsPublishing == Promise!Spec
=============================================================================
