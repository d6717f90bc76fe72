--------------------------- MODULE PublishRegistry ---------------------------
(***************************************************************************)
(* ExecutionRunDataMap in extrabbitmq/publish.go, and the calls that meet  *)
(* there: the platform prepares the targets of a publish step that has the *)
(* exchange parameter, starts and stops them, and repeats a call when its  *)
(* answer is lost.  Each Prepare passes the guard (ExchangeGuard), makes   *)
(* new run data, stores it under the execution ID, loads what is stored    *)
(* there, and spawns its workers on that.                                  *)
(*                                                                         *)
(* Run data is named by the Prepare call that made it.  What goes on       *)
(* within one run data is PublishRun; here it is fed by a ticker or not,   *)
(* and its jobs channel is closed, which releases its workers, or not.     *)
(* A Prepare is late if it is still under way, or comes, when Start or     *)
(* Stop is called for its execution.                                       *)
(***************************************************************************)
EXTENDS ExchangeGuard

CONSTANTS
    StepOf,    \* the step that each target belongs to
    Prepares   \* bound: Prepare calls for one target, one after the other

ASSUME StepAssumption == StepOf \in [Targets -> Keys]
ASSUME PreparesAssumption == Prepares \in Nat

VARIABLES
    prepare,   \* where each Prepare call of each target is
    entry,     \* the run data that the map holds for each target, or 0
    pools,     \* how many pools of workers each run data has
    fed,       \* the run data whose ticker goroutine runs
    released,  \* the run data whose jobs channel is closed
    stopping,  \* the run data that a Stop under way has loaded, or 0
    life,      \* the platform's view: "preparing", "started" or "stopped"
    late,      \* history: targets with a late Prepare
    lapsed     \* history: steps whose entry in the guard has been dropped

registry == <<prepare, entry, pools, fed, released, stopping, life>>
history == <<late, lapsed>>

Calls == 1..Prepares

RegistryTypeOK ==
    /\ prepare \in [Targets -> [Calls -> {"uncalled", "passed", "stored", "returned", "failed"}]]
    /\ entry \in [Targets -> 0..Prepares]
    /\ pools \in [Targets -> [Calls -> Nat]]
    /\ fed \in [Targets -> SUBSET Calls]
    /\ released \in [Targets -> SUBSET Calls]
    /\ stopping \in [Targets -> 0..Prepares]
    /\ life \in [Targets -> {"preparing", "started", "stopped"}]
    /\ late \subseteq Targets
    /\ lapsed \subseteq Keys

RegistryInit ==
    /\ Init
    /\ prepare = [t \in Targets |-> [c \in Calls |-> "uncalled"]]
    /\ entry = [t \in Targets |-> 0]
    /\ pools = [t \in Targets |-> [c \in Calls |-> 0]]
    /\ fed = [t \in Targets |-> {}]
    /\ released = [t \in Targets |-> {}]
    /\ stopping = [t \in Targets |-> 0]
    /\ life = [t \in Targets |-> "preparing"]
    /\ late = {} /\ lapsed = {}

-----------------------------------------------------------------------------
(* Prepare.                                                                *)

MovePrepare(t, c, to) == prepare' = [prepare EXCEPT ![t][c] = to]

Answer(k) == IF reply'[k] = "admitted" THEN "passed" ELSE "failed"

\* The guard lets the call pass or fails it.
PrepareGuarded(t, c) ==
    /\ prepare[t][c] = "uncalled"
    /\ \A b \in 1..(c - 1) : prepare[t][b] # "uncalled"
    /\ \E at \in Readings : Guard(StepOf[t], t, at) /\ lapsed' = lapsed \cup Stale(at)
    /\ MovePrepare(t, c, Answer(StepOf[t]))
    /\ late' = IF life[t] = "preparing" THEN late ELSE late \cup {t}
    /\ UNCHANGED <<entry, pools, fed, released, stopping, life>>

\* No concurrency, no endpoint, no URL or unreadable headers: the guard has counted the
\* target nevertheless.
PrepareFails(t, c) ==
    /\ prepare[t][c] = "passed"
    /\ MovePrepare(t, c, "failed")
    /\ UNCHANGED <<vars, entry, pools, fed, released, stopping, life, history>>

\* initExecutionRunData; what was stored before is forgotten.
PrepareStores(t, c) ==
    /\ prepare[t][c] = "passed"
    /\ MovePrepare(t, c, "stored")
    /\ entry' = [entry EXCEPT ![t] = c]
    /\ UNCHANGED <<vars, pools, fed, released, stopping, life, history>>

\* The run data is loaded again: another call, or a Stop, may have changed the entry.
PrepareSpawns(t, c) ==
    /\ prepare[t][c] = "stored"
    /\ IF entry[t] = 0
       THEN MovePrepare(t, c, "failed") /\ UNCHANGED pools
       ELSE /\ MovePrepare(t, c, "returned")
            /\ pools' = [pools EXCEPT ![t][entry[t]] = @ + 1]
    /\ UNCHANGED <<vars, entry, fed, released, stopping, life, history>>

UnderWay(t) == \E c \in Calls : prepare[t][c] \in {"passed", "stored"}

\* A Prepare of another step, with its own targets.
OtherStep(k, t) ==
    /\ k \notin {StepOf[u] : u \in Targets}
    /\ \E at \in Readings : Guard(k, t, at) /\ lapsed' = lapsed \cup Stale(at)
    /\ UNCHANGED <<registry, late>>

-----------------------------------------------------------------------------
(* Start and Stop.                                                         *)

Prepared(t) == \E c \in Calls : prepare[t][c] = "returned"

\* (Mutated form: Start keeps to the run data of the first Prepare.)
FeedFirst(t) == fed' = [fed EXCEPT ![t] = @ \cup {1}]

\* Start feeds the run data that it loads, and stores it again; without one it panics
\* (see PublishRun), which nobody in this state does.
Feed(t) == fed' = [fed EXCEPT ![t] = @ \cup {entry[t]}]

Start(t) ==
    /\ life[t] = "preparing" /\ Prepared(t) /\ entry[t] # 0
    /\ Feed(t)
    /\ life' = [life EXCEPT ![t] = "started"]
    /\ late' = IF UnderWay(t) THEN late \cup {t} ELSE late
    /\ UNCHANGED <<vars, prepare, entry, pools, released, stopping, lapsed>>

\* A Stop, the first one or a repeated one, that finds an entry.
StopLoads(t) ==
    /\ entry[t] # 0 /\ stopping[t] = 0
    /\ stopping' = [stopping EXCEPT ![t] = entry[t]]
    /\ life' = [life EXCEPT ![t] = "stopped"]
    /\ late' = IF UnderWay(t) THEN late \cup {t} ELSE late
    /\ UNCHANGED <<vars, prepare, entry, pools, fed, released, lapsed>>

\* (Mutated form: the jobs channel is closed only if its ticker has run.)
ReleaseFed(t) ==
    released' = [released EXCEPT ![t] = @ \cup ({stopping[t]} \cap fed[t])]

Release(t) == released' = [released EXCEPT ![t] = @ \cup {stopping[t]}]

\* The ticker is ended, the workers are released, and the entry is deleted, whatever it
\* is by now.
StopEnds(t) ==
    /\ stopping[t] # 0
    /\ Release(t)
    /\ fed' = [fed EXCEPT ![t] = @ \ {stopping[t]}]
    /\ entry' = [entry EXCEPT ![t] = 0]
    /\ stopping' = [stopping EXCEPT ![t] = 0]
    /\ UNCHANGED <<vars, prepare, pools, life, history>>

\* Time passes; the platform and the executions wait.
Wait == Pass /\ UNCHANGED <<registry, history>>

Rest == now >= MaxTime /\ UNCHANGED <<vars, registry, history>>

RegistryNext ==
    \/ Wait \/ Rest
    \/ \E k \in Keys, t \in Targets : OtherStep(k, t)
    \/ \E t \in Targets :
          \/ Start(t) \/ StopLoads(t) \/ StopEnds(t)
          \/ \E c \in Calls : \/ PrepareGuarded(t, c) \/ PrepareFails(t, c)
                              \/ PrepareStores(t, c) \/ PrepareSpawns(t, c)

RegistrySpec == RegistryInit /\ [][RegistryNext]_<<vars, registry, history>>

-----------------------------------------------------------------------------
(* Properties.                                                             *)

\* The targets of a step that publish now.
Publishing(k) == {t \in Targets : StepOf[t] = k /\ fed[t] # {}}

\* What the guard is for: no more than MaxTargets targets of one step publish to its
\* exchange at a time, whichever of their prepares are repeated, fail or overlap, unless
\* the step's entry was dropped between two of them for an hour without any.
ExchangeLoadLimited ==
    \A k \in Keys \ lapsed : Cardinality(Publishing(k)) <= MaxTargets

Stopped(t) == life[t] = "stopped" /\ stopping[t] = 0

\* After a Stop nothing of the execution publishes any more, however often and however
\* concurrently it was prepared, unless a Prepare was late: that one would leave Stop
\* the wrong run data, and the ticker of the other would run on for ever.
StopEndsPublishing == \A t \in Targets \ late : Stopped(t) => fed[t] = {}

\* The workers that are left waiting after a Stop are those on run data that a repeated
\* Prepare has replaced; a target that was prepared once leaves none.
OnlyReplacedPoolsStay ==
    \A t \in Targets \ late : Stopped(t) =>
        \A c \in Calls : pools[t][c] > 0 /\ c \notin released[t] =>
            \E later \in Calls \ {c} : pools[t][later] > 0 /\ later \in released[t]
=============================================================================
