------------------------ MODULE PublishRegistryProofs ------------------------
(***************************************************************************)
(* The exchange guard, and the registry of run data around it, for every   *)
(* number of steps, targets, retries and repeated or overlapping Prepare   *)
(* calls.                                                                  *)
(***************************************************************************)
EXTENDS PublishRegistry, FiniteSetTheorems, TLAPS

-----------------------------------------------------------------------------
(* The guard alone.                                                        *)


\* The admitted targets of an entry are recorded in it, and a rejection is there
\* for as long as the recorded targets are too many.
GuardInv ==
    /\ AdmittedWithinLimit
    /\ \A k \in Keys : admitted[k] \subseteq targets[k]
    /\ \A k \in Keys : reply[k] = "rejected" => ~Within(targets[k])

\* The guard keeps the types of its entries.
LEMMA GuardTypeStep == TypeOK /\ [Next]_vars => TypeOK'
<1> SUFFICES ASSUME TypeOK, [Next]_vars PROVE TypeOK'
  OBVIOUS
<1>1. CASE Pass
  BY <1>1 DEF Pass, TypeOK
<1>2. ASSUME NEW k \in Keys, NEW t \in Targets, NEW at \in Readings, Guard(k, t, at)
      PROVE  TypeOK'
  <2>1. live' \subseteq Keys /\ now' \in Nat
    BY <1>2 DEF Guard, TypeOK
  <2>2. targets' \in [Keys -> SUBSET Targets] /\ admitted' \in [Keys -> SUBSET Targets]
    BY <1>2 DEF Guard, TypeOK, Kept, Record
  <2>3. lastSeen' \in [Keys -> Nat]
    <3>1. at \in Nat
      BY DEF TypeOK, Readings
    <3> QED
      BY <1>2, <3>1 DEF Guard, TypeOK, Kept
  <2>4. reply' \in [Keys -> {"none", "admitted", "rejected"}]
    BY <1>2 DEF Guard, TypeOK, Kept
  <2> QED
    BY <2>1, <2>2, <2>3, <2>4 DEF TypeOK
<1>3. CASE UNCHANGED vars
  BY <1>3 DEF vars, TypeOK
<1> QED
  BY <1>1, <1>2, <1>3 DEF Next

\* The entries of the guard keep their types.
THEOREM GuardTypeCorrect == Spec => []TypeOK
<1>1. Init => TypeOK
  BY DEF Init, TypeOK
<1> QED
  BY <1>1, GuardTypeStep, PTL DEF Spec

\* A subset of a set of targets has no more members.
LEMMA SmallerSet ==
    ASSUME NEW A \in SUBSET Targets, NEW C \in SUBSET A
    PROVE  /\ Cardinality(A) \in Nat /\ Cardinality(C) \in Nat
           /\ Cardinality(C) <= Cardinality(A)
<1>1. IsFiniteSet(A)
  BY TargetsAssumption, FS_Subset
<1>2. IsFiniteSet(C) /\ Cardinality(C) <= Cardinality(A)
  BY <1>1, FS_Subset
<1> QED
  BY <1>1, <1>2, FS_CardinalityType

\* One call keeps the limit and the record of the rejection.
LEMMA GuardStep == TypeOK /\ GuardInv /\ [Next]_vars => GuardInv'
<1> SUFFICES ASSUME TypeOK, GuardInv, [Next]_vars PROVE GuardInv'
  OBVIOUS
<1>1. CASE Pass \/ UNCHANGED vars
  BY <1>1 DEF Pass, vars, GuardInv, AdmittedWithinLimit, Within
<1>2. ASSUME NEW k \in Keys, NEW t \in Targets, NEW at \in Readings, Guard(k, t, at)
      PROVE  GuardInv'
  <2> DEFINE all == Kept(targets, k, {}, at) \cup {t}
  <2>1. all \subseteq Targets
    BY DEF TypeOK, Kept
  <2>2. /\ \A j \in Keys : targets'[j] = IF j = k THEN all ELSE Kept(targets, j, {}, at)
        /\ \A j \in Keys : admitted'[j] = IF j = k /\ Within(all)
                                          THEN Kept(admitted, j, {}, at) \cup {t}
                                          ELSE Kept(admitted, j, {}, at)
        /\ \A j \in Keys : reply'[j] = IF j = k
                                       THEN IF Within(all) THEN "admitted" ELSE "rejected"
                                       ELSE Kept(reply, j, "none", at)
    BY <1>2 DEF Guard, Record
  <2>3. ASSUME NEW j \in Keys PROVE Cardinality(Kept(admitted, j, {}, at)) <= MaxTargets
    <3>1. Cardinality({}) = 0
      BY FS_EmptySet
    <3> QED
      BY <3>1, MaxTargetsAssumption DEF Kept, GuardInv, AdmittedWithinLimit
  <2>4. ASSUME NEW j \in Keys PROVE Kept(admitted, j, {}, at) \subseteq Kept(targets, j, {}, at)
    BY DEF Kept, GuardInv
  <2>5. ASSUME Within(all) PROVE Cardinality(Kept(admitted, k, {}, at) \cup {t}) <= MaxTargets
    <3>1. Kept(admitted, k, {}, at) \cup {t} \subseteq all
      BY <2>4
    <3> HIDE DEF all
    <3> QED
      BY <2>1, <2>5, <3>1, SmallerSet, MaxTargetsAssumption DEF Within
  <2> HIDE DEF all
  <2>6. AdmittedWithinLimit'
    BY <2>2, <2>3, <2>5 DEF AdmittedWithinLimit
  <2>7. \A j \in Keys : admitted'[j] \subseteq targets'[j]
    BY <2>2, <2>4 DEF all
  <2>8. \A j \in Keys : reply'[j] = "rejected" => ~Within(targets'[j])
    BY <2>2 DEF Kept, GuardInv
  <2> QED
    BY <2>6, <2>7, <2>8 DEF GuardInv, Within
<1> QED
  BY <1>1, <1>2 DEF Next

\* There is no entry at first.
LEMMA GuardInit == Init => GuardInv
BY FS_EmptySet, MaxTargetsAssumption DEF Init, GuardInv, AdmittedWithinLimit

\* For every number of targets and every order of their prepares and retries, at most
\* MaxTargets distinct targets of one step are let through while its entry lives.
THEOREM LimitCorrect == Spec => []AdmittedWithinLimit
<1>1. GuardInv => AdmittedWithinLimit
  BY DEF GuardInv
<1> QED
  BY <1>1, GuardInit, GuardStep, GuardTypeCorrect, PTL DEF Spec

\* What is stale for a call that read the clock some time ago is stale now.
LEMMA StaleLater ==
    ASSUME TypeOK, NEW at \in Readings
    PROVE  Stale(at) \subseteq Stale(now)
<1> SUFFICES ASSUME NEW k \in live, at - lastSeen[k] > Retention
             PROVE  now - lastSeen[k] > Retention
  BY DEF Stale
<1>1. now \in Nat /\ at \in Nat /\ at <= now /\ lastSeen[k] \in Nat
  BY DEF TypeOK, Readings
<1> QED
  BY <1>1, RetentionAssumption

\* A recorded target is never forgotten while its entry lives, so a rejection of the
\* step is final.
LEMMA RejectionStep ==
    ASSUME TypeOK, GuardInv, [Next]_vars, NEW k \in Keys,
           reply[k] = "rejected", k \notin Stale(now)
    PROVE  reply'[k] = "rejected"
<1>1. CASE Pass \/ UNCHANGED vars
  BY <1>1 DEF Pass, vars
<1>2. ASSUME NEW j \in Keys, NEW t \in Targets, NEW at \in Readings, Guard(j, t, at)
      PROVE  reply'[k] = "rejected"
  <2>a. k \notin Stale(at)
    BY RetentionAssumption, StaleLater
  <2>1. CASE j # k
    BY <1>2, <2>a, <2>1 DEF Guard, Kept
  <2>2. CASE j = k
    <3>1. ~Within(targets[k] \cup {t})
      <4>1. targets[k] \in SUBSET (targets[k] \cup {t}) /\ targets[k] \cup {t} \in SUBSET Targets
        BY DEF TypeOK
      <4>2. ~Within(targets[k])
        BY DEF GuardInv
      <4> QED
        BY <4>1, <4>2, SmallerSet, MaxTargetsAssumption DEF Within
    <3> QED
      BY <1>2, <2>a, <2>2, <3>1 DEF Guard, Kept
  <2> QED
    BY <2>1, <2>2
<1> QED
  BY <1>1, <1>2 DEF Next

\* A step that was rejected once stays rejected until its entry is stale.
THEOREM RejectionCorrect == Spec => RejectionSticks
<1>1. TypeOK /\ GuardInv /\ [Next]_vars =>
        \A k \in Keys : reply[k] = "rejected" /\ k \notin Stale(now) => reply'[k] = "rejected"
  BY RejectionStep
<1> QED
  BY <1>1, GuardInit, GuardStep, GuardTypeCorrect, PTL DEF Spec, RejectionSticks

-----------------------------------------------------------------------------
(* The registry.                                                           *)

everything == <<vars, registry, history>>

Places == {"uncalled", "passed", "stored", "returned", "failed"}

-----------------------------------------------------------------------------
(* The guard inside the registry.                                          *)

\* Whatever the registry does, the guard sees one of its calls, time, or nothing.
LEMMA StepOfGuard == RegistryTypeOK /\ [RegistryNext]_everything => [Next]_vars
<1> SUFFICES ASSUME RegistryTypeOK, [RegistryNext]_everything PROVE [Next]_vars
  OBVIOUS
<1>1. CASE Wait \/ Rest \/ UNCHANGED everything
  BY <1>1 DEF Wait, Rest, everything, Next
<1>2. ASSUME NEW k \in Keys, NEW t \in Targets, OtherStep(k, t) PROVE Next
  BY <1>2 DEF OtherStep, Next
<1>3. ASSUME NEW t \in Targets, Start(t) \/ StopLoads(t) \/ StopEnds(t)
      PROVE  UNCHANGED vars
  BY <1>3 DEF Start, StopLoads, StopEnds
<1>4. ASSUME NEW t \in Targets, NEW c \in Calls, PrepareGuarded(t, c) PROVE Next
  BY <1>4, StepAssumption DEF PrepareGuarded, Next
<1>5. ASSUME NEW t \in Targets, NEW c \in Calls,
             PrepareFails(t, c) \/ PrepareStores(t, c) \/ PrepareSpawns(t, c)
      PROVE  UNCHANGED vars
  BY <1>5 DEF PrepareFails, PrepareStores, PrepareSpawns
<1> QED
  BY <1>1, <1>2, <1>3, <1>4, <1>5 DEF RegistryNext

\* A Prepare call that moves stays among the places.
LEMMA MovedPrepare ==
    ASSUME RegistryTypeOK, NEW t \in Targets, NEW c \in Calls, NEW to \in Places,
           MovePrepare(t, c, to)
    PROVE  /\ prepare' \in [Targets -> [Calls -> Places]]
           /\ prepare'[t] = [prepare[t] EXCEPT ![c] = to]
           /\ \A u \in Targets \ {t} : prepare'[u] = prepare[u]
BY DEF RegistryTypeOK, MovePrepare, Places

\* The registry keeps its types.
LEMMA RegistryTypeStep ==
    TypeOK /\ RegistryTypeOK /\ [RegistryNext]_everything => RegistryTypeOK'
<1> SUFFICES ASSUME TypeOK, RegistryTypeOK, [RegistryNext]_everything PROVE RegistryTypeOK'
  OBVIOUS
<1> USE DEF RegistryTypeOK, Calls
<1>0. \A at : Stale(at) \subseteq Keys
  BY DEF Stale, TypeOK
<1>1. CASE Wait \/ Rest \/ UNCHANGED everything
  BY <1>1 DEF Wait, Rest, everything, registry, history
<1>2. ASSUME NEW k \in Keys, NEW t \in Targets, OtherStep(k, t) PROVE RegistryTypeOK'
  BY <1>0, <1>2 DEF OtherStep, registry
<1>3. ASSUME NEW t \in Targets, Start(t) PROVE RegistryTypeOK'
  <2>1. entry[t] \in Calls
    BY <1>3, PreparesAssumption DEF Start
  <2> QED
    BY <1>3, <2>1 DEF Start, Feed
<1>4. ASSUME NEW t \in Targets, StopLoads(t) PROVE RegistryTypeOK'
  BY <1>4 DEF StopLoads
<1>5. ASSUME NEW t \in Targets, StopEnds(t) PROVE RegistryTypeOK'
  <2>1. stopping[t] \in Calls /\ 0 \in 0..Prepares
    BY <1>5, PreparesAssumption DEF StopEnds
  <2> QED
    BY <1>5, <2>1 DEF StopEnds, Release, history
<1>6. ASSUME NEW t \in Targets, NEW c \in Calls, PrepareGuarded(t, c) PROVE RegistryTypeOK'
  <2>1. Answer(StepOf[t]) \in Places
    BY DEF Answer, Places
  <2>2. prepare' \in [Targets -> [Calls -> Places]]
    BY <1>6, <2>1, MovedPrepare DEF PrepareGuarded
  <2> QED
    BY <1>0, <1>6, <2>2 DEF PrepareGuarded, Places
<1>7. ASSUME NEW t \in Targets, NEW c \in Calls, PrepareFails(t, c) PROVE RegistryTypeOK'
  <2>1. prepare' \in [Targets -> [Calls -> Places]]
    BY <1>7, MovedPrepare DEF PrepareFails, Places
  <2> QED
    BY <1>7, <2>1 DEF PrepareFails, Places, history
<1>8. ASSUME NEW t \in Targets, NEW c \in Calls, PrepareStores(t, c) PROVE RegistryTypeOK'
  <2>1. prepare' \in [Targets -> [Calls -> Places]]
    BY <1>8, MovedPrepare DEF PrepareStores, Places
  <2>2. entry' \in [Targets -> 0..Prepares]
    BY <1>8, PreparesAssumption DEF PrepareStores
  <2> QED
    BY <1>8, <2>1, <2>2 DEF PrepareStores, Places, history
<1>9. ASSUME NEW t \in Targets, NEW c \in Calls, PrepareSpawns(t, c) PROVE RegistryTypeOK'
  <2>1. prepare' \in [Targets -> [Calls -> Places]]
    BY <1>9, MovedPrepare DEF PrepareSpawns, Places
  <2>2. pools' \in [Targets -> [Calls -> Nat]]
    <3>1. CASE entry[t] = 0
      BY <1>9, <3>1 DEF PrepareSpawns
    <3>2. CASE entry[t] # 0
      <4>1. entry[t] \in Calls /\ pools[t] \in [Calls -> Nat]
        BY <3>2, PreparesAssumption
      <4>2. [pools[t] EXCEPT ![entry[t]] = @ + 1] \in [Calls -> Nat]
        BY <4>1
      <4>3. pools' = [pools EXCEPT ![t] = [pools[t] EXCEPT ![entry[t]] = @ + 1]]
        BY <1>9, <3>2 DEF PrepareSpawns
      <4> QED
        BY <4>2, <4>3
    <3> QED
      BY <3>1, <3>2
  <2> QED
    BY <1>9, <2>1, <2>2 DEF PrepareSpawns, Places, history
<1> QED
  BY <1>1, <1>2, <1>3, <1>4, <1>5, <1>6, <1>7, <1>8, <1>9 DEF RegistryNext

\* The registry starts with well typed fields and the guard's initial state.
LEMMA RegistryStarts == RegistryInit => Init /\ TypeOK /\ RegistryTypeOK
<1>1. Init => TypeOK
  BY DEF Init, TypeOK
<1>2. RegistryInit => RegistryTypeOK
  BY PreparesAssumption DEF RegistryInit, RegistryTypeOK, Calls
<1> QED
  BY <1>1, <1>2 DEF RegistryInit

\* Types of the registry and of the guard in it.
THEOREM RegistryTypeCorrect == RegistrySpec => [](TypeOK /\ RegistryTypeOK)
<1> QED
  BY RegistryStarts, StepOfGuard, GuardTypeStep, RegistryTypeStep, PTL
  DEF RegistrySpec, everything

\* The guard inside the registry is the guard: all that is proved of it holds of the
\* registry too.
THEOREM RegistryHasGuard == RegistrySpec => Spec
<1> QED
  BY RegistryStarts, StepOfGuard, RegistryTypeCorrect, PTL DEF RegistrySpec, Spec, everything

-----------------------------------------------------------------------------
(* What the guard is for.                                                  *)

Passed == {"passed", "stored", "returned"}

\* A target that has passed the guard is admitted, and only such a target publishes, as
\* long as the entry of its step was not dropped.
LoadInv ==
    \A t \in Targets : StepOf[t] \notin lapsed =>
        /\ \A c \in Calls : prepare[t][c] \in Passed => t \in admitted[StepOf[t]]
        /\ fed[t] # {} => t \in admitted[StepOf[t]]

\* The admitted targets of a step stay admitted unless its entry is dropped.
LEMMA AdmittedStays ==
    ASSUME TypeOK, NEW k \in Keys, NEW j \in Keys, NEW t \in Targets, NEW at,
           Guard(k, t, at), j \notin Stale(at)
    PROVE  admitted[j] \subseteq admitted'[j]
BY DEF Guard, Kept, TypeOK

\* A step that leaves the guard alone and lets no call pass keeps LoadInv, if what it
\* feeds was prepared.
LEMMA LoadUntouched ==
    ASSUME LoadInv, admitted' = admitted, lapsed' = lapsed,
           \A u \in Targets : \A c \in Calls :
               prepare'[u][c] \in Passed => \E b \in Calls : prepare[u][b] \in Passed,
           \A u \in Targets :
               fed'[u] # {} => fed[u] # {} \/ \E b \in Calls : prepare[u][b] \in Passed
    PROVE  LoadInv'
BY DEF LoadInv

\* Every step of the registry keeps LoadInv.
LEMMA LoadStep ==
    TypeOK /\ RegistryTypeOK /\ LoadInv /\ [RegistryNext]_everything => LoadInv'
<1> SUFFICES ASSUME TypeOK, RegistryTypeOK, LoadInv, [RegistryNext]_everything
             PROVE  LoadInv'
  OBVIOUS
<1>1. CASE Wait \/ Rest \/ UNCHANGED everything
  BY <1>1 DEF Wait, Pass, Rest, everything, vars, registry, history, LoadInv
<1>2. ASSUME NEW k \in Keys, NEW t \in Targets, OtherStep(k, t) PROVE LoadInv'
  <2>1. PICK at \in Readings : /\ UNCHANGED <<prepare, fed>> /\ lapsed' = lapsed \cup Stale(at)
                              /\ Guard(k, t, at)
    BY <1>2 DEF OtherStep, registry
  <2>2. \A u \in Targets : StepOf[u] \notin lapsed' =>
            StepOf[u] \notin lapsed /\ admitted[StepOf[u]] \subseteq admitted'[StepOf[u]]
    BY <2>1, AdmittedStays, StepAssumption
  <2> QED
    BY <2>1, <2>2 DEF LoadInv
<1>3. ASSUME NEW t \in Targets, Start(t) PROVE LoadInv'
  <2>1. \A u \in Targets : fed'[u] # {} =>
            fed[u] # {} \/ \E b \in Calls : prepare[u][b] \in Passed
    BY <1>3 DEF Start, Feed, Prepared, Passed, RegistryTypeOK
  <2> QED
    BY <1>3, <2>1, LoadUntouched DEF Start, vars
<1>4. ASSUME NEW t \in Targets, StopLoads(t) PROVE LoadInv'
  BY <1>4, LoadUntouched DEF StopLoads, vars
<1>5. ASSUME NEW t \in Targets, StopEnds(t) PROVE LoadInv'
  <2>1. \A u \in Targets : fed'[u] # {} => fed[u] # {}
    BY <1>5 DEF StopEnds, RegistryTypeOK
  <2> QED
    BY <1>5, <2>1, LoadUntouched DEF StopEnds, vars, history
<1>6. ASSUME NEW t \in Targets, NEW c \in Calls, PrepareGuarded(t, c) PROVE LoadInv'
  <2> DEFINE k == StepOf[t]
  <2>1. PICK at \in Readings : /\ k \in Keys /\ Guard(k, t, at)
                              /\ UNCHANGED fed /\ lapsed' = lapsed \cup Stale(at)
    BY <1>6, StepAssumption DEF PrepareGuarded
  <2>2. ASSUME NEW u \in Targets, StepOf[u] \notin lapsed'
        PROVE  StepOf[u] \notin lapsed /\ admitted[StepOf[u]] \subseteq admitted'[StepOf[u]]
    BY <2>1, <2>2, AdmittedStays, StepAssumption
  <2>3. PICK to \in Places : to = Answer(k) /\ MovePrepare(t, c, to)
    BY <1>6 DEF Answer, Places, PrepareGuarded
  <2>4. ASSUME Answer(k) \in Passed PROVE t \in admitted'[k]
    <3>1. reply'[k] = "admitted"
      BY <2>4 DEF Answer, Passed
    <3> QED
      BY <2>1, <3>1 DEF Guard
  <2>5. ASSUME NEW u \in Targets, NEW b \in Calls, prepare'[u][b] \in Passed
        PROVE  prepare[u][b] \in Passed \/ (u = t /\ Answer(k) \in Passed)
    <3>1. prepare'[t] = [prepare[t] EXCEPT ![c] = to]
      BY <2>3, MovedPrepare
    <3>2. prepare[t] \in [Calls -> Places]
      BY DEF RegistryTypeOK, Places
    <3>3. u # t => prepare'[u] = prepare[u]
      BY <2>3, MovedPrepare
    <3> QED
      BY <2>3, <2>5, <3>1, <3>2, <3>3
  <2> QED
    BY <2>1, <2>2, <2>4, <2>5 DEF LoadInv
<1>7. ASSUME NEW t \in Targets, NEW c \in Calls,
             PrepareFails(t, c) \/ PrepareStores(t, c) \/ PrepareSpawns(t, c)
      PROVE  LoadInv'
  <2>1. prepare[t][c] \in Passed /\ UNCHANGED <<admitted, lapsed, fed>>
    BY <1>7 DEF PrepareFails, PrepareStores, PrepareSpawns, vars, history, Passed
  <2>2. PICK to \in Places : MovePrepare(t, c, to)
    BY <1>7 DEF PrepareFails, PrepareStores, PrepareSpawns, Places
  <2>3. \A u \in Targets : \A b \in Calls : u = t \/ prepare'[u][b] = prepare[u][b]
    BY <2>2, MovedPrepare
  <2> QED
    BY <2>1, <2>3, LoadUntouched
<1> QED
  BY <1>1, <1>2, <1>3, <1>4, <1>5, <1>6, <1>7 DEF RegistryNext

\* For every number of targets and steps: at most MaxTargets targets of one step publish
\* at a time, unless its entry in the guard was dropped.
THEOREM LoadCorrect == RegistrySpec => []ExchangeLoadLimited
<1>1. RegistryInit => LoadInv
  BY DEF RegistryInit, LoadInv, Passed
<1>2. RegistrySpec => []LoadInv
  BY <1>1, LoadStep, RegistryTypeCorrect, PTL DEF RegistrySpec, everything
<1>3. TypeOK /\ LoadInv /\ AdmittedWithinLimit => ExchangeLoadLimited
  <2> SUFFICES ASSUME TypeOK, LoadInv, AdmittedWithinLimit, NEW k \in Keys \ lapsed
               PROVE  Cardinality(Publishing(k)) <= MaxTargets
    BY DEF ExchangeLoadLimited
  <2>1. Publishing(k) \in SUBSET admitted[k] /\ admitted[k] \in SUBSET Targets
    BY DEF Publishing, LoadInv, TypeOK
  <2>2. Cardinality(Publishing(k)) <= Cardinality(admitted[k])
        /\ Cardinality(Publishing(k)) \in Nat /\ Cardinality(admitted[k]) \in Nat
    BY <2>1, SmallerSet
  <2>3. Cardinality(admitted[k]) <= MaxTargets
    BY DEF AdmittedWithinLimit
  <2> QED
    BY <2>2, <2>3, MaxTargetsAssumption
<1> QED
  BY <1>2, <1>3, RegistryHasGuard, LimitCorrect, RegistryTypeCorrect, PTL

-----------------------------------------------------------------------------
(* What a Stop leaves.                                                     *)

\* Before Start nothing is fed, and then at most the run data in the map, which no call
\* replaces any more; a Stop under way holds that run data.
FedIsEntry(t) ==
    /\ life[t] # "preparing" => ~UnderWay(t)
    /\ life[t] = "preparing" => fed[t] = {} /\ stopping[t] = 0
    /\ life[t] = "started" => stopping[t] = 0
    /\ stopping[t] # 0 => stopping[t] = entry[t]
    /\ life[t] # "preparing" => fed[t] \subseteq {entry[t]} \ {0}
    /\ Stopped(t) => entry[t] = 0

\* The run data in the map is the newest: the call that stored it is about to spawn its
\* workers, or they are there.
EntryIsManned(t) ==
    /\ entry[t] # 0 => /\ prepare[t][entry[t]] \in {"stored", "returned"}
                       /\ prepare[t][entry[t]] = "returned" => pools[t][entry[t]] > 0
    /\ Stopped(t) => \E r \in released[t] : pools[t][r] > 0

StopInv == \A t \in Targets \ late : FedIsEntry(t) /\ EntryIsManned(t)

\* What happens to other targets is nothing to t.
LEMMA OtherTarget ==
    ASSUME NEW t \in Targets, t \notin late => FedIsEntry(t) /\ EntryIsManned(t),
           prepare'[t] = prepare[t], entry'[t] = entry[t], pools'[t] = pools[t],
           fed'[t] = fed[t], released'[t] = released[t], stopping'[t] = stopping[t],
           life'[t] = life[t], late \subseteq late'
    PROVE  t \notin late' => FedIsEntry(t)' /\ EntryIsManned(t)'
BY DEF FedIsEntry, EntryIsManned, UnderWay, Stopped

\* The actions of a target keep its own part of the invariant.
LEMMA OwnTarget ==
    ASSUME RegistryTypeOK, NEW t \in Targets, t \notin late', late \subseteq late',
           FedIsEntry(t), EntryIsManned(t),
           \/ Start(t) \/ StopLoads(t) \/ StopEnds(t)
           \/ \E c \in Calls : PrepareGuarded(t, c) \/ PrepareFails(t, c)
                               \/ PrepareStores(t, c) \/ PrepareSpawns(t, c)
    PROVE  FedIsEntry(t)' /\ EntryIsManned(t)'
<1>0. /\ prepare[t] \in [Calls -> Places] /\ entry[t] \in 0..Prepares
      /\ pools[t] \in [Calls -> Nat] /\ fed[t] \subseteq Calls /\ released[t] \subseteq Calls
      /\ stopping[t] \in 0..Prepares /\ life[t] \in {"preparing", "started", "stopped"}
  BY DEF RegistryTypeOK, Places
<1>00. entry[t] # 0 => entry[t] \in Calls
  BY <1>0, PreparesAssumption DEF Calls
<1>1. CASE Start(t)
  <2>1. /\ UNCHANGED <<prepare, entry, pools, released, stopping>>
        /\ life'[t] = "started" /\ fed'[t] = fed[t] \cup {entry[t]}
        /\ life[t] = "preparing" /\ entry[t] # 0 /\ ~UnderWay(t)
    BY <1>1 DEF Start, Feed, RegistryTypeOK
  <2> QED
    BY <2>1 DEF FedIsEntry, EntryIsManned, UnderWay, Stopped
<1>2. CASE StopLoads(t)
  <2>1. /\ UNCHANGED <<prepare, entry, pools, released, fed>>
        /\ life'[t] = "stopped" /\ stopping'[t] = entry[t] /\ entry[t] # 0
        /\ stopping[t] = 0 /\ ~UnderWay(t)
    BY <1>2 DEF StopLoads, RegistryTypeOK
  <2> QED
    BY <2>1 DEF FedIsEntry, EntryIsManned, UnderWay, Stopped
<1>3. CASE StopEnds(t)
  <2>1. /\ UNCHANGED <<prepare, pools, life>>
        /\ released'[t] = released[t] \cup {stopping[t]} /\ stopping[t] # 0
        /\ fed'[t] = fed[t] \ {stopping[t]} /\ entry'[t] = 0 /\ stopping'[t] = 0
    BY <1>3 DEF StopEnds, Release, RegistryTypeOK
  <2>2. life[t] = "stopped" /\ stopping[t] = entry[t] /\ ~UnderWay(t)
    BY <1>0, <2>1 DEF FedIsEntry
  <2>3. pools[t][entry[t]] > 0
    BY <1>00, <2>1, <2>2 DEF EntryIsManned, UnderWay
  <2>4. FedIsEntry(t)'
    BY <2>1, <2>2 DEF FedIsEntry, UnderWay, Stopped
  <2>5. EntryIsManned(t)'
    BY <2>1, <2>2, <2>3 DEF EntryIsManned, Stopped
  <2> QED
    BY <2>4, <2>5
<1>4. ASSUME NEW c \in Calls, PrepareGuarded(t, c) PROVE FedIsEntry(t)' /\ EntryIsManned(t)'
  <2>1. /\ UNCHANGED <<entry, pools, fed, released, stopping, life>>
        /\ prepare[t][c] = "uncalled" /\ life[t] = "preparing"
    BY <1>4 DEF PrepareGuarded
  <2>2. \A b \in Calls \ {c} : prepare'[t][b] = prepare[t][b]
    BY <1>0, <1>4 DEF PrepareGuarded, MovePrepare, RegistryTypeOK
  <2> QED
    BY <1>00, <2>1, <2>2 DEF FedIsEntry, EntryIsManned, Stopped
<1>5. ASSUME NEW c \in Calls, PrepareFails(t, c) PROVE FedIsEntry(t)' /\ EntryIsManned(t)'
  <2>1. /\ UNCHANGED <<entry, pools, fed, released, stopping, life>>
        /\ prepare[t][c] = "passed"
    BY <1>5 DEF PrepareFails, history
  <2>2. \A b \in Calls \ {c} : prepare'[t][b] = prepare[t][b]
    BY <1>0, <1>5 DEF PrepareFails, MovePrepare, RegistryTypeOK
  <2>3. life[t] = "preparing"
    BY <2>1 DEF FedIsEntry, UnderWay
  <2> QED
    BY <1>00, <2>1, <2>2, <2>3 DEF FedIsEntry, EntryIsManned, Stopped
<1>6. ASSUME NEW c \in Calls, PrepareStores(t, c) PROVE FedIsEntry(t)' /\ EntryIsManned(t)'
  <2>1. /\ UNCHANGED <<pools, fed, released, stopping, life>>
        /\ prepare[t][c] = "passed" /\ entry'[t] = c
    BY <1>6 DEF PrepareStores, history, RegistryTypeOK
  <2>2. prepare'[t][c] = "stored"
    BY <1>0, <1>6 DEF PrepareStores, MovePrepare, RegistryTypeOK
  <2>3. life[t] = "preparing"
    BY <2>1 DEF FedIsEntry, UnderWay
  <2> QED
    BY <2>1, <2>2, <2>3 DEF FedIsEntry, EntryIsManned, Stopped
<1>7. ASSUME NEW c \in Calls, PrepareSpawns(t, c) PROVE FedIsEntry(t)' /\ EntryIsManned(t)'
  <2>1. UNCHANGED <<entry, fed, released, stopping, life>> /\ prepare[t][c] = "stored"
    BY <1>7 DEF PrepareSpawns, history
  <2>2. life[t] = "preparing"
    BY <2>1 DEF FedIsEntry, UnderWay
  <2>3. \A b \in Calls \ {c} : prepare'[t][b] = prepare[t][b]
    BY <1>0, <1>7 DEF PrepareSpawns, MovePrepare, RegistryTypeOK
  <2>4. ASSUME entry[t] # 0
        PROVE  pools'[t][entry[t]] > 0 /\ prepare'[t][c] = "returned"
    <3>1. prepare'[t][c] = "returned"
      BY <1>0, <1>7, <2>4 DEF PrepareSpawns, MovePrepare, RegistryTypeOK
    <3>2. pools' = [pools EXCEPT ![t][entry[t]] = @ + 1]
      BY <1>7, <2>4 DEF PrepareSpawns
    <3>3. pools'[t][entry[t]] = pools[t][entry[t]] + 1
      BY <1>0, <1>00, <2>4, <3>2 DEF RegistryTypeOK
    <3> QED
      BY <1>0, <1>00, <2>4, <3>1, <3>3
  <2> QED
    BY <1>00, <2>1, <2>2, <2>3, <2>4 DEF FedIsEntry, EntryIsManned, Stopped
<1> QED
  BY <1>1, <1>2, <1>3, <1>4, <1>5, <1>6, <1>7

\* Every step of the registry keeps StopInv: a target's own by OwnTarget, all others.
LEMMA StopStep == RegistryTypeOK /\ StopInv /\ [RegistryNext]_everything => StopInv'
<1> SUFFICES ASSUME RegistryTypeOK, StopInv, [RegistryNext]_everything, NEW t \in Targets
             PROVE  t \notin late' => FedIsEntry(t)' /\ EntryIsManned(t)'
  BY DEF StopInv
<1>1. t \notin late => FedIsEntry(t) /\ EntryIsManned(t)
  BY DEF StopInv
<1>2. CASE UNCHANGED <<registry, late>>
  BY <1>1, <1>2, OtherTarget DEF registry
<1>3. ASSUME NEW u \in Targets,
             \/ Start(u) \/ StopLoads(u) \/ StopEnds(u)
             \/ \E c \in Calls : PrepareGuarded(u, c) \/ PrepareFails(u, c)
                                 \/ PrepareStores(u, c) \/ PrepareSpawns(u, c)
      PROVE  t \notin late' => FedIsEntry(t)' /\ EntryIsManned(t)'
  <2>1. late \subseteq late'
    BY <1>3 DEF Start, StopLoads, StopEnds, PrepareGuarded, PrepareFails, PrepareStores,
                PrepareSpawns, history
  <2>2. CASE u = t
    BY <1>1, <1>3, <2>1, <2>2, OwnTarget
  <2>3. CASE u # t
    <3>1. /\ prepare'[t] = prepare[t] /\ entry'[t] = entry[t] /\ pools'[t] = pools[t]
          /\ fed'[t] = fed[t] /\ released'[t] = released[t]
          /\ stopping'[t] = stopping[t] /\ life'[t] = life[t]
      BY <1>3, <2>3 DEF Start, Feed, StopLoads, StopEnds, Release, PrepareGuarded,
                PrepareFails, PrepareStores, PrepareSpawns, MovePrepare, history,
                RegistryTypeOK
    <3> QED
      BY <1>1, <2>1, <3>1, OtherTarget
  <2> QED
    BY <2>2, <2>3
<1>4. CASE Wait \/ Rest \/ UNCHANGED everything \/ \E k \in Keys, u \in Targets : OtherStep(k, u)
  <2>1. UNCHANGED <<registry, late>>
    BY <1>4 DEF Wait, Rest, everything, OtherStep, history
  <2> QED
    BY <1>2, <2>1
<1> QED
  BY <1>3, <1>4 DEF RegistryNext

\* StopInv is an invariant.
LEMMA StopCorrect == RegistrySpec => []StopInv
<1>1. RegistryInit => StopInv
  BY DEF RegistryInit, StopInv, FedIsEntry, EntryIsManned, UnderWay, Stopped
<1> QED
  BY <1>1, StopStep, RegistryTypeCorrect, PTL DEF RegistrySpec, everything

\* For every number of Prepare calls of a target, repeated or overlapping: if none is
\* late, nothing publishes after a Stop.
THEOREM StopEndsCorrect == RegistrySpec => []StopEndsPublishing
<1>1. StopInv => StopEndsPublishing
  BY DEF StopInv, FedIsEntry, Stopped, StopEndsPublishing
<1> QED
  BY <1>1, StopCorrect, PTL

\* If none is late, the workers that a Stop leaves waiting are those on run data that a
\* repeated Prepare has replaced, for every number of calls.
THEOREM PoolsCorrect == RegistrySpec => []OnlyReplacedPoolsStay
<1>1. RegistryTypeOK /\ StopInv => OnlyReplacedPoolsStay
  <2> SUFFICES ASSUME RegistryTypeOK, StopInv, NEW t \in Targets \ late, Stopped(t),
                      NEW c \in Calls, c \notin released[t]
               PROVE  \E later \in Calls \ {c} : pools[t][later] > 0 /\ later \in released[t]
    BY DEF OnlyReplacedPoolsStay
  <2>1. PICK r \in released[t] : pools[t][r] > 0
    BY DEF StopInv, EntryIsManned
  <2>2. r \in Calls
    BY DEF RegistryTypeOK
  <2> QED
    BY <2>1, <2>2
<1> QED
  BY <1>1, StopCorrect, RegistryTypeCorrect, PTL

=============================================================================
