---------------------------- MODULE PublishPacing ----------------------------
(***************************************************************************)
(* How a publish action paces its messages: the tick interval that the     *)
(* Prepare handlers derive from duration and numberOfMessages, or from     *)
(* messagesPerSecond.  Message number i is due i - 1 intervals after the   *)
(* first one.  Integer division is Go's; the inputs are not negative.      *)
(***************************************************************************)
EXTENDS Integers

CONSTANTS
    Durations,  \* configured durations, in seconds
    Numbers,    \* configured numbers of messages
    Rates,      \* configured messages per second
    Pools       \* configured maxConcurrent

ASSUME DurationsAssumption == Durations \subseteq Nat
ASSUME NumbersAssumption == Numbers \subseteq Nat
ASSUME RatesAssumption == Rates \subseteq Nat
ASSUME PoolsAssumption == Pools \subseteq Nat

VARIABLES
    action,    \* "none", "fixed", "periodic" or "rejected"
    duration,  \* durationMs of the accepted request
    number,    \* state.NumberOfMessages; zero for a periodic action
    rate,      \* messagesPerSecond; zero for a fixed amount
    delay      \* state.DelayBetweenRequestsInMS

pacing == <<action, duration, number, rate, delay>>

PacingTypeOK ==
    /\ action \in {"none", "fixed", "periodic", "rejected"}
    /\ duration \in Nat
    /\ number \in Nat
    /\ rate \in Nat
    /\ delay \in Nat

PacingInit ==
    /\ action = "none"
    /\ duration = 0 /\ number = 0 /\ rate = 0 /\ delay = 0

\* (Mutated form: n intervals instead of n - 1.)
FixedDelayPerMessage(ms, n) == ms \div n

\* getDelayBetweenRequestsInMsFixedAmount
FixedDelay(ms, n) == IF n > 1 THEN ms \div (n - 1) ELSE 1000

\* (Mutated form: the interval is rounded down to tens of milliseconds.)
PeriodicDelayByTens(r) == IF r > 0 THEN (100 \div r) * 10 ELSE 1000

\* getDelayBetweenRequestsInMsPeriodically
PeriodicDelay(r) == IF r > 0 THEN 1000 \div r ELSE 1000

\* (Mutated form: without the default of 100 ms.)
DerivedInterval(given, ms, n) ==
    IF given > 0 THEN given ELSE IF n > 0 THEN ms \div n ELSE 0

\* prepareCommon: an interval of zero is derived anew, and replaced if that is zero.
PositiveInterval(given, ms, n) ==
    LET per == IF ms > 0 /\ n > 0 THEN ms \div n ELSE 0
    IN  IF given > 0 THEN given ELSE IF per > 0 THEN per ELSE 100

Reject ==
    /\ action' = "rejected"
    /\ UNCHANGED <<duration, number, rate, delay>>

\* prepareFixedAmount and prepareCommon
PrepareFixed(s, n, p) ==
    /\ action = "none"
    /\ IF s = 0 \/ n = 0 \/ p = 0
       THEN Reject
       ELSE /\ action' = "fixed"
            /\ duration' = s * 1000
            /\ number' = n
            /\ delay' = PositiveInterval(FixedDelay(s * 1000, n), s * 1000, n)
            /\ UNCHANGED rate

\* Prepare of the periodic actions and prepareCommon; no check of the duration.
PreparePeriodic(s, r, p) ==
    /\ action = "none"
    /\ IF p = 0
       THEN Reject
       ELSE /\ action' = "periodic"
            /\ duration' = s * 1000
            /\ rate' = r
            /\ delay' = PositiveInterval(PeriodicDelay(r), s * 1000, 0)
            /\ UNCHANGED number

PacingNext ==
    \/ \E s \in Durations, n \in Numbers, p \in Pools : PrepareFixed(s, n, p)
    \/ \E s \in Durations, r \in Rates, p \in Pools : PreparePeriodic(s, r, p)

PacingSpec == PacingInit /\ [][PacingNext]_pacing

-----------------------------------------------------------------------------
(* Properties.                                                             *)

\* An accepted action has a positive interval: time.NewTicker in start panics on
\* any other.
DelayPositive == action \in {"fixed", "periodic"} => delay >= 1

LastDue == (number - 1) * delay

\* A fixed amount that leaves a millisecond per message is spread over the duration:
\* the last message is due within it, and one millisecond more per message would
\* be too late.
SpreadOverDuration ==
    action = "fixed" /\ number > 1 /\ number - 1 <= duration =>
        /\ LastDue <= duration
        /\ (number - 1) * (delay + 1) > duration

\* A periodic action makes at least its rate, and with an interval longer by one
\* millisecond it would fall below it, for every rate up to one per millisecond.
KeepsRate ==
    action = "periodic" /\ rate \in 1..1000 =>
        /\ rate * delay <= 1000
        /\ rate * (delay + 1) > 1000
=============================================================================
