----------------------------- MODULE SuccessRate -----------------------------
(***************************************************************************)
(* The arithmetic of a publish action from Prepare (PublishPacing) to the  *)
(* comparison with which stop in extrabbitmq/publish.go concludes: the     *)
(* success rate is computed in float64 as                                  *)
(*     float64(successes) / float64(total) * 100                           *)
(* and compared with the required percentage.                              *)
(*                                                                         *)
(* Each operation rounds to the nearest float64, of two as near to the one *)
(* whose significand is even.  A float64 is written here as a multiple of  *)
(* 1 / (p * Unit), with p the power of two for which the quotient lies in  *)
(* 1 / p .. 2 / p, so that all numbers are integers:                       *)
(*     successes / total   is  Quotient / (p * Unit)                       *)
(*     that times 100      is  Product / (p * Unit)                        *)
(***************************************************************************)
EXTENDS PublishPacing

CONSTANTS
    Totals,  \* numbers of requests
    Unit     \* 2^52, for the 53 bits of a significand; TLC takes 2^12, which has the
             \* same remainders and a product that fits its integers

ASSUME UnitAssumption == Unit \in Nat /\ Unit % 128 = 0 /\ Unit % 100 = 96
ASSUME TotalsAssumption == \A t \in Totals : t \in Nat /\ t < 1073741824 /\ 64 * t <= Unit

VARIABLES
    total,      \* requestCounter
    successes,  \* requestSuccessCounter
    required,   \* state.SuccessRate
    result      \* "open", "failed" or "passed"

measured == <<total, successes, required, result>>

Percentages == 0..100

\* 2^0 to 2^30
PowersOfTwo ==
    {1, 2, 4, 8, 16, 32, 64, 128, 256, 512, 1024, 2048, 4096, 8192, 16384, 32768, 65536,
     131072, 262144, 524288, 1048576, 2097152, 4194304, 8388608, 16777216, 33554432,
     67108864, 134217728, 268435456, 536870912, 1073741824}

\* The power of two that brings s / t to between one and two; a worker that counts
\* between the two reads makes the quotient greater than one, never more than two.
Scale(s, t) == CHOOSE p \in PowersOfTwo : t <= s * p /\ (p = 1 \/ s * p < 2 * t)

\* n / d, rounded to the nearest integer, and to the even one of two.
Nearest(n, d) ==
    LET q == n \div d
        twice == 2 * (n % d)
    IN  IF twice < d \/ (twice = d /\ q % 2 = 0) THEN q ELSE q + 1

\* (Mutated form: the integers are divided before they are converted.)
QuotientOfIntegers(s, t) == (s \div t) * Scale(s, t) * Unit

\* float64(s) / float64(t)
Quotient(s, t) == Nearest(s * Scale(s, t) * Unit, t)

\* The quotient m times 100: a product of 64 to 128 units has six bits too many for the
\* significand, a greater one seven.
Product(m) ==
    LET n == 100 * m
    IN  IF n < 128 * Unit THEN 64 * Nearest(n, 64) ELSE 128 * Nearest(n, 128)

\* successRate < float64(state.SuccessRate); the rate of no request at all is zero.
RateBelow(s, t, r) ==
    IF t = 0 \/ s = 0 THEN r > 0
    ELSE Product(Quotient(s, t)) < r * (Scale(s, t) * Unit)

VerdictInit ==
    /\ PacingInit
    /\ total = 0 /\ successes = 0 /\ required = 0
    /\ result = "open"

\* A handler of Prepare; the execution itself is PublishRun.
PrepareAny == PacingNext /\ UNCHANGED measured

\* stop reads the counters and concludes.  A worker may count between the two reads.
\* The counters are any, since the pacing has no part in them: one accepted request
\* stands for all.
Conclude ==
    /\ action = "fixed" /\ duration = 1000 /\ number = 1 /\ result = "open"
    /\ total' \in Totals
    /\ successes' \in 0..(total' + 1)
    /\ required' \in Percentages
    /\ result' = IF RateBelow(successes', total', required') THEN "failed" ELSE "passed"
    /\ UNCHANGED pacing

VerdictNext == PrepareAny \/ Conclude

VerdictSpec == VerdictInit /\ [][VerdictNext]_<<pacing, measured>>

-----------------------------------------------------------------------------
(* Properties.                                                             *)

Share == 100 * successes
Demand == required * total

\* "If the success rate drops below this, the experiment fails": the two roundings never
\* turn a rate that is below the required one into a pass, nor one that is above it into
\* a failure, however close they are.  What becomes of a rate that is exactly the required
\* one is not part of it.
VerdictMatchesFraction ==
    result # "open" /\ total > 0 =>
        /\ Share < Demand => result = "failed"
        /\ Share > Demand => result = "passed"
=============================================================================
