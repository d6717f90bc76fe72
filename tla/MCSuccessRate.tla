---------------------------- MODULE MCSuccessRate ----------------------------
(* Inputs of Prepare around the boundaries: none, one, few messages, and about one
   message per millisecond of the shortest durations.  Verdicts for every count of
   successes and every percentage, up to the greatest total for which the roundings of a
   significand of 13 bits are as far below a hundredth of a request as those of 53 bits. *)
EXTENDS SuccessRate

MCDurations == 0..3
MCNumbers == 0..20 \cup 995..1005 \cup 1998..2004 \cup {5000}
MCRates == 0..12 \cup {333, 999, 1000, 1001, 2000}
MCTotals == 0..64
MCUnit == 2 ^ 12
=============================================================================
