SPECIFICATION VerdictSpec
CONSTANTS
    Durations <- MCDurations
    Numbers <- MCNumbers
    Rates <- MCRates
    Pools = {0, 1}
    Totals <- MCTotals
    Unit <- MCUnit
\* An execution is prepared once, and judged once.
CHECK_DEADLOCK FALSE
INVARIANTS
    DelayPositive
    SpreadOverDuration
    KeepsRate
    VerdictMatchesFraction
