----------------------------- MODULE Publishing -----------------------------
(***************************************************************************)
(* What an execution of a publish action promises, whatever its goroutines *)
(* do: each message is attempted once and comes to at most one success; a  *)
(* fixed amount is reported as completed once enough was attempted, and is *)
(* hardly exceeded; a Stop judges a number of attempts and a number of     *)
(* successes that it reads later, and when it has seen the end of the pool *)
(* nothing is attempted or settled any more.  PublishRun implements it.    *)
(***************************************************************************)
EXTENDS Integers

CONSTANTS
    Stops,             \* the Stop calls
    Kind,              \* "fixed" (amount) or "periodic" publishing
    NumberOfMessages,  \* of a fixed amount
    Excess,            \* by how many messages a fixed amount may be exceeded
    SuccessRate        \* the required percentage

VARIABLES
    requests,   \* messages attempted
    successes,  \* messages counted as delivered
    open,       \* attempts that have come to nothing yet
    completed,  \* the platform was told that the action is completed
    stage,      \* each Stop has been "called" at most, or has "waited", "read" or "judged"
    verdict     \* what each Stop has found

vars == <<requests, successes, open, completed, stage, verdict>>

Nothing == [joined |-> FALSE, total |-> 0, success |-> 0, failed |-> FALSE]

\* Some Stop has seen the end of the pool.
Final == \E s \in Stops : verdict[s].joined

\* The rate is below the required one; that of no request at all is zero.
Below(success, total) ==
    \/ total > 0 /\ success * 100 < SuccessRate * total
    \/ total = 0 /\ 0 < SuccessRate

Init ==
    /\ requests = 0 /\ successes = 0 /\ open = 0
    /\ completed = FALSE
    /\ stage = [s \in Stops |-> "called"]
    /\ verdict = [s \in Stops |-> Nothing]

\* One message: it was published or is published again, or there was no connection.
Attempt ==
    /\ ~Final
    /\ Kind = "fixed" => requests < NumberOfMessages + Excess
    /\ requests' = requests + 1
    /\ open' \in {open, open + 1}
    /\ UNCHANGED <<successes, completed, stage, verdict>>

\* An open attempt succeeds, or it will not any more.
Settle ==
    /\ open > 0
    /\ open' = open - 1
    /\ successes' \in {successes, successes + 1}
    /\ UNCHANGED <<requests, completed, stage, verdict>>

\* Status reports a fixed amount that was attempted.
Complete ==
    /\ Kind = "fixed" /\ requests >= NumberOfMessages
    /\ completed' = TRUE
    /\ UNCHANGED <<requests, successes, open, stage, verdict>>

Advance(s, from, to) == stage[s] = from /\ stage' = [stage EXCEPT ![s] = to]

\* A Stop has seen the end of the pool, or has waited long enough.
Wait(s) ==
    /\ Advance(s, "called", "waited")
    /\ \E joined \in BOOLEAN :
         /\ joined => open = 0
         /\ verdict' = [verdict EXCEPT ![s].joined = joined]
    /\ UNCHANGED <<requests, successes, open, completed>>

ReadTotal(s) ==
    /\ Advance(s, "waited", "read")
    /\ verdict' = [verdict EXCEPT ![s].total = requests]
    /\ UNCHANGED <<requests, successes, open, completed>>

Judge(s) ==
    /\ Advance(s, "read", "judged")
    /\ verdict' = [verdict EXCEPT ![s].success = successes,
                                  ![s].failed = Below(successes, verdict[s].total)]
    /\ UNCHANGED <<requests, successes, open, completed>>

Next ==
    \/ Attempt \/ Settle \/ Complete
    \/ \E s \in Stops : Wait(s) \/ ReadTotal(s) \/ Judge(s)

Spec == Init /\ [][Next]_vars
=============================================================================
