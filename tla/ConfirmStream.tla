---------------------------- MODULE ConfirmStream ----------------------------
(***************************************************************************)
(* One publisher worker and the broker behind its AMQP connection          *)
(* (requestPublisherWorker and awaitPublishOutcome in publish.go): which   *)
(* confirm and which basic.return the worker attributes to which message.  *)
(*                                                                         *)
(* The broker and the client library amqp091-go are external: the broker   *)
(* returns an unroutable mandatory message before it acks it, the          *)
(* library's reader hands the frames over in order, and a publish that     *)
(* reports an error leaves a dead connection.  A connection that the       *)
(* worker has given up reaches it no more, so only the current one is      *)
(* state.                                                                  *)
(***************************************************************************)
EXTENDS Integers, Sequences, FiniteSets

CONSTANT Messages   \* bound: the number of jobs the worker takes

ASSUME MessagesAssumption == Messages \in Nat

VARIABLES
    pc,        \* where the worker is
    message,   \* number of the job it took last
    link,      \* "none" (ch is nil), "plain" (no confirms) or "confirms"
    alive,     \* the current connection is up
    wire,      \* messages on their way to the broker
    frames,    \* frames on their way back
    confirms,  \* the confirms channel: what the reader has put there
    returns,   \* the returns channel
    fate,      \* what the broker did with the last attempt of each message
    outcome    \* what the worker concluded about each message

connection == <<link, alive, wire, frames, confirms, returns>>
vars == <<pc, message, connection, fate, outcome>>

Numbers == 1..Messages
Fates == {"none", "routed", "unroutable", "refused"}
Frames == [kind : {"ack", "nack", "return"}, of : Numbers]

\* The listeners of a channel are buffered for two frames per worker and more; a
\* buffer that never holds a second frame never blocks the reader of the library.
TypeOK ==
    /\ pc \in {"dial", "idle", "redial", "publish", "retry", "await", "count", "exited"}
    /\ message \in 0..Messages
    /\ link \in {"none", "plain", "confirms"}
    /\ alive \in BOOLEAN
    /\ wire \in Seq(Numbers)
    /\ frames \in Seq(Frames)
    /\ confirms \in Seq(Frames) /\ Len(confirms) <= 1
    /\ returns \in Seq(Frames) /\ Len(returns) <= 1
    /\ fate \in [Numbers -> Fates]
    /\ outcome \in [Numbers -> {"open", "delivered", "failed", "unknown",
                                "skipped", "uncertain"}]

Init ==
    /\ pc = "dial"
    /\ message = 0
    /\ link = "none"
    /\ alive = FALSE
    /\ wire = <<>> /\ frames = <<>> /\ confirms = <<>> /\ returns = <<>>
    /\ fate = [m \in Numbers |-> "none"]
    /\ outcome = [m \in Numbers |-> "open"]

-----------------------------------------------------------------------------
(* Connections.                                                            *)

\* A fresh connection with empty channels, armed when the broker allows it.
Connect ==
    /\ link' \in {"plain", "confirms"}
    /\ alive' = TRUE
    /\ wire' = <<>> /\ frames' = <<>> /\ confirms' = <<>> /\ returns' = <<>>

\* The worker has no connection any more.
Disconnect ==
    /\ link' = "none"
    /\ alive' = FALSE
    /\ wire' = <<>> /\ frames' = <<>> /\ confirms' = <<>> /\ returns' = <<>>

\* The broker, the network or the channel fails; what is under way is lost, what
\* the reader has handed over stays readable.
Drop ==
    /\ alive
    /\ alive' = FALSE
    /\ wire' = <<>> /\ frames' = <<>>
    /\ UNCHANGED <<pc, message, link, confirms, returns, fate, outcome>>

-----------------------------------------------------------------------------
(* The broker and the reader of the client library.                        *)

Acked(m) == [kind |-> "ack", of |-> m]
Nacked(m) == [kind |-> "nack", of |-> m]
Returned(m) == [kind |-> "return", of |-> m]

\* The broker handles the next message; only a channel in confirm mode is answered
\* by an ack or a nack, while a return comes in any mode.
Broker ==
    /\ wire # <<>>
    /\ wire' = Tail(wire)
    /\ LET m == Head(wire)
           answer(f) == IF link = "confirms" THEN <<f>> ELSE <<>>
       IN  \/ /\ fate' = [fate EXCEPT ![m] = "routed"]
              /\ frames' = frames \o answer(Acked(m))
           \/ /\ fate' = [fate EXCEPT ![m] = "unroutable"]
              /\ frames' = Append(frames, Returned(m)) \o answer(Acked(m))
           \/ /\ fate' = [fate EXCEPT ![m] = "refused"]
              /\ frames' = frames \o answer(Nacked(m))
    /\ UNCHANGED <<pc, message, link, alive, confirms, returns, outcome>>

\* The reader hands the next frame to its channel.  Without confirms a goroutine of
\* its own logs the returns (startReturnsLogger).
Reader ==
    /\ frames # <<>>
    /\ frames' = Tail(frames)
    /\ IF Head(frames).kind = "return"
       THEN /\ returns' = IF link = "confirms" THEN Append(returns, Head(frames))
                          ELSE returns
            /\ UNCHANGED confirms
       ELSE /\ confirms' = Append(confirms, Head(frames))
            /\ UNCHANGED returns
    /\ UNCHANGED <<pc, message, link, alive, wire, fate, outcome>>

-----------------------------------------------------------------------------
(* The worker.                                                             *)

Conclude(o) == outcome' = [outcome EXCEPT ![message] = o]

Dial ==
    /\ pc = "dial"
    /\ \/ Connect /\ pc' = "idle"
       \/ pc' = "exited" /\ UNCHANGED connection
    /\ UNCHANGED <<message, fate, outcome>>

TakeJob ==
    /\ pc = "idle"
    /\ message < Messages
    /\ message' = message + 1
    /\ pc' = IF link = "none" THEN "redial" ELSE "publish"
    /\ UNCHANGED <<connection, fate, outcome>>

Redial ==
    /\ pc = "redial"
    /\ \/ Connect /\ pc' = "publish" /\ UNCHANGED outcome
       \/ Conclude("skipped") /\ pc' = "idle" /\ UNCHANGED connection
    /\ UNCHANGED <<message, fate>>

\* (Mutated form: a message is counted as delivered before its confirm is there.)
SentCounted(l) ==
    IF l = "confirms"
    THEN pc' = "await" /\ Conclude("uncertain")
    ELSE pc' = "count" /\ UNCHANGED outcome

\* A message that is on its way; without confirms there is nothing to wait for.
Sent(l) ==
    /\ pc' = IF l = "confirms" THEN "await" ELSE "count"
    /\ UNCHANGED outcome

\* The publish of the library: the message is on the wire, or the connection is dead.
Publish ==
    /\ pc = "publish"
    /\ \/ /\ alive
          /\ wire' = Append(wire, message)
          /\ Sent(link)
          /\ UNCHANGED <<link, alive, frames, confirms, returns>>
       \/ /\ alive' = FALSE
          /\ wire' = <<>> /\ frames' = <<>>
          /\ pc' = "retry"
          /\ UNCHANGED <<link, confirms, returns, outcome>>
    /\ UNCHANGED <<message, fate>>

\* One more attempt of the same message on a fresh connection.
Retry ==
    /\ pc = "retry"
    /\ \/ Disconnect /\ Conclude("skipped") /\ pc' = "idle"
       \/ \E l \in {"plain", "confirms"} :
          /\ link' = l
          /\ frames' = <<>> /\ confirms' = <<>> /\ returns' = <<>>
          /\ \/ alive' = TRUE /\ wire' = <<message>> /\ Sent(l)
             \/ alive' = FALSE /\ wire' = <<>> /\ Conclude("skipped") /\ pc' = "idle"
    /\ UNCHANGED <<message, fate>>

\* Without confirms a message that is on its way counts as delivered.
Count ==
    /\ pc = "count"
    /\ Conclude("uncertain")
    /\ pc' = "idle"
    /\ UNCHANGED <<message, connection, fate>>

\* (Mutated form: an ack does not take the return out of its channel.)
AwaitConfirmPeeking ==
    /\ pc = "await"
    /\ confirms # <<>>
    /\ confirms' = Tail(confirms)
    /\ Conclude(IF Head(confirms).kind = "ack" /\ returns = <<>>
                THEN "delivered" ELSE "failed")
    /\ pc' = "idle"
    /\ UNCHANGED <<message, link, alive, wire, frames, returns, fate>>

\* A confirm is read: a nack is a failure, and so is an ack whose return is already
\* readable; an ack without one means delivered, also when returns is closed.
AwaitConfirm ==
    /\ pc = "await"
    /\ confirms # <<>>
    /\ confirms' = Tail(confirms)
    /\ IF Head(confirms).kind = "ack" /\ returns = <<>>
       THEN Conclude("delivered") /\ UNCHANGED returns
       ELSE /\ Conclude("failed")
            /\ returns' = IF Head(confirms).kind = "ack" THEN Tail(returns) ELSE returns
    /\ pc' = "idle"
    /\ UNCHANGED <<message, link, alive, wire, frames, fate>>

\* (Mutated form: the connection is kept after an unknown outcome.)
AwaitUnknownKeepingLink ==
    /\ pc = "await"
    /\ Conclude("unknown")
    /\ pc' = "idle"
    /\ UNCHANGED <<message, connection, fate>>

\* The confirms channel is closed and empty, or five seconds have passed: the stream
\* can no longer be trusted and the connection is dropped.
AwaitUnknown ==
    /\ pc = "await"
    /\ Conclude("unknown")
    /\ Disconnect
    /\ pc' = "idle"
    /\ UNCHANGED <<message, fate>>

\* (Mutated form: wait for ever, without a timeout or a look at closed confirms.)
WorkerWithoutTimeout ==
    Dial \/ TakeJob \/ Redial \/ Publish \/ Retry \/ Count \/ AwaitConfirm

Worker ==
    \/ Dial \/ TakeJob \/ Redial \/ Publish \/ Retry
    \/ Count \/ AwaitConfirm \/ AwaitUnknown

\* All jobs are done.
Finished == (pc = "exited" \/ (pc = "idle" /\ message = Messages)) /\ UNCHANGED vars

Next == Worker \/ Broker \/ Reader \/ Drop \/ Finished

\* The worker is a goroutine that runs on; the broker and the network owe nothing.
Spec == Init /\ [][Next]_vars /\ WF_vars(Worker)

-----------------------------------------------------------------------------
(* Properties.                                                             *)

\* A confirm is never attributed to the wrong message: a message counted as
\* delivered was routed by the broker, however late acks come and connections drop.
DeliveredWasRouted ==
    \A m \in Numbers : outcome[m] = "delivered" => fate[m] = "routed"

\* A message counted as failed was returned or refused and reached no queue: no
\* stale return of an earlier message spoils a delivered one.
FailedWasNotRouted ==
    \A m \in Numbers : outcome[m] = "failed" =>
        fate[m] \in {"unroutable", "refused"}

\* Before a message is published on a channel with confirms, nothing of an earlier
\* message is left on it: this is what the worker's dropping of the connection
\* after an unknown outcome is for.
StreamInSync ==
    pc \in {"idle", "publish"} /\ link = "confirms" =>
        wire = <<>> /\ frames = <<>> /\ confirms = <<>> /\ returns = <<>>

\* The worker is never stuck with a message: whatever the broker withholds, each job
\* ends, and the worker is back for the next one or done.
EveryJobEnds == \A m \in Numbers : message = m ~> outcome[m] # "open"

\* What the worker adds to the counters of its execution, and whether it has a message
\* that it has counted as a request and not settled.
Requests == IF pc \in {"redial", "publish"} THEN message - 1 ELSE message
Successes == Cardinality({m \in Numbers : outcome[m] \in {"delivered", "uncertain"}})
Unsettled == IF pc \in {"retry", "await", "count"} THEN 1 ELSE 0

Promise ==
    INSTANCE Publishing WITH
        Stops <- {}, Kind <- "periodic", NumberOfMessages <- 0, Excess <- 0,
        SuccessRate <- 0, requests <- Requests, successes <- Successes,
        open <- Unsettled, completed <- FALSE,
        stage <- [s \in {} |-> "called"], verdict <- [s \in {} |-> "none"]

\* The worker keeps the promise of an execution: each job is one request, also when it
\* is published twice, and one success at most, which is a message that this model says
\* was routed or that nobody can confirm.  Frames and the broker are stutters.
WorkerImplementsPublishing == Promise!Spec
=============================================================================
