------------------------- MODULE ConfirmStreamProofs -------------------------
(***************************************************************************)
(* The attribution of confirms and returns in ConfirmStream for any number *)
(* of messages: whatever is lost, late or repeated, the worker never reads *)
(* the answer to another message.                                          *)
(***************************************************************************)
EXTENDS ConfirmStream, SequenceTheorems, FiniteSetTheorems, TLAPS

\* Where the messages and the frames of the connection are.
Stage(w, f, c, r) == wire = w /\ frames = f /\ confirms = c /\ returns = r

Quiet == Stage(<<>>, <<>>, <<>>, <<>>)

\* The message m is under way: it has not reached the broker or is lost, or the broker
\* has answered it and of its frames a first part has been handed over; the rest is on
\* its way or lost with the connection.
UnderWay(m) ==
    \/ Stage(<<m>>, <<>>, <<>>, <<>>)
    \/ Quiet
    \/ /\ fate[m] = "routed"
       /\ \/ Stage(<<>>, <<Acked(m)>>, <<>>, <<>>)
          \/ Stage(<<>>, <<>>, <<Acked(m)>>, <<>>)
    \/ /\ fate[m] = "unroutable"
       /\ \/ Stage(<<>>, <<Returned(m), Acked(m)>>, <<>>, <<>>)
          \/ Stage(<<>>, <<Acked(m)>>, <<>>, <<Returned(m)>>)
          \/ Stage(<<>>, <<>>, <<Acked(m)>>, <<Returned(m)>>)
          \/ Stage(<<>>, <<>>, <<>>, <<Returned(m)>>)
    \/ /\ fate[m] = "refused"
       /\ \/ Stage(<<>>, <<Nacked(m)>>, <<>>, <<>>)
          \/ Stage(<<>>, <<>>, <<Nacked(m)>>, <<>>)

\* What the connection holds: nothing where there is none; only the message that the
\* worker waits for where confirms are on; messages and returns that nobody waits for
\* where they are not.
StreamInv ==
    /\ link = "none" => Quiet /\ pc \in {"dial", "exited", "idle", "redial"}
    /\ link = "plain" =>
         /\ confirms = <<>> /\ returns = <<>>
         /\ \A i \in 1..Len(frames) : frames[i].kind = "return"
         /\ pc \in {"idle", "publish", "retry", "count"}
    /\ link = "confirms" =>
         IF pc = "await" THEN UnderWay(message)
         ELSE Quiet /\ pc \in {"idle", "publish", "retry"}

\* Which messages have an outcome: none that the worker has not concluded, and none that
\* was settled is still on the wire.
OutcomeInv ==
    /\ pc \in {"redial", "publish", "retry", "await", "count"} =>
         message >= 1 /\ outcome[message] = "open"
    /\ \A m \in Numbers : m > message => outcome[m] = "open"
    /\ \A i \in 1..Len(wire) : outcome[wire[i]] \in {"open", "uncertain"}


-----------------------------------------------------------------------------
(* Short sequences.                                                        *)

LEMMA OneFrame ==
    ASSUME NEW a
    PROVE  /\ <<a>> # <<>> /\ Len(<<a>>) = 1 /\ <<a>>[1] = a
           /\ Head(<<a>>) = a /\ Tail(<<a>>) = <<>>
           /\ Append(<<>>, a) = <<a>> /\ <<>> \o <<a>> = <<a>>
OBVIOUS

LEMMA TwoFrames ==
    ASSUME NEW a, NEW b
    PROVE  /\ <<a, b>> # <<>>
           /\ Head(<<a, b>>) = a /\ Tail(<<a, b>>) = <<b>>
           /\ Append(<<>>, a) \o <<b>> = <<a, b>>
<1>1. <<a, b>> # <<>> /\ Head(<<a, b>>) = a /\ Tail(<<a, b>>) = <<b>>
  OBVIOUS
<1>2. Append(<<a>>, b) = <<a, b>>
  <2>1. <<a>> \in Seq({a, b}) /\ <<a, b>> \in Seq({a, b}) /\ b \in {a, b}
    OBVIOUS
  <2>2. /\ Append(<<a>>, b) \in Seq({a, b}) /\ Len(Append(<<a>>, b)) = 2
        /\ Append(<<a>>, b)[1] = a /\ Append(<<a>>, b)[2] = b
    BY <2>1, AppendProperties
  <2>3. Len(<<a, b>>) = 2 /\ <<a, b>>[1] = a /\ <<a, b>>[2] = b
    OBVIOUS
  <2>4. \A i \in 1..Len(Append(<<a>>, b)) : Append(<<a>>, b)[i] = <<a, b>>[i]
    BY <2>2, <2>3
  <2> HIDE <2>3
  <2> QED
    BY <2>1, <2>2, <2>3, <2>4, SeqEqual, Zenon
<1>3. <<a>> \o <<b>> = Append(<<a>>, b)
  OBVIOUS
<1> QED
  BY <1>1, <1>2, <1>3, OneFrame

LEMMA RestOfSeq ==
    ASSUME NEW S, NEW s \in Seq(S), s # <<>>
    PROVE  /\ Head(s) \in S /\ Tail(s) \in Seq(S)
           /\ Head(s) = s[1] /\ 1 \in 1..Len(s)
           /\ \A i \in 1..Len(Tail(s)) : i + 1 \in 1..Len(s) /\ Tail(s)[i] = s[i + 1]
OBVIOUS

LEMMA LongerSeq ==
    ASSUME NEW S, NEW s \in Seq(S), NEW a \in S
    PROVE  /\ Append(s, a) \in Seq(S) /\ s \o <<a>> \in Seq(S) /\ s \o <<>> = s
           /\ s \o <<a>> = Append(s, a)
           /\ Len(s) \in Nat /\ Len(Append(s, a)) = Len(s) + 1
           /\ \A i \in 1..Len(s) : Append(s, a)[i] = s[i]
           /\ Append(s, a)[Len(s) + 1] = a
OBVIOUS

-----------------------------------------------------------------------------
(* Types.                                                                  *)

LEMMA FramesOfNumber ==
    ASSUME NEW m \in Numbers
    PROVE  Acked(m) \in Frames /\ Nacked(m) \in Frames /\ Returned(m) \in Frames
BY DEF Acked, Nacked, Returned, Frames

-----------------------------------------------------------------------------
(* The connection.                                                         *)

\* A fresh connection holds nothing, and so does none.
LEMMA FreshIsQuiet ==
    ASSUME Connect \/ Disconnect
    PROVE  Quiet'
BY DEF Connect, Disconnect, Quiet, Stage

\* The broker's answer to the message that is waited for.
LEMMA BrokerAnswers ==
    ASSUME TypeOK, link = "confirms", pc = "await", UnderWay(message), Broker
    PROVE  UnderWay(message)'
<1>1. wire = <<message>> /\ frames = <<>> /\ confirms = <<>> /\ returns = <<>>
  BY DEF Broker, UnderWay, Quiet, Stage
<1>2. message \in Numbers
  <2>1. wire[1] = message /\ Len(wire) = 1 /\ wire \in Seq(Numbers)
    BY <1>1, OneFrame DEF TypeOK
  <2> QED
    BY <2>1
<1>3. Head(wire) = message /\ wire' = <<>>
  BY <1>1, OneFrame DEF Broker
<1>4. UNCHANGED <<message, link, confirms, returns>>
  BY DEF Broker
<1>5. CASE fate' = [fate EXCEPT ![message] = "routed"] /\ frames' = frames \o <<Acked(message)>>
  <2>1. fate'[message] = "routed" /\ frames' = <<Acked(message)>>
    BY <1>1, <1>2, <1>5, OneFrame DEF TypeOK
  <2> QED
    BY <1>1, <1>3, <1>4, <2>1 DEF UnderWay, Stage, Acked
<1>6. CASE /\ fate' = [fate EXCEPT ![message] = "unroutable"]
           /\ frames' = Append(frames, Returned(message)) \o <<Acked(message)>>
  <2>1. fate'[message] = "unroutable" /\ frames' = <<Returned(message), Acked(message)>>
    BY <1>1, <1>2, <1>6, TwoFrames DEF TypeOK
  <2> QED
    BY <1>1, <1>3, <1>4, <2>1 DEF UnderWay, Stage, Acked, Returned
<1>7. CASE fate' = [fate EXCEPT ![message] = "refused"] /\ frames' = frames \o <<Nacked(message)>>
  <2>1. fate'[message] = "refused" /\ frames' = <<Nacked(message)>>
    BY <1>1, <1>2, <1>7, OneFrame DEF TypeOK
  <2> QED
    BY <1>1, <1>3, <1>4, <2>1 DEF UnderWay, Stage, Nacked
<1> QED
  BY <1>3, <1>5, <1>6, <1>7 DEF Broker

\* The reader hands over one frame of the message that is waited for.
LEMMA ReaderHandsOver ==
    ASSUME link = "confirms", UnderWay(message), Reader
    PROVE  UnderWay(message)'
<1>1. UNCHANGED <<message, link, wire, fate>>
  BY DEF Reader
<1> DEFINE m == message
<1>2. CASE fate[m] = "routed" /\ Stage(<<>>, <<Acked(m)>>, <<>>, <<>>)
  <2>1. Head(frames) = Acked(m) /\ frames' = <<>> /\ Acked(m).kind = "ack"
    BY <1>2, OneFrame DEF Stage, Reader, Acked
  <2>2. confirms' = <<Acked(m)>> /\ returns' = <<>>
    BY <1>2, <2>1, OneFrame DEF Stage, Reader
  <2> QED
    BY <1>1, <1>2, <2>1, <2>2 DEF UnderWay, Stage, Acked
<1>3. CASE fate[m] = "refused" /\ Stage(<<>>, <<Nacked(m)>>, <<>>, <<>>)
  <2>1. Head(frames) = Nacked(m) /\ frames' = <<>> /\ Nacked(m).kind = "nack"
    BY <1>3, OneFrame DEF Stage, Reader, Nacked
  <2>2. confirms' = <<Nacked(m)>> /\ returns' = <<>>
    BY <1>3, <2>1, OneFrame DEF Stage, Reader
  <2> QED
    BY <1>1, <1>3, <2>1, <2>2 DEF UnderWay, Stage, Nacked
<1>4. CASE fate[m] = "unroutable" /\ Stage(<<>>, <<Returned(m), Acked(m)>>, <<>>, <<>>)
  <2>1. Head(frames) = Returned(m) /\ frames' = <<Acked(m)>> /\ Returned(m).kind = "return"
    BY <1>4, TwoFrames DEF Stage, Reader, Returned
  <2>2. returns' = <<Returned(m)>> /\ confirms' = <<>>
    BY <1>4, <2>1, OneFrame DEF Stage, Reader
  <2> QED
    BY <1>1, <1>4, <2>1, <2>2 DEF UnderWay, Stage, Acked, Returned
<1>5. CASE fate[m] = "unroutable" /\ Stage(<<>>, <<Acked(m)>>, <<>>, <<Returned(m)>>)
  <2>1. Head(frames) = Acked(m) /\ frames' = <<>> /\ Acked(m).kind = "ack"
    BY <1>5, OneFrame DEF Stage, Reader, Acked
  <2>2. confirms' = <<Acked(m)>> /\ returns' = <<Returned(m)>>
    BY <1>5, <2>1, OneFrame DEF Stage, Reader
  <2> QED
    BY <1>1, <1>5, <2>1, <2>2 DEF UnderWay, Stage, Acked, Returned
<1> QED
  BY <1>2, <1>3, <1>4, <1>5 DEF UnderWay, Quiet, Stage, Reader

\* A lost connection keeps what has been handed over.
LEMMA DropLoses ==
    ASSUME UnderWay(message), Drop
    PROVE  UnderWay(message)'
BY DEF UnderWay, Quiet, Stage, Drop, Acked, Nacked, Returned

\* Without confirms only returns are on their way, and nobody keeps them.
LEMMA PlainStep ==
    ASSUME TypeOK, StreamInv, link = "plain", Broker \/ Reader \/ Drop
    PROVE  StreamInv'
<1>1. frames \in Seq(Frames) /\ \A i \in 1..Len(frames) : frames[i].kind = "return"
  BY DEF TypeOK, StreamInv
<1>2. UNCHANGED <<pc, link>>
  BY DEF Broker, Reader, Drop
<1>3. CASE Broker
  <2>1. Head(wire) \in Numbers
    BY <1>3, RestOfSeq DEF Broker, TypeOK
  <2>2. Returned(Head(wire)) \in Frames /\ Returned(Head(wire)).kind = "return"
    BY <2>1, FramesOfNumber DEF Returned
  <2>3. frames' \in {frames \o <<>>, Append(frames, Returned(Head(wire))) \o <<>>}
    BY <1>3 DEF Broker
  <2>4. frames' \in {frames, Append(frames, Returned(Head(wire)))}
    BY <1>1, <2>2, <2>3, LongerSeq
  <2>5. \A i \in 1..Len(frames') : frames'[i].kind = "return"
    BY <1>1, <2>2, <2>4, LongerSeq
  <2> QED
    BY <1>2, <1>3, <2>5 DEF Broker, StreamInv
<1>4. CASE Reader
  <2>1. Head(frames).kind = "return"
    BY <1>1, <1>4, RestOfSeq DEF Reader
  <2>2. \A i \in 1..Len(frames') : frames'[i].kind = "return"
    BY <1>1, <1>4, RestOfSeq DEF Reader
  <2> QED
    BY <1>2, <1>4, <2>1, <2>2 DEF Reader, StreamInv
<1>5. CASE Drop
  BY <1>2, <1>5 DEF Drop, StreamInv
<1> QED
  BY <1>3, <1>4, <1>5

\* The stream holds nothing but what the worker waits for, whatever happens.
LEMMA StreamStep == TypeOK /\ StreamInv /\ [Next]_vars => StreamInv'
<1> SUFFICES ASSUME TypeOK, StreamInv, [Next]_vars PROVE StreamInv'
  OBVIOUS
<1>1. link \in {"none", "plain", "confirms"}
  BY DEF TypeOK
<1>2. CASE Broker \/ Reader \/ Drop
  <2>1. UNCHANGED <<pc, message, link>>
    BY <1>2 DEF Broker, Reader, Drop
  <2>2. CASE link = "none"
    BY <1>2, <2>1, <2>2 DEF StreamInv, Quiet, Stage, Broker, Reader, Drop
  <2>3. CASE link = "plain"
    BY <1>2, <2>3, PlainStep
  <2>4. CASE link = "confirms" /\ pc = "await"
    <3>1. UnderWay(message)
      BY <2>4 DEF StreamInv
    <3>2. UnderWay(message)'
      BY <1>2, <2>4, <3>1, BrokerAnswers, ReaderHandsOver, DropLoses
    <3> QED
      BY <2>1, <2>4, <3>2 DEF StreamInv
  <2>5. CASE link = "confirms" /\ pc # "await"
    BY <1>2, <2>1, <2>5 DEF StreamInv, Quiet, Stage, Broker, Reader, Drop
  <2> QED
    BY <1>1, <2>2, <2>3, <2>4, <2>5
<1>3. CASE Dial
  BY <1>3, FreshIsQuiet DEF Dial, Connect, StreamInv, Quiet, Stage, connection
<1>4. CASE TakeJob
  BY <1>1, <1>4 DEF TakeJob, StreamInv, Quiet, Stage, connection
<1>5. CASE Redial
  BY <1>5, FreshIsQuiet DEF Redial, Connect, StreamInv, Quiet, Stage, connection
<1>6. CASE Publish
  <2>1. link \in {"plain", "confirms"}
    BY <1>1, <1>6 DEF Publish, StreamInv
  <2>2. CASE UNCHANGED <<link, alive, frames, confirms, returns>>
             /\ wire' = Append(wire, message) /\ Sent(link)
    <3>1. CASE link = "plain"
      BY <1>6, <2>2, <3>1 DEF Publish, StreamInv, Sent, UnderWay, Stage
    <3>2. CASE link = "confirms"
      <4>1. Quiet
        BY <1>6, <3>2 DEF Publish, StreamInv
      <4>2. wire' = <<message>>
        BY <2>2, <4>1, OneFrame DEF Quiet, Stage
      <4>3. UNCHANGED message
        BY <1>6 DEF Publish
      <4>4. UnderWay(message)'
        BY <2>2, <4>1, <4>2, <4>3 DEF UnderWay, Quiet, Stage
      <4> QED
        BY <2>2, <3>2, <4>4 DEF Sent, StreamInv
    <3> QED
      BY <2>1, <3>1, <3>2
  <2>3. CASE /\ wire' = <<>> /\ frames' = <<>> /\ pc' = "retry"
             /\ UNCHANGED <<link, confirms, returns>>
    BY <1>6, <2>1, <2>3 DEF Publish, StreamInv, Quiet, Stage
  <2> QED
    BY <1>6, <2>2, <2>3 DEF Publish
<1>7. CASE Retry
  BY <1>7, FreshIsQuiet DEF Retry, Disconnect, StreamInv, Sent, UnderWay, Quiet, Stage
<1>8. CASE AwaitConfirm
  <2>1. link = "confirms" /\ UnderWay(message)
    BY <1>1, <1>8 DEF AwaitConfirm, StreamInv
  <2>2. /\ wire = <<>> /\ frames = <<>>
        /\ \/ confirms = <<Acked(message)>> /\ returns \in {<<>>, <<Returned(message)>>}
           \/ confirms = <<Nacked(message)>> /\ returns = <<>>
    BY <1>8, <2>1 DEF AwaitConfirm, UnderWay, Quiet, Stage
  <2>3. Acked(message).kind = "ack" /\ Nacked(message).kind = "nack"
    BY DEF Acked, Nacked
  <2>4. confirms' = <<>>
    BY <1>8, <2>2, OneFrame DEF AwaitConfirm
  <2>5. returns' = <<>>
    <3>1. CASE confirms = <<Nacked(message)>>
      BY <1>8, <2>2, <2>3, <3>1, OneFrame DEF AwaitConfirm
    <3>2. CASE confirms = <<Acked(message)>>
      <4>1. Head(confirms).kind = "ack"
        BY <2>3, <3>2, OneFrame
      <4> QED
        BY <1>8, <2>2, <3>2, <4>1, <2>3, OneFrame DEF AwaitConfirm
    <3> QED
      BY <2>2, <3>1, <3>2
  <2>6. Quiet' /\ link' = "confirms" /\ pc' = "idle"
    BY <1>8, <2>1, <2>2, <2>4, <2>5 DEF AwaitConfirm, Quiet, Stage
  <2> QED
    BY <2>6 DEF StreamInv
<1>9. CASE AwaitUnknown
  BY <1>9, FreshIsQuiet DEF AwaitUnknown, Disconnect, StreamInv
<1>10. CASE Count
  BY <1>1, <1>10 DEF Count, connection, StreamInv, Quiet, Stage
<1>11. CASE UNCHANGED vars
  BY <1>11 DEF vars, connection, StreamInv, UnderWay, Quiet, Stage, Acked, Nacked, Returned
<1> QED
  BY <1>2, <1>3, <1>4, <1>5, <1>6, <1>7, <1>8, <1>9, <1>10, <1>11 DEF Next, Worker, Finished

-----------------------------------------------------------------------------
(* Types.                                                                  *)

\* The number of the message that the worker is busy with.
LEMMA BusyWithMessage ==
    ASSUME TypeOK, OutcomeInv, pc \in {"redial", "publish", "retry", "await", "count"}
    PROVE  message \in Numbers
BY MessagesAssumption DEF TypeOK, OutcomeInv, Numbers

\* A conclusion is an outcome of the message alone.
LEMMA ConcludeType ==
    ASSUME TypeOK, message \in Numbers,
           NEW o \in {"delivered", "failed", "unknown", "skipped", "uncertain"}, Conclude(o)
    PROVE  /\ outcome' \in [Numbers -> {"open", "delivered", "failed", "unknown",
                                        "skipped", "uncertain"}]
           /\ outcome'[message] = o
           /\ \A m \in Numbers : m # message => outcome'[m] = outcome[m]
BY DEF TypeOK, Conclude

\* What is written on the connection has its types.
ConnectionType ==
    /\ wire \in Seq(Numbers)
    /\ frames \in Seq(Frames)
    /\ confirms \in Seq(Frames)
    /\ returns \in Seq(Frames)

Types ==
    /\ pc \in {"dial", "idle", "redial", "publish", "retry", "await", "count", "exited"}
    /\ message \in 0..Messages
    /\ link \in {"none", "plain", "confirms"}
    /\ alive \in BOOLEAN
    /\ ConnectionType
    /\ fate \in [Numbers -> Fates]
    /\ outcome \in [Numbers -> {"open", "delivered", "failed", "unknown",
                                "skipped", "uncertain"}]

\* At most one frame of each kind is readable at a time.
LEMMA ListenersShort == Types /\ StreamInv => TypeOK
<1> SUFFICES ASSUME Types, StreamInv PROVE TypeOK
  OBVIOUS
<1>1. confirms \in {<<>>, <<Acked(message)>>, <<Nacked(message)>>}
  BY DEF Types, StreamInv, UnderWay, Quiet, Stage
<1>2. returns \in {<<>>, <<Returned(message)>>}
  BY DEF Types, StreamInv, UnderWay, Quiet, Stage
<1>3. Len(confirms) <= 1
  BY <1>1, OneFrame
<1>4. Len(returns) <= 1
  BY <1>2, OneFrame
<1> QED
  BY <1>3, <1>4 DEF Types, ConnectionType, TypeOK

LEMMA TypeStep ==
    TypeOK /\ StreamInv /\ OutcomeInv /\ [Next]_vars => Types'
<1> SUFFICES ASSUME TypeOK, StreamInv, OutcomeInv, [Next]_vars PROVE Types'
  OBVIOUS
<1>1. StreamInv'
  BY StreamStep
<1>2. Types /\ ConnectionType
  BY DEF TypeOK, Types, ConnectionType
<1>3. <<>> \in Seq(Numbers) /\ <<>> \in Seq(Frames)
  OBVIOUS
<1>4. CASE Broker
  <2>1. Head(wire) \in Numbers /\ Tail(wire) \in Seq(Numbers)
    BY <1>2, <1>4, RestOfSeq DEF Broker, ConnectionType
  <2> DEFINE m == Head(wire)
  <2>2. /\ frames \in Seq(Frames)
        /\ Acked(m) \in Frames /\ Nacked(m) \in Frames /\ Returned(m) \in Frames
    BY <1>2, <2>1, FramesOfNumber DEF ConnectionType
  <2> HIDE DEF m
  <2>3. /\ frames \o <<>> \in Seq(Frames)
        /\ frames \o <<Acked(m)>> \in Seq(Frames)
        /\ frames \o <<Nacked(m)>> \in Seq(Frames)
        /\ Append(frames, Returned(m)) \o <<>> \in Seq(Frames)
        /\ Append(frames, Returned(m)) \o <<Acked(m)>> \in Seq(Frames)
    BY <2>2, LongerSeq
  <2>4. frames' \in Seq(Frames)
    <3>1. frames' \in {frames \o <<>>, frames \o <<Acked(m)>>, frames \o <<Nacked(m)>>,
                       Append(frames, Returned(m)) \o <<>>,
                       Append(frames, Returned(m)) \o <<Acked(m)>>}
      BY <1>4 DEF Broker, m
    <3> QED
      BY <2>3, <3>1
  <2>5. fate' \in [Numbers -> Fates]
    BY <1>4 DEF Broker, TypeOK, Fates
  <2>6. /\ wire' \in Seq(Numbers)
        /\ UNCHANGED <<pc, message, link, alive, confirms, returns, outcome>>
    BY <1>4, <2>1 DEF Broker
  <2> QED
    BY <1>2, <2>4, <2>5, <2>6 DEF Types, ConnectionType
<1>5. CASE Reader
  <2>1. Head(frames) \in Frames /\ Tail(frames) \in Seq(Frames)
    BY <1>2, <1>5, RestOfSeq DEF Reader, ConnectionType
  <2>2. /\ confirms' \in {confirms, Append(confirms, Head(frames))}
        /\ returns' \in {returns, Append(returns, Head(frames))}
        /\ wire' = wire /\ frames' = Tail(frames)
    BY <1>5 DEF Reader
  <2>3. \A q \in Seq(Frames) : Append(q, Head(frames)) \in Seq(Frames)
    BY <2>1, LongerSeq
  <2>4. ConnectionType'
    BY <1>2, <2>1, <2>2, <2>3 DEF ConnectionType
  <2> QED
    BY <1>2, <1>5, <2>4 DEF Reader, Types
<1>6. CASE Drop
  BY <1>2, <1>3, <1>6 DEF Drop, Types, ConnectionType
<1>7. CASE Dial
  BY <1>2, <1>3, <1>7 DEF Dial, Connect, connection, Types, ConnectionType
<1>8. CASE TakeJob
  BY <1>2, <1>8, MessagesAssumption DEF TakeJob, connection, Types, ConnectionType
<1>9. CASE Redial
  BY <1>2, <1>3, <1>9, BusyWithMessage, ConcludeType DEF Redial, Connect, connection, Types, ConnectionType
<1>10. CASE Publish
  <2>1. message \in Numbers
    BY <1>10, BusyWithMessage DEF Publish
  <2>2. Append(wire, message) \in Seq(Numbers)
    BY <1>2, <2>1, LongerSeq DEF ConnectionType
  <2> QED
    BY <1>2, <1>3, <1>10, <2>1, <2>2, ConcludeType DEF Publish, Sent, Types, ConnectionType
<1>11. CASE Retry
  <2>1. message \in Numbers
    BY <1>11, BusyWithMessage DEF Retry
  <2>2. <<message>> \in Seq(Numbers)
    BY <2>1
  <2> QED
    BY <1>2, <1>3, <1>11, <2>1, <2>2, ConcludeType DEF Retry, Disconnect, Sent, Types, ConnectionType
<1>12. CASE AwaitConfirm
  <2>1. message \in Numbers
    BY <1>12, BusyWithMessage DEF AwaitConfirm
  <2>2. link = "confirms" /\ pc' = "idle" /\ UNCHANGED link
    BY <1>12 DEF AwaitConfirm, TypeOK, StreamInv
  <2>3. confirms' = <<>> /\ returns' = <<>>
    BY <1>1, <2>2 DEF StreamInv, Quiet, Stage
  <2> QED
    BY <1>2, <1>3, <1>12, <2>1, <2>3, ConcludeType DEF AwaitConfirm, Types, ConnectionType
<1>13. CASE AwaitUnknown
  BY <1>2, <1>3, <1>13, BusyWithMessage, ConcludeType DEF AwaitUnknown, Disconnect, Types, ConnectionType
<1>14. CASE Count
  BY <1>2, <1>14, BusyWithMessage, ConcludeType DEF Count, connection, Types, ConnectionType
<1>15. CASE UNCHANGED vars
  BY <1>2, <1>15 DEF vars, connection, Types, ConnectionType
<1> QED
  BY <1>4, <1>5, <1>6, <1>7, <1>8, <1>9, <1>10, <1>11, <1>12, <1>13, <1>14, <1>15
     DEF Next, Worker, Finished

-----------------------------------------------------------------------------
(* Outcomes.                                                               *)

\* What the outcomes say of the fates, and the bookkeeping that this rests on.
Told == OutcomeInv /\ DeliveredWasRouted /\ FailedWasNotRouted

\* A conclusion that says nothing of the message's fate.
LEMMA ConcludeSafely ==
    ASSUME TypeOK, Told, message \in Numbers,
           NEW o \in {"unknown", "skipped", "uncertain"}, Conclude(o),
           pc' = "idle", UNCHANGED <<message, fate>>,
           o = "uncertain" \/ wire' = <<>>,
           \A i \in 1..Len(wire') : outcome[wire'[i]] \in {"open", "uncertain"},
           wire' \in Seq(Numbers)
    PROVE  Told'
<1>1. /\ outcome'[message] = o
      /\ \A m \in Numbers : m # message => outcome'[m] = outcome[m]
  BY ConcludeType
<1>2. \A i \in 1..Len(wire') : outcome'[wire'[i]] \in {"open", "uncertain"}
  <2>1. CASE wire' = <<>>
    BY <2>1
  <2>2. CASE o = "uncertain"
    BY <1>1, <2>2
  <2> QED
    BY <2>1, <2>2
<1>3. OutcomeInv'
  <2>1. \A m \in Numbers : m > message' => outcome'[m] = "open"
    BY <1>1 DEF Told, OutcomeInv, TypeOK, Numbers
  <2> QED
    BY <1>2, <2>1 DEF OutcomeInv
<1>4. DeliveredWasRouted' /\ FailedWasNotRouted'
  BY <1>1 DEF Told, DeliveredWasRouted, FailedWasNotRouted
<1> QED
  BY <1>3, <1>4 DEF Told

\* A step that concludes nothing and leaves the fates alone.
LEMMA NothingTold ==
    ASSUME Told, UNCHANGED <<message, fate, outcome>>,
           pc' \in {"redial", "publish", "retry", "await", "count"} =>
               pc \in {"redial", "publish", "retry", "await", "count"},
           \A i \in 1..Len(wire') : outcome[wire'[i]] \in {"open", "uncertain"}
    PROVE  Told'
BY DEF Told, OutcomeInv, DeliveredWasRouted, FailedWasNotRouted

LEMMA OutcomeStep == TypeOK /\ StreamInv /\ Told /\ [Next]_vars => Told'
<1> SUFFICES ASSUME TypeOK, StreamInv, Told, [Next]_vars PROVE Told'
  OBVIOUS
<1>1. OutcomeInv /\ DeliveredWasRouted /\ FailedWasNotRouted
  BY DEF Told
<1>2. /\ wire \in Seq(Numbers)
      /\ \A i \in 1..Len(wire) : wire[i] \in Numbers /\ outcome[wire[i]] \in {"open", "uncertain"}
  BY <1>1 DEF TypeOK, OutcomeInv
<1>3. CASE Broker
  <2>1. /\ Head(wire) \in Numbers /\ outcome[Head(wire)] \in {"open", "uncertain"}
        /\ \A i \in 1..Len(wire') : outcome[wire'[i]] \in {"open", "uncertain"}
    BY <1>2, <1>3, RestOfSeq DEF Broker
  <2>2. /\ \A m \in Numbers : m # Head(wire) => fate'[m] = fate[m]
        /\ UNCHANGED <<pc, message, outcome>>
    BY <1>3 DEF Broker, TypeOK
  <2>3. OutcomeInv'
    BY <1>1, <2>1, <2>2 DEF OutcomeInv
  <2>4. DeliveredWasRouted' /\ FailedWasNotRouted'
    BY <1>1, <2>1, <2>2 DEF DeliveredWasRouted, FailedWasNotRouted
  <2> QED
    BY <2>3, <2>4 DEF Told
<1>4. CASE Reader \/ Drop \/ UNCHANGED vars
  BY <1>2, <1>4, NothingTold DEF Reader, Drop, vars, connection
<1>5. CASE Dial
  BY <1>2, <1>5, NothingTold DEF Dial, Connect, connection
<1>6. CASE TakeJob
  <2>1. message' = message + 1 /\ message' \in Numbers
    BY <1>6, MessagesAssumption DEF TakeJob, TypeOK, Numbers
  <2>2. UNCHANGED <<wire, fate, outcome>>
    BY <1>6 DEF TakeJob, connection
  <2>3. OutcomeInv'
    BY <1>1, <2>1, <2>2 DEF OutcomeInv, TypeOK, Numbers
  <2> QED
    BY <1>1, <2>2, <2>3 DEF Told, DeliveredWasRouted, FailedWasNotRouted
<1>7. CASE Redial
  <2>1. message \in Numbers /\ wire = <<>>
    BY <1>1, <1>7, BusyWithMessage DEF Redial, StreamInv, TypeOK, Quiet, Stage
  <2>2. wire' = <<>> /\ UNCHANGED <<message, fate>>
    BY <1>7, <2>1 DEF Redial, Connect, connection
  <2>3. CASE Conclude("skipped") /\ pc' = "idle"
    BY <1>1, <2>1, <2>2, <2>3, ConcludeSafely
  <2>4. CASE UNCHANGED outcome
    BY <1>7, <2>2, <2>4, NothingTold DEF Redial
  <2> QED
    BY <1>7, <2>3, <2>4 DEF Redial
<1>8. CASE Publish
  <2>1. message \in Numbers /\ outcome[message] = "open" /\ UNCHANGED <<message, fate>>
    BY <1>1, <1>8, BusyWithMessage DEF Publish, OutcomeInv
  <2>2. CASE wire' = Append(wire, message) /\ Sent(link)
    <3>1. /\ wire' \in Seq(Numbers)
          /\ \A i \in 1..Len(wire') : outcome[wire'[i]] \in {"open", "uncertain"}
      BY <1>2, <2>1, <2>2, LongerSeq
    <3> QED
      BY <1>8, <2>1, <2>2, <3>1, NothingTold DEF Publish, Sent
  <2>3. CASE wire' = <<>> /\ UNCHANGED outcome
    BY <1>8, <2>1, <2>3, NothingTold DEF Publish
  <2> QED
    BY <1>8, <2>2, <2>3 DEF Publish
<1>9. CASE Retry
  <2>1. message \in Numbers /\ outcome[message] = "open" /\ UNCHANGED <<message, fate>>
    BY <1>1, <1>9, BusyWithMessage DEF Retry, OutcomeInv
  <2>2. CASE wire' = <<>> /\ Conclude("skipped") /\ pc' = "idle"
    BY <1>1, <2>1, <2>2, ConcludeSafely
  <2>3. CASE wire' = <<message>> /\ \E l : Sent(l)
    <3>1. /\ wire' \in Seq(Numbers)
          /\ \A i \in 1..Len(wire') : outcome[wire'[i]] \in {"open", "uncertain"}
      BY <2>1, <2>3, OneFrame
    <3> QED
      BY <1>9, <2>1, <2>3, <3>1, NothingTold DEF Retry, Sent
  <2> QED
    BY <1>9, <2>2, <2>3 DEF Retry, Disconnect
<1>10. CASE AwaitConfirm
  <2>1. message \in Numbers
    BY <1>1, <1>10, BusyWithMessage DEF AwaitConfirm
  <2>2. link = "confirms" /\ UnderWay(message)
    BY <1>10 DEF AwaitConfirm, StreamInv, TypeOK
  <2>3. /\ wire = <<>>
        /\ \/ /\ confirms = <<Acked(message)>> /\ returns = <<>>
              /\ fate[message] = "routed"
           \/ /\ confirms = <<Acked(message)>> /\ returns = <<Returned(message)>>
              /\ fate[message] = "unroutable"
           \/ confirms = <<Nacked(message)>> /\ fate[message] = "refused"
    BY <1>10, <2>2 DEF AwaitConfirm, UnderWay, Quiet, Stage
  <2>4. Acked(message).kind = "ack" /\ Nacked(message).kind = "nack"
    BY DEF Acked, Nacked
  <2>5. \/ Conclude("delivered") /\ fate[message] = "routed"
        \/ Conclude("failed") /\ fate[message] \in {"unroutable", "refused"}
    BY <1>10, <2>3, <2>4, OneFrame DEF AwaitConfirm
  <2>6. /\ outcome'[message] \in {"delivered", "failed"}
        /\ outcome'[message] = "delivered" => fate[message] = "routed"
        /\ outcome'[message] = "failed" => fate[message] \in {"unroutable", "refused"}
        /\ \A m \in Numbers : m # message => outcome'[m] = outcome[m]
    BY <2>1, <2>5, ConcludeType
  <2>7. pc' = "idle" /\ UNCHANGED <<message, wire, fate>>
    BY <1>10 DEF AwaitConfirm
  <2>8. OutcomeInv'
    BY <1>1, <2>3, <2>6, <2>7 DEF OutcomeInv, TypeOK, Numbers
  <2>9. DeliveredWasRouted' /\ FailedWasNotRouted'
    BY <1>1, <2>6, <2>7 DEF DeliveredWasRouted, FailedWasNotRouted
  <2> QED
    BY <2>8, <2>9 DEF Told
<1>11. CASE AwaitUnknown
  <2>1. message \in Numbers
    BY <1>1, <1>11, BusyWithMessage DEF AwaitUnknown
  <2> QED
    BY <1>1, <1>11, <2>1, ConcludeSafely DEF AwaitUnknown, Disconnect
<1>12. CASE Count
  <2>1. message \in Numbers /\ UNCHANGED <<wire, message, fate>>
    BY <1>1, <1>12, BusyWithMessage DEF Count, connection
  <2> QED
    BY <1>1, <1>2, <1>12, <2>1, ConcludeSafely DEF Count
<1> QED
  BY <1>3, <1>4, <1>5, <1>6, <1>7, <1>8, <1>9, <1>10, <1>11, <1>12 DEF Next, Worker, Finished

-----------------------------------------------------------------------------
(* Theorems.                                                               *)

IInv == TypeOK /\ StreamInv /\ Told

LEMMA InitInv == Init => IInv
<1> SUFFICES ASSUME Init PROVE IInv
  OBVIOUS
<1>1. /\ <<>> \in Seq(Numbers) /\ <<>> \in Seq(Frames)
      /\ Len(confirms) = 0 /\ Len(returns) = 0 /\ Len(wire) = 0
  BY DEF Init
<1>2. TypeOK
  <2>1. 0 \in 0..Messages /\ 0 <= 1
    BY MessagesAssumption
  <2>2. wire = <<>> /\ frames = <<>> /\ confirms = <<>> /\ returns = <<>>
    BY DEF Init
  <2>3. Len(confirms) <= 1 /\ Len(returns) <= 1
    BY <1>1
  <2> QED
    BY <1>1, <2>1, <2>2, <2>3, Zenon DEF Init, TypeOK, Fates
<1>3. StreamInv
  BY DEF Init, StreamInv, Quiet, Stage
<1>4. Told
  BY <1>1 DEF Init, Told, OutcomeInv, DeliveredWasRouted, FailedWasNotRouted
<1> QED
  BY <1>2, <1>3, <1>4 DEF IInv

LEMMA InvStep == IInv /\ [Next]_vars => IInv'
<1> SUFFICES ASSUME IInv, [Next]_vars PROVE IInv'
  OBVIOUS
<1>1. StreamInv'
  BY StreamStep DEF IInv
<1>2. Types'
  BY TypeStep DEF IInv, Told
<1>3. Types' /\ StreamInv' => TypeOK'
  BY ListenersShort, PTL
<1>4. Told'
  BY OutcomeStep DEF IInv
<1> QED
  BY <1>1, <1>2, <1>3, <1>4 DEF IInv

LEMMA Invariant == Spec => []IInv
BY InitInv, InvStep, PTL DEF Spec

\* Neither listener ever holds a second frame, so that the library's reader is not held
\* up by a worker that reads one answer for each message.
THEOREM TypeCorrect == Spec => []TypeOK
<1>1. IInv => TypeOK
  BY DEF IInv
<1> QED
  BY <1>1, Invariant, PTL

\* For any number of messages, lost connections, late acks and repeated publishes, a
\* message counts as delivered only if the broker routed it.
THEOREM DeliveredCorrect == Spec => []DeliveredWasRouted
<1>1. IInv => DeliveredWasRouted
  BY DEF IInv, Told
<1> QED
  BY <1>1, Invariant, PTL

\* And it counts as failed only if the broker returned or refused it.
THEOREM FailedCorrect == Spec => []FailedWasNotRouted
<1>1. IInv => FailedWasNotRouted
  BY DEF IInv, Told
<1> QED
  BY <1>1, Invariant, PTL

\* Whenever the worker is about to publish with confirms, nothing of an earlier message
\* is left on the connection.
THEOREM InSyncCorrect == Spec => []StreamInSync
<1>1. IInv => StreamInSync
  BY DEF IInv, StreamInv, StreamInSync, Quiet, Stage
<1> QED
  BY <1>1, Invariant, PTL

-----------------------------------------------------------------------------
(* What the worker promises.                                               *)

\* The messages that the worker counts as successes.
Counted == {m \in Numbers : outcome[m] \in {"delivered", "uncertain"}}

LEMMA CountedFinite == IsFiniteSet(Counted) /\ Successes = Cardinality(Counted)
<1>1. IsFiniteSet(Numbers)
  BY MessagesAssumption, FS_Interval, 1 \in Int DEF Numbers
<1>2. Counted \in SUBSET Numbers
  BY DEF Counted
<1> QED
  BY <1>1, <1>2, FS_Subset DEF Counted, Successes

\* A conclusion about a message without an outcome adds one success, or none.
LEMMA ConcludeCounts ==
    ASSUME TypeOK, message \in Numbers, outcome[message] = "open",
           NEW o \in {"delivered", "failed", "unknown", "skipped", "uncertain"}, Conclude(o)
    PROVE  Successes' = IF o \in {"delivered", "uncertain"} THEN Successes + 1 ELSE Successes
<1>1. /\ outcome'[message] = o
      /\ \A m \in Numbers : m # message => outcome'[m] = outcome[m]
  BY ConcludeType
<1>2. message \notin Counted
  BY DEF Counted
<1>3. Counted' = IF o \in {"delivered", "uncertain"} THEN Counted \cup {message} ELSE Counted
  BY <1>1, <1>2 DEF Counted
<1>4. Successes' = Cardinality(Counted')
  BY DEF Successes, Counted
<1>5. Cardinality(Counted \cup {message}) = Cardinality(Counted) + 1
  BY <1>2, CountedFinite, FS_AddElement
<1> QED
  BY <1>3, <1>4, <1>5, CountedFinite

LEMMA PromiseInit == Init => Promise!Init
<1> SUFFICES ASSUME Init PROVE Promise!Init
  OBVIOUS
<1>1. Counted = {}
  BY DEF Init, Counted
<1>2. Successes = 0
  BY <1>1, CountedFinite, FS_EmptySet
<1>3. Requests = 0 /\ Unsettled = 0
  BY DEF Init, Requests, Unsettled
<1> QED
  BY <1>2, <1>3 DEF Promise!Init

\* A job is one attempt when the worker has published it, or has no connection for it,
\* and is settled when it is concluded; all else is a stutter.
LEMMA WorkerIsPromised == IInv /\ [Next]_vars => [Promise!Next]_(Promise!vars)
<1> SUFFICES ASSUME IInv, [Next]_vars PROVE [Promise!Next]_(Promise!vars)
  OBVIOUS
<1>1. /\ message \in Nat /\ Requests \in Int
      /\ pc \in {"dial", "idle", "redial", "publish", "retry", "await", "count", "exited"}
  BY MessagesAssumption DEF IInv, TypeOK, Requests
<1>2. Successes \in Nat
  BY CountedFinite, FS_CardinalityType
<1>3. ASSUME pc \in {"redial", "publish", "retry", "await", "count"},
             NEW o \in {"delivered", "failed", "unknown", "skipped", "uncertain"}, Conclude(o)
      PROVE  /\ Successes' \in {Successes, Successes + 1}
             /\ o = "skipped" => Successes' = Successes
  BY <1>3, BusyWithMessage, ConcludeCounts DEF IInv, Told, OutcomeInv
<1>4. ASSUME UNCHANGED outcome PROVE UNCHANGED Successes
  BY <1>4 DEF Successes
<1>5. ASSUME Requests' = Requests, Unsettled' = Unsettled, Successes' = Successes
      PROVE  UNCHANGED Promise!vars
  BY <1>5 DEF Promise!vars
<1>6. ASSUME Requests' = Requests + 1, Unsettled' \in {Unsettled, Unsettled + 1},
             Successes' = Successes
      PROVE  Promise!Next
  <2>1. ~Promise!Final
    BY DEF Promise!Final
  <2>2. Promise!Attempt
    BY <1>6, <2>1 DEF Promise!Attempt
  <2> QED
    BY <2>2 DEF Promise!Next
<1>7. ASSUME Unsettled = 1, Unsettled' = 0, Requests' = Requests,
             Successes' \in {Successes, Successes + 1}
      PROVE  Promise!Next
  <2>1. Promise!Settle
    BY <1>7 DEF Promise!Settle
  <2> QED
    BY <2>1 DEF Promise!Next
<1>8. CASE Broker \/ Reader \/ Drop \/ UNCHANGED vars
  BY <1>4, <1>5, <1>8 DEF Broker, Reader, Drop, vars, Requests, Unsettled
<1>9. CASE Dial \/ TakeJob
  BY <1>1, <1>4, <1>5, <1>9 DEF Dial, TakeJob, Requests, Unsettled
<1>10. CASE Redial
  <2>1. CASE pc' = "publish" /\ UNCHANGED outcome
    BY <1>4, <1>5, <1>10, <2>1 DEF Redial, Requests, Unsettled
  <2>2. CASE Conclude("skipped") /\ pc' = "idle"
    BY <1>1, <1>3, <1>6, <1>10, <2>2 DEF Redial, Requests, Unsettled
  <2> QED
    BY <1>10, <2>1, <2>2 DEF Redial
<1>11. CASE Publish
  <2>1. pc' \in {"await", "count", "retry"} /\ UNCHANGED <<message, outcome>>
    BY <1>11 DEF Publish, Sent
  <2> QED
    BY <1>1, <1>4, <1>6, <1>11, <2>1 DEF Publish, Requests, Unsettled
<1>12. CASE Retry
  <2>1. CASE pc' \in {"await", "count"} /\ UNCHANGED outcome
    BY <1>4, <1>5, <1>12, <2>1 DEF Retry, Requests, Unsettled
  <2>2. CASE Conclude("skipped") /\ pc' = "idle"
    BY <1>3, <1>7, <1>12, <2>2 DEF Retry, Requests, Unsettled
  <2> QED
    BY <1>12, <2>1, <2>2 DEF Retry, Sent
<1>13. CASE Count \/ AwaitConfirm \/ AwaitUnknown
  <2>1. /\ pc \in {"count", "await"} /\ pc' = "idle" /\ UNCHANGED message
        /\ \E o \in {"delivered", "failed", "unknown", "uncertain"} : Conclude(o)
    BY <1>13 DEF Count, AwaitConfirm, AwaitUnknown
  <2> QED
    BY <1>3, <1>7, <2>1 DEF Requests, Unsettled
<1> QED
  BY <1>8, <1>9, <1>10, <1>11, <1>12, <1>13 DEF Next, Worker, Finished

\* A worker keeps the promise of Publishing, for any number of messages and whatever the
\* broker and the network do: each job is attempted once, also when it is published twice,
\* and what is counted as a success is counted once.
THEOREM PublishingImplemented == Spec => WorkerImplementsPublishing
BY PromiseInit, WorkerIsPromised, Invariant, PTL
   DEF Spec, WorkerImplementsPublishing, Promise!Spec
=============================================================================
