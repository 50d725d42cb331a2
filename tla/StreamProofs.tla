---- MODULE StreamProofs ----
(***************************************************************************)
(* Theorems about the streams: WsConn, for any ids, callers, keepalive     *)
(* interval and number of dial attempts, and whatever the network does: a  *)
(* Conn holds one descriptor and then none, announces each reconnect       *)
(* before what follows it, and its sockets stream what is desired.         *)
(*                                                                         *)
(* And Feed, for any finite set of tokens and any number of changes, bad   *)
(* frames and breaks: the caller hears of the changes on one socket in     *)
(* order and without a silent gap, has the server's state when it has read *)
(* everything, and sees drift.                                             *)
(***************************************************************************)
EXTENDS WsConn, Feed, FiniteSetTheorems, TLAPS
---------------------------------------------------------------------------
(* The connection. *)

(* Where the loop has a socket that it dials, and where one that it reads. *)
Connecting == {"dial", "backoff", "resubscribe", "store"}
Reading == {"read", "announce", "deliver"}

Sockets == [up : BOOLEAN, open : BOOLEAN, subs : SUBSET Ids]
Sending == [step : {"send"}, add : BOOLEAN, id : Ids]

(* The state keeps its shape. *)
TypeOK ==
  /\ current \in Sockets /\ dialed \in Sockets
  /\ desired \subseteq Ids /\ frame \subseteq Ids /\ touched \subseteq Ids
  /\ loop \in Connecting \cup Reading \cup {"exit", "done", "failed"}
  /\ pinger \in {"none", "start", "wait", "write", "panicked", "done"}
  /\ caller \in [Callers -> Sending \cup {Idle}]

(* A live socket has its descriptor; the loop has one to connect with or   *)
(* one to read from, and before it has read none the Conn is not launched. *)
Descriptors ==
  /\ current.up => current.open
  /\ current.open => loop \in Reading \cup {"exit"}
  /\ dialed.open => loop \in {"resubscribe", "store"}
  /\ dialed.up => dialed.open
  /\ closer = "closed" => loop = "done" /\ pinger = "done"

(* But for the ids changed since it was rendered, a subscribe frame, and   *)
(* the socket it was written to, ask for what is desired; a caller's       *)
(* change still to be written is among those.                              *)
Agrees(ids) == \A id \in Ids \ touched : id \in ids <=> id \in desired

Subscribed ==
  /\ \A c \in Callers : caller[c].step = "send" => caller[c].id \in touched
  /\ loop = "resubscribe" => Agrees(frame)
  /\ loop = "store" /\ dialed.up => Agrees(dialed.subs)
  /\ current.up => Agrees(current.subs)

(* What Read has returned is of the socket being read, or an announcement  *)
(* is due of the next.                                                     *)
Numbered ==
  /\ reconnects \in Nat /\ heard.epoch \in Nat
  /\ loop \in Connecting \cup {"read", "deliver"} => heard.epoch = reconnects
  /\ loop = "announce" => heard.epoch + 1 = reconnects
  /\ pending \in Seq({Heard("stream", reconnects)})
  /\ loop = "deliver" => pending # <<>>
  /\ loop \in Connecting \cup {"read", "announce"} => pending = <<>>
IInv == TypeOK /\ Descriptors /\ Numbered /\ (Channel = "market" => Subscribed)
---------------------------------------------------------------------------
(* Sockets *)

LEMMA Breaking ==
  ASSUME NEW s \in Sockets
  PROVE  LET broken == [s EXCEPT !.up = FALSE]
         IN  /\ broken \in Sockets
             /\ ~broken.up /\ broken.open = s.open /\ broken.subs = s.subs
BY DEF Sockets

LEMMA Closing ==
  ASSUME NEW s \in Sockets
  PROVE  CloseNow(s) \in Sockets /\ ~CloseNow(s).up /\ ~CloseNow(s).open
<1>1. CloseNow(s) \in Sockets
  BY Zenon DEF CloseNow, Sockets
<1>2. ~CloseNow(s).up /\ ~CloseNow(s).open
  BY DEF CloseNow, Sockets
<1> QED BY <1>1, <1>2

LEMMA Streaming ==
  ASSUME NEW s \in Sockets, NEW ids \in SUBSET Ids
  PROVE  LET t == [s EXCEPT !.subs = ids]
         IN  t \in Sockets /\ t.up = s.up /\ t.open = s.open /\ t.subs = ids
BY DEF Sockets

LEMMA Fresh ==
  /\ NoSocket \in Sockets /\ ~NoSocket.up /\ ~NoSocket.open
  /\ Opened \in Sockets /\ Opened.up /\ Opened.open
<1>1. NoSocket \in Sockets /\ ~NoSocket.up /\ ~NoSocket.open
  BY DEF NoSocket, Sockets
<1>2. Opened \in Sockets /\ Opened.up /\ Opened.open
  BY DEF Opened, Sockets
<1> QED BY <1>1, <1>2

(* What a caller of Subscribe or Unsubscribe sends. *)
LEMMA SendingTyped ==
  /\ \A add \in BOOLEAN, id \in Ids :
       LET call == [step |-> "send", add |-> add, id |-> id]
       IN  call \in Sending /\ call.step = "send" /\ call.id = id
  /\ \A call \in Sending : call.add \in BOOLEAN /\ call.id \in Ids /\ call.step = "send"
  /\ Idle.step = "idle" /\ Idle \notin Sending
BY DEF Sending, Idle

(* The socket after a caller's frame has been written to it. *)
Written(c) ==
  IF ~current.up THEN current
  ELSE IF caller[c].add THEN [current EXCEPT !.subs = current.subs \cup {caller[c].id}]
  ELSE [current EXCEPT !.subs = current.subs \ {caller[c].id}]

LEMMA SendWrites ==
  ASSUME TypeOK, NEW c \in Callers, caller[c].step = "send"
  PROVE  /\ Written(c) \in Sockets /\ Written(c).up = current.up /\ Written(c).open = current.open
         /\ \A id \in Ids \ {caller[c].id} : id \in Written(c).subs <=> id \in current.subs
         /\ caller[c].id \in Ids
<1>1. current \in Sockets /\ caller[c] \in Sending
  BY SendingTyped DEF TypeOK
<1>2. current.subs \subseteq Ids /\ caller[c].id \in Ids
  BY <1>1, SendingTyped DEF Sockets
<1>3. /\ current.subs \cup {caller[c].id} \in SUBSET Ids
      /\ current.subs \ {caller[c].id} \in SUBSET Ids
  BY <1>2
<1>4. CASE ~current.up
  BY <1>1, <1>2, <1>4 DEF Written
<1>5. CASE current.up /\ caller[c].add
  <2>1. Written(c) = [current EXCEPT !.subs = current.subs \cup {caller[c].id}]
    BY <1>5 DEF Written
  <2> QED BY <1>1, <1>2, <1>3, <2>1, Streaming
<1>6. CASE current.up /\ ~caller[c].add
  <2>1. Written(c) = [current EXCEPT !.subs = current.subs \ {caller[c].id}]
    BY <1>6 DEF Written
  <2> QED BY <1>1, <1>2, <1>3, <2>1, Streaming
<1> QED BY <1>4, <1>5, <1>6
---------------------------------------------------------------------------
(* The invariant *)

LEMMA Initially == Init => IInv
<1> SUFFICES ASSUME Init PROVE IInv
  OBVIOUS
<1>1. TypeOK
  BY ConnAssumption, Fresh DEF Init, TypeOK, Connecting
<1>2. Descriptors
  BY Fresh DEF Init, Descriptors
<1>3. Numbered
  BY DEF Init, Numbered, Heard, Connecting, Reading
<1>4. Subscribed
  BY Fresh, SendingTyped DEF Init, Subscribed
<1> QED BY <1>1, <1>2, <1>3, <1>4 DEF IInv

(* Steps that move nothing the invariant speaks of, or one thing only. *)
LEMMA TypeNext == TypeOK /\ Descriptors /\ [Next]_vars => TypeOK'
<1> SUFFICES ASSUME TypeOK, Descriptors, [Next]_vars PROVE TypeOK'
  OBVIOUS
<1> USE DEF TypeOK, Connecting, Reading, socket, reading, calling, client
<1>1. CASE Dial
  <2>1. touched' \subseteq Ids
    <3>1. \A c \in InFlight : caller[c].id \in Ids
      BY SendingTyped DEF InFlight
    <3> QED BY <1>1, <3>1 DEF Dial
  <2> QED BY <1>1, <2>1, Fresh DEF Dial, Snapshot
<1>2. CASE DialFails
  BY <1>2 DEF DialFails, Failed
<1>3. CASE Resubscribe
  <2>1. dialed' \in Sockets
    <3>1. Streamed(frame) \in SUBSET Ids
      BY DEF Streamed
    <3> QED BY <1>3, <3>1, Streaming, Fresh DEF Resubscribe
  <2> QED BY <1>3, <2>1 DEF Resubscribe, Failed
<1>4. CASE SleepOver \/ SleepCut
  BY <1>4 DEF SleepOver, SleepCut
<1>5. CASE Launch \/ Replace
  BY <1>5, Fresh DEF Launch, Replace
<1>6. CASE ReadFrame
  BY <1>6 DEF ReadFrame
<1>7. CASE ReadFails \/ Exit
  BY <1>7, Closing DEF ReadFails, Exit
<1>8. CASE Announce \/ Deliver \/ Abandon
  BY <1>8 DEF Announce, Deliver, Abandon, HandOver
<1>9. CASE StartPing \/ Ping \/ PingEnds \/ StopPing
  BY <1>9 DEF StartPing, Ping, PingEnds, StopPing, others
<1>10. CASE PingTimesOut \/ Break
  BY <1>10, Breaking DEF PingTimesOut, Break
<1>11. ASSUME NEW c \in Callers, NEW add \in BOOLEAN, NEW id \in Ids, Change(c, add, id)
       PROVE  TypeOK'
  BY <1>11, SendingTyped DEF Change
<1>12. ASSUME NEW c \in Callers, Send(c) PROVE TypeOK'
  <2>1. current' = Written(c)
    BY <1>12 DEF Send, Written
  <2> QED BY <1>12, <2>1, SendWrites DEF Send
<1>13. ASSUME NEW c \in Callers, SendCut(c) PROVE TypeOK'
  BY <1>13, Breaking DEF SendCut
<1>14. CASE StartRead \/ ReadCut \/ ReadClosed \/ Close \/ CloseReturns \/ ParentEnds
  BY <1>14 DEF StartRead, ReadCut, ReadClosed, Close, CloseReturns, ParentEnds
<1>15. CASE UNCHANGED vars
  BY <1>15 DEF vars
<1> QED BY <1>1, <1>2, <1>3, <1>4, <1>5, <1>6, <1>7, <1>8, <1>9, <1>10, <1>11, <1>12, <1>13,
           <1>14, <1>15 DEF Next, Connect, ReadLoop, PingLoop

(* A socket is released before the next is dialed, and nothing moves once  *)
(* both goroutines have ended.                                             *)
LEMMA DescriptorsNext == TypeOK /\ Descriptors /\ [Next]_vars => Descriptors'
<1> SUFFICES ASSUME TypeOK, Descriptors, [Next]_vars PROVE Descriptors'
  OBVIOUS
<1>0. current \in Sockets /\ dialed \in Sockets
  BY DEF TypeOK
<1> USE DEF Descriptors, Connecting, Reading, socket, reading, calling, client
<1>1. CASE Dial
  BY <1>1, Fresh DEF Dial
<1>2. CASE DialFails
  BY <1>2 DEF DialFails, Failed
<1>3. CASE Resubscribe
  <2>1. /\ dialed'.open => loop' = "store"
        /\ dialed'.up => dialed'.open
    <3>1. Streamed(frame) \in SUBSET Ids
      BY DEF Streamed, TypeOK
    <3>2. CASE dialed' = NoSocket
      BY <3>2, Fresh
    <3>3. CASE dialed' = [dialed EXCEPT !.subs = Streamed(frame)] /\ loop' = "store"
      BY <1>0, <3>1, <3>3, Streaming
    <3> QED BY <1>3, <3>2, <3>3 DEF Resubscribe
  <2> QED BY <1>3, <2>1 DEF Resubscribe
<1>4. CASE SleepOver \/ SleepCut
  BY <1>4 DEF SleepOver, SleepCut
<1>5. CASE Launch \/ Replace
  BY <1>5, Fresh DEF Launch, Replace
<1>6. CASE ReadFrame
  BY <1>6 DEF ReadFrame
<1>7. CASE ReadFails \/ Exit
  BY <1>0, <1>7, Closing DEF ReadFails, Exit
<1>8. CASE Announce \/ Deliver \/ Abandon
  BY <1>8 DEF Announce, Deliver, Abandon, HandOver
<1>9. CASE StartPing \/ Ping \/ PingEnds \/ StopPing
  BY <1>9 DEF StartPing, Ping, PingEnds, StopPing, others
<1>10. CASE PingTimesOut \/ Break
  BY <1>0, <1>10, Breaking DEF PingTimesOut, Break
<1>11. ASSUME NEW c \in Callers, NEW add \in BOOLEAN, NEW id \in Ids, Change(c, add, id)
       PROVE  Descriptors'
  BY <1>11 DEF Change
<1>12. ASSUME NEW c \in Callers, Send(c) PROVE Descriptors'
  <2>1. current' = Written(c) /\ caller[c].step = "send"
    BY <1>12 DEF Send, Written
  <2> QED BY <1>12, <2>1, SendWrites DEF Send
<1>13. ASSUME NEW c \in Callers, SendCut(c) PROVE Descriptors'
  BY <1>0, <1>13, Breaking DEF SendCut
<1>14. CASE StartRead \/ ReadCut \/ ReadClosed \/ Close \/ CloseReturns \/ ParentEnds
  BY <1>14 DEF StartRead, ReadCut, ReadClosed, Close, CloseReturns, ParentEnds
<1>15. CASE UNCHANGED vars
  BY <1>15 DEF vars
<1> QED BY <1>1, <1>2, <1>3, <1>4, <1>5, <1>6, <1>7, <1>8, <1>9, <1>10, <1>11, <1>12, <1>13,
           <1>14, <1>15 DEF Next, Connect, ReadLoop, PingLoop

(* A subscribe frame asks for the desired ids as they were when it was     *)
(* rendered, and what has changed since is touched.                        *)
LEMMA SubscribedNext ==
  ASSUME Channel = "market"
  PROVE  TypeOK /\ Descriptors /\ Subscribed /\ [Next]_vars => Subscribed'
<1> SUFFICES ASSUME TypeOK, Descriptors, Subscribed, [Next]_vars PROVE Subscribed'
  OBVIOUS
<1>0. current \in Sockets /\ dialed \in Sockets /\ caller \in [Callers -> Sending \cup {Idle}]
  BY DEF TypeOK
<1> USE DEF Subscribed, Agrees, socket, reading, calling, client
<1>1. CASE Dial
  <2>1. ~current.up
    BY <1>1 DEF Dial, Descriptors, Reading
  <2>2. \A c \in Callers : caller[c].step = "send" => caller[c].id \in touched'
    BY <1>1 DEF Dial, InFlight
  <2> QED BY <1>1, <2>1, <2>2 DEF Dial, Snapshot
<1>2. CASE DialFails
  BY <1>2 DEF DialFails, Failed
<1>3. CASE Resubscribe
  <2>1. CASE dialed' = NoSocket
    BY <1>3, <2>1, Fresh DEF Resubscribe, Failed
  <2>2. CASE loop' = "store" /\ dialed' = [dialed EXCEPT !.subs = Streamed(frame)]
    <3>1. frame \in SUBSET Ids /\ Streamed(frame) = frame
      BY DEF Streamed, TypeOK
    <3>2. dialed'.subs = frame
      BY <1>0, <2>2, <3>1, Streaming
    <3> QED BY <1>3, <2>2, <3>2 DEF Resubscribe
  <2> QED BY <1>3, <2>1, <2>2 DEF Resubscribe
<1>4. CASE SleepOver \/ SleepCut
  BY <1>4 DEF SleepOver, SleepCut
<1>5. CASE Launch \/ Replace
  BY <1>5, Fresh DEF Launch, Replace
<1>6. CASE ReadFrame
  BY <1>6 DEF ReadFrame
<1>7. CASE ReadFails \/ Exit
  BY <1>0, <1>7, Closing DEF ReadFails, Exit
<1>8. CASE Announce \/ Deliver \/ Abandon
  BY <1>8 DEF Announce, Deliver, Abandon, HandOver
<1>9. CASE StartPing \/ Ping \/ PingEnds \/ StopPing
  BY <1>9 DEF StartPing, Ping, PingEnds, StopPing, others
<1>10. CASE PingTimesOut \/ Break
  BY <1>0, <1>10, Breaking DEF PingTimesOut, Break
<1>11. ASSUME NEW c \in Callers, NEW add \in BOOLEAN, NEW id \in Ids, Change(c, add, id)
       PROVE  Subscribed'
  <2>1. /\ touched' = touched \cup {id} /\ \A x \in Ids \ {id} : x \in desired' <=> x \in desired
        /\ UNCHANGED <<current, dialed, frame, loop>>
    BY <1>11 DEF Change
  <2>2. \A d \in Callers : caller'[d].step = "send" => caller'[d].id \in touched'
    <3>1. caller' = [caller EXCEPT ![c] = [step |-> "send", add |-> add, id |-> id]]
      BY <1>11 DEF Change
    <3>2. caller'[c].id = id /\ \A d \in Callers \ {c} : caller'[d] = caller[d]
      BY <1>0, <3>1
    <3> QED BY <2>1, <3>2
  <2> QED BY <2>1, <2>2
<1>12. ASSUME NEW c \in Callers, Send(c) PROVE Subscribed'
  <2>1. /\ current' = Written(c) /\ caller[c].step = "send"
        /\ caller' = [caller EXCEPT ![c] = Idle]
        /\ UNCHANGED <<dialed, frame, loop, desired, touched>>
    BY <1>12 DEF Send, Written
  <2>2. /\ current'.up = current.up
        /\ \A id \in Ids \ {caller[c].id} : id \in current'.subs <=> id \in current.subs
    BY <2>1, SendWrites
  <2>3. caller'[c].step = "idle" /\ \A d \in Callers \ {c} : caller'[d] = caller[d]
    BY <1>0, <2>1, SendingTyped
  <2> QED BY <2>1, <2>2, <2>3
<1>13. ASSUME NEW c \in Callers, SendCut(c) PROVE Subscribed'
  <2>1. /\ current' = [current EXCEPT !.up = FALSE] /\ caller' = [caller EXCEPT ![c] = Idle]
        /\ UNCHANGED <<dialed, frame, loop, desired, touched>>
    BY <1>13 DEF SendCut
  <2>2. caller'[c].step = "idle" /\ \A d \in Callers \ {c} : caller'[d] = caller[d]
    BY <1>0, <2>1, SendingTyped
  <2> QED BY <1>0, <2>1, <2>2, Breaking
<1>14. CASE StartRead \/ ReadCut \/ ReadClosed \/ Close \/ CloseReturns \/ ParentEnds
  BY <1>14 DEF StartRead, ReadCut, ReadClosed, Close, CloseReturns, ParentEnds
<1>15. CASE UNCHANGED vars
  BY <1>15 DEF vars
<1> QED BY <1>1, <1>2, <1>3, <1>4, <1>5, <1>6, <1>7, <1>8, <1>9, <1>10, <1>11, <1>12, <1>13,
           <1>14, <1>15 DEF Next, Connect, ReadLoop, PingLoop

LEMMA HeardEpoch ==
  \A kind, n : Heard(kind, n).kind = kind /\ Heard(kind, n).epoch = n
BY DEF Heard

(* Whatever Read returns next is of the epoch the loop is in, and only an  *)
(* announcement begins one.                                                *)
LEMMA NumberedNext ==
  TypeOK /\ Numbered /\ [Next]_vars =>
    /\ Numbered'
    /\ heard'.kind # "closed" /\ heard' # heard =>
         heard'.epoch = heard.epoch + (IF heard'.kind = "reconnect" THEN 1 ELSE 0)
<1> DEFINE Goal ==
      /\ Numbered'
      /\ heard'.kind # "closed" /\ heard' # heard =>
           heard'.epoch = heard.epoch + (IF heard'.kind = "reconnect" THEN 1 ELSE 0)
<1> SUFFICES ASSUME TypeOK, Numbered, [Next]_vars PROVE Goal
  OBVIOUS
<1> USE DEF Numbered, Connecting, Reading, socket, reading, calling, client
<1>1. CASE Dial \/ DialFails
  BY <1>1 DEF Dial, DialFails, Failed
<1>3. CASE Resubscribe
  BY <1>3 DEF Resubscribe, Failed
<1>4. CASE SleepOver \/ SleepCut
  BY <1>4 DEF SleepOver, SleepCut
<1>5. CASE Launch
  BY <1>5 DEF Launch
<1>6. CASE Replace
  BY <1>6 DEF Replace
<1>7. CASE ReadFrame
  <2>1. PICK n \in 0..MaxEvents :
          /\ pending' = [i \in 1..n |-> Heard("stream", reconnects)]
          /\ loop' = IF n = 0 THEN "read" ELSE "deliver"
    BY <1>7 DEF ReadFrame
  <2>2. pending' \in Seq({Heard("stream", reconnects)}) /\ (n = 0 <=> pending' = <<>>)
    BY <2>1, ConnAssumption
  <2> QED BY <1>7, <2>1, <2>2 DEF ReadFrame
<1>8. CASE ReadFails \/ Exit
  BY <1>8 DEF ReadFails, Exit
<1>9. CASE Announce
  <2>1. heard' = Heard("reconnect", reconnects) /\ UNCHANGED <<reconnects, pending>>
        /\ loop = "announce" /\ loop' = "read"
    BY <1>9 DEF Announce, HandOver
  <2> QED BY <2>1, HeardEpoch
<1>10. CASE Deliver
  <2>1. /\ heard' = Head(pending) /\ pending' = Tail(pending) /\ UNCHANGED reconnects
        /\ loop = "deliver" /\ loop' = IF Tail(pending) = <<>> THEN "read" ELSE "deliver"
    BY <1>10 DEF Deliver, HandOver
  <2>2. /\ Head(pending) = Heard("stream", reconnects)
        /\ Tail(pending) \in Seq({Heard("stream", reconnects)})
    BY <2>1
  <2> QED BY <2>1, <2>2, HeardEpoch
<1>11. CASE Abandon
  BY <1>11 DEF Abandon
<1>12. CASE StartPing \/ Ping \/ PingEnds \/ StopPing \/ PingTimesOut \/ Break
  BY <1>12 DEF StartPing, Ping, PingEnds, StopPing, others, PingTimesOut, Break
<1>13. ASSUME NEW c \in Callers,
              Send(c) \/ SendCut(c) \/ \E add \in BOOLEAN, id \in Ids : Change(c, add, id)
       PROVE  Goal
  BY <1>13 DEF Send, SendCut, Change
<1>14. CASE StartRead \/ ReadCut \/ Close \/ CloseReturns \/ ParentEnds
  BY <1>14 DEF StartRead, ReadCut, Close, CloseReturns, ParentEnds
<1>15. CASE ReadClosed
  <2>1. heard' = Heard("closed", reconnects) /\ loop = "done" /\ UNCHANGED reading
    BY <1>15 DEF ReadClosed
  <2> QED BY <2>1, HeardEpoch
<1>16. CASE UNCHANGED vars
  BY <1>16 DEF vars
<1> QED BY <1>1, <1>3, <1>4, <1>5, <1>6, <1>7, <1>8, <1>9, <1>10, <1>11, <1>12, <1>13,
           <1>14, <1>15, <1>16 DEF Next, Connect, ReadLoop, PingLoop

(* The invariant is inductive. *)
LEMMA Inductive == IInv /\ [Next]_vars => IInv'
<1>1. CASE Channel = "market"
  BY <1>1, TypeNext, DescriptorsNext, NumberedNext, SubscribedNext DEF IInv
<1>2. CASE Channel # "market"
  BY <1>2, TypeNext, DescriptorsNext, NumberedNext DEF IInv
<1> QED BY <1>1, <1>2
---------------------------------------------------------------------------
(* The theorems *)

(* At every moment of every execution of a Conn the state has its shape,   *)
(* its descriptors are where readLoop and reconnect may hold them, what it *)
(* has announced is what it reads from, and a market's subscription is     *)
(* what its callers want but for what changed since it was rendered.       *)
THEOREM ConnInvariant == Spec => []IInv
BY Initially, Inductive, PTL DEF Spec

(* connectAndSubscribeOnce, readLoop and Close: a Conn never holds two     *)
(* descriptors, and none once Close has returned (ws/conn.go).             *)
THEOREM HoldsOne == Spec => []OneDescriptor
<1>1. IInv => OneDescriptor
  BY DEF IInv, Descriptors, OneDescriptor, Reading
<1> QED BY <1>1, ConnInvariant, PTL

(* readLoop and Read: each reconnect is announced, by its number, before   *)
(* any event of the socket it brought (ws/conn.go).                        *)
THEOREM AnnouncedFirst == Spec => Announced
<1>1. IInv /\ [Next]_vars =>
        [heard'.kind # "closed" /\ heard' # heard =>
           heard'.epoch = heard.epoch + (IF heard'.kind = "reconnect" THEN 1 ELSE 0)]_heard
  BY NumberedNext DEF IInv
<1> QED BY <1>1, ConnInvariant, PTL DEF Spec, Announced

(* subscribe and Conn.change: a live socket of the market channel streams  *)
(* just what is desired of every id nobody has changed since its subscribe *)
(* frame was rendered, for any ids and callers (ws/market.go, ws/conn.go). *)
THEOREM StreamsDesired ==
  ASSUME Channel = "market"
  PROVE  Spec => []Resubscribed
<1>1. IInv => Resubscribed
  BY DEF IInv, Subscribed, Agrees, Resubscribed
<1> QED BY <1>1, ConnInvariant, PTL

---------------------------------------------------------------------------
(* The feed. *)

(* A sequence of anything. *)
IsSeq(s) == s \in Seq(ToSet(s))

ChangeType == [n : Nat, kind : MarketKinds \cup UserKinds \cup TopicKinds]

(* The state keeps its shape: events wait while they are handed over. *)
FeedTypeOK ==
  /\ channel \in {"market", "user", "rtds"}
  /\ made \in Nat
  /\ truth \in [Tokens -> SUBSET ChangeType]
  /\ view \in [Tokens -> {NoView} \cup [changes : SUBSET ChangeType]]
  /\ trusted \in [Tokens -> BOOLEAN]
  /\ taken \in BOOLEAN /\ up \in BOOLEAN /\ (taken => up)
  /\ phase \in {"read", "announce", "deliver"}
  /\ phase = "deliver" <=> events # <<>>
  /\ IsSeq(sock) /\ IsSeq(events)
  /\ said \in Seq(Nat) /\ learned \in Seq(Nat)

(* The state of a token up to change n. *)
Before(t, n) == {c \in truth[t] : c.n <= n}

(* A number is one change's, and a caller's copy has no other changes. *)
Made ==
  /\ \A t \in Tokens : \A c \in truth[t] : c.n \in 1..made
  /\ \A t, u \in Tokens : \A c \in truth[t], d \in truth[u] : c.n = d.n => c = d
  /\ \A t \in Tokens : Held(t) => view[t].changes \subseteq truth[t]

(* An object that tells of change n, one that is a book, and one about no *)
(* token.                                                                  *)
News(o, n) ==
  /\ o.type \in Kinds(channel)
  /\ DOMAIN o.changes \subseteq Tokens /\ DOMAIN o.changes # {}
  /\ o.type = "price_change" => DOMAIN o.changes = Tokens
  /\ \A t \in DOMAIN o.changes :
       /\ o.changes[t].change = [n |-> n, kind |-> o.type]
       /\ o.changes[t].change \in truth[t]
       /\ o.changes[t].hash = Before(t, n)

Book(o, t) ==
  /\ o.type = "book"
  /\ DOMAIN o.changes = {t} /\ t \in Tokens
  /\ o.changes[t] \in [changes : SUBSET truth[t]]

Aside(o) == o.type # "book" /\ DOMAIN o.changes = {}

IsObject(o) == o = [k \in {"type", "changes", "good"} |-> o[k]]

Objects(f) == ToSet(f.objects)

(* A frame: the books of every token, news of one change, or neither. *)
Dump(f) ==
  /\ channel = "market" /\ InitialDump /\ f.form = "array"
  /\ \A o \in Objects(f) : \E t \in Tokens : Book(o, t)
  /\ \A t \in Tokens : \E o \in Objects(f) : Book(o, t)

Report(f, n) == f.form = "object" /\ Len(f.objects) = 1 /\ News(f.objects[1], n)

Blank(f) ==
  \/ f.form \in {"pong", "empty", "binary", "garbage"} /\ f.objects = <<>>
  \/ f.form = "object" /\ Len(f.objects) = 1 /\ Aside(f.objects[1])

Formed(f) ==
  /\ IsSeq(f.objects) /\ \A o \in Objects(f) : IsObject(o)
  /\ Dump(f) \/ (\E n \in 1..made : Report(f, n)) \/ Blank(f)

WellFormed ==
  /\ \A f \in ToSet(sock) : Formed(f)
  /\ \/ channel = "market" /\ InitialDump /\ \A o \in ToSet(events) : \E t \in Tokens : Book(o, t)
     \/ Len(events) = 1 /\ ((\E n \in 1..made : News(events[1], n)) \/ Aside(events[1]))
     \/ events = <<>>

(* What is on its way to the caller. *)
Coming == ToSet(events) \cup UNION {Objects(f) : f \in ToSet(sock)}
Books == {o \in Coming : o.type = "book"}
Told(t) == {o.changes[t].change : o \in {x \in Coming \ Books : t \in DOMAIN x.changes}}

(* What the caller has learned since the last announcement, and the       *)
(* numbers that events and frames still have for it.                       *)
Learned == IF phase = "announce" THEN {} ELSE ToSet(learned)
Events == UNION {Numbers(o) : o \in ToSet(events)}
Carried(f) == UNION {Numbers(o) : o \in Objects(f)}
Sock == UNION {Carried(f) : f \in ToSet(sock)}
Got == Learned \cup lost

(* Numbers flow in order, from the socket to the events to the caller, up  *)
(* to the latest that has come none is missing, and none at all until the  *)
(* socket breaks.                                                          *)
InFlow ==
  /\ ToSet(said) \subseteq 1..made
  /\ Got \cup Events \cup Sock \subseteq ToSet(said)
  /\ Learned \cap lost = {}
  /\ \A m \in Got, n \in Events : m < n
  /\ \A m \in Got \cup Events, n \in Sock : m < n
  /\ \A i, j \in DOMAIN sock : i < j =>
       \A m \in Carried(sock[i]), n \in Carried(sock[j]) : m < n
  /\ \A n \in Got \cup Events \cup Sock, m \in ToSet(said) :
       m < n => m \in Got \cup Events \cup Sock
  /\ up => ToSet(said) \subseteq Got \cup Events \cup Sock
  /\ phase # "announce" =>
       \A i, j \in DOMAIN learned : i < j => learned[i] < learned[j]

(* Books come first on their socket, before anything was heard or dropped. *)
BooksFirst ==
  /\ \A i \in DOMAIN sock : sock[i].form = "array" => i = 1 /\ events = <<>>
  /\ Books # {} => Learned = {} /\ dropped = {}
  /\ up /\ ~taken => /\ sock = <<>> /\ events = <<>> /\ Learned = {} /\ dropped = {}
                     /\ phase # "announce" /\ channel = "market" => \A t \in Tokens : ~Held(t)

Has(t) == phase # "announce" /\ Held(t)
Wanted(t) == {c \in truth[t] : c.n \notin missed}

(* What the caller has of a token, or the book on its way, and what is told *)
(* of it after that are the server's state.                                *)
Whole(t) ==
  /\ Has(t) => Wanted(t) \subseteq view[t].changes \cup Told(t)
  /\ \A o \in Books : t \in DOMAIN o.changes =>
       Wanted(t) \subseteq o.changes[t].changes \cup Told(t)
  /\ channel = "market" /\ InitialDump /\ taken =>
       Has(t) \/ \E o \in Books : t \in DOMAIN o.changes

Complete ==
  /\ channel = "market" => missed = {}
  /\ up /\ channel \in {"market", "user"} => \A t \in Tokens \ dropped : Whole(t)

FeedInv == FeedTypeOK /\ Made /\ WellFormed /\ InFlow /\ BooksFirst /\ Complete /\ DriftSeen
---------------------------------------------------------------------------
(* Sequences of anything. *)

(* The empty one. *)
LEMMA EmptyIs == IsSeq(<<>>) /\ ToSet(<<>>) = {} /\ DOMAIN <<>> = {}
BY DEF IsSeq, ToSet

(* Its positions and elements. *)
LEMMA SeqIs ==
  ASSUME NEW s, IsSeq(s)
  PROVE  /\ Len(s) \in Nat /\ DOMAIN s = 1..Len(s)
         /\ \A i \in DOMAIN s : s[i] \in ToSet(s)
         /\ s = <<>> <=> Len(s) = 0
         /\ s = <<>> <=> ToSet(s) = {}
BY DEF IsSeq, ToSet

(* A sequence of a known set is one. *)
LEMMA SeqWithin ==
  ASSUME NEW T, NEW s, s \in Seq(T)
  PROVE  IsSeq(s)
<1>1. Len(s) \in Nat /\ DOMAIN s = 1..Len(s) /\ s = [i \in 1..Len(s) |-> s[i]]
  OBVIOUS
<1>2. \A i \in 1..Len(s) : s[i] \in ToSet(s)
  BY <1>1 DEF ToSet
<1>3. s \in [1..Len(s) -> ToSet(s)]
  BY <1>1, <1>2, Zenon
<1> QED
  BY <1>1, <1>3 DEF IsSeq

(* Appending an element. *)
LEMMA AppendIs ==
  ASSUME NEW s, IsSeq(s), NEW e
  PROVE  /\ IsSeq(Append(s, e)) /\ ToSet(Append(s, e)) = ToSet(s) \cup {e}
         /\ DOMAIN Append(s, e) = 1..(Len(s) + 1)
         /\ \A i \in DOMAIN s : Append(s, e)[i] = s[i]
         /\ Append(s, e)[Len(s) + 1] = e
<1> DEFINE T == ToSet(s) \cup {e}
           a == Append(s, e)
<1>1. s \in Seq(T) /\ e \in T /\ Len(s) \in Nat /\ DOMAIN s = 1..Len(s)
  BY SeqIs DEF IsSeq
<1>2. /\ a \in Seq(T) /\ Len(a) = Len(s) + 1 /\ DOMAIN a = 1..(Len(s) + 1)
      /\ \A i \in DOMAIN s : a[i] = s[i]
      /\ a[Len(s) + 1] = e
  BY <1>1
<1>3. ToSet(a) = T
  BY <1>1, <1>2 DEF ToSet
<1> QED
  BY <1>2, <1>3, Zenon DEF IsSeq

(* Taking the first element off. *)
LEMMA TailIs ==
  ASSUME NEW s, IsSeq(s), s # <<>>
  PROVE  /\ Head(s) = s[1] /\ 1 \in DOMAIN s /\ IsSeq(Tail(s))
         /\ ToSet(s) = {Head(s)} \cup ToSet(Tail(s))
         /\ DOMAIN Tail(s) = 1..(Len(s) - 1)
         /\ \A i \in DOMAIN Tail(s) : i + 1 \in DOMAIN s /\ Tail(s)[i] = s[i + 1]
<1> DEFINE T == ToSet(s)
           a == Tail(s)
<1>1. s \in Seq(T) /\ Len(s) \in Nat \ {0} /\ DOMAIN s = 1..Len(s)
  BY SeqIs DEF IsSeq
<1>2. /\ a \in Seq(T) /\ Len(a) = Len(s) - 1 /\ DOMAIN a = 1..(Len(s) - 1)
      /\ \A i \in DOMAIN a : i + 1 \in DOMAIN s /\ a[i] = s[i + 1]
      /\ Head(s) = s[1] /\ 1 \in DOMAIN s
  BY <1>1
<1>3. \A i \in DOMAIN s : i = 1 \/ (i - 1 \in DOMAIN a /\ a[i - 1] = s[i])
  BY <1>1, <1>2
<1>4. ToSet(s) = {Head(s)} \cup ToSet(a)
  <2>1. ASSUME NEW x \in ToSet(s) PROVE x \in {Head(s)} \cup ToSet(a)
    BY <1>2, <1>3, <2>1 DEF ToSet
  <2>2. ASSUME NEW x \in ToSet(a) PROVE x \in ToSet(s)
    BY <1>2, <2>2 DEF ToSet
  <2>3. Head(s) \in ToSet(s)
    BY <1>2 DEF ToSet
  <2> QED
    BY <2>1, <2>2, <2>3
<1>5. IsSeq(a)
  BY <1>2, SeqWithin
<1> QED
  BY <1>2, <1>4, <1>5

(* Cutting the end off. *)
LEMMA CutIs ==
  ASSUME NEW s, IsSeq(s), NEW k \in 0..Len(s)
  PROVE  /\ IsSeq(SubSeq(s, 1, k)) /\ ToSet(SubSeq(s, 1, k)) \subseteq ToSet(s)
         /\ DOMAIN SubSeq(s, 1, k) = 1..k /\ DOMAIN SubSeq(s, 1, k) \subseteq DOMAIN s
         /\ \A i \in DOMAIN SubSeq(s, 1, k) : SubSeq(s, 1, k)[i] = s[i]
<1> DEFINE T == ToSet(s)
           a == SubSeq(s, 1, k)
<1>1. s \in Seq(T) /\ Len(s) \in Nat /\ DOMAIN s = 1..Len(s)
  BY SeqIs DEF IsSeq
<1>2. /\ a \in Seq(T) /\ Len(a) = k /\ DOMAIN a = 1..k
      /\ \A i \in DOMAIN a : i \in DOMAIN s /\ a[i] = s[i]
  BY <1>1
<1>3. ToSet(a) \subseteq ToSet(s)
  BY <1>2 DEF ToSet
<1>4. IsSeq(a)
  BY <1>2, SeqWithin
<1> QED
  BY <1>2, <1>3, <1>4

(* A function of the positions of a sequence is one. *)
LEMMA MapIs ==
  ASSUME NEW s, IsSeq(s), NEW a, DOMAIN a = DOMAIN s, a = [i \in DOMAIN s |-> a[i]]
  PROVE  IsSeq(a) /\ (a = <<>> <=> s = <<>>) /\ Len(a) = Len(s)
<1>1. Len(s) \in Nat /\ DOMAIN s = 1..Len(s)
  BY SeqIs
<1>2. \A i \in DOMAIN s : a[i] \in ToSet(a)
  BY DEF ToSet
<1>3. a \in [1..Len(s) -> ToSet(a)]
  BY <1>1, <1>2, Zenon
<1>4. a \in Seq(ToSet(a)) /\ Len(a) = Len(s)
  BY <1>1, <1>3
<1>5. a = <<>> <=> s = <<>>
  BY <1>1, <1>4, SeqIs DEF IsSeq
<1> QED
  BY <1>4, <1>5 DEF IsSeq

(* SetToSeq of nothing. *)
LEMMA NoneInSeq == SetToSeq({}) = <<>>
<1>1. Cardinality({}) = 0
  BY FS_EmptySet
<1>2. <<>> \in [1..0 -> {}] /\ IsInjective(<<>>)
  BY DEF IsInjective
<1>3. SetToSeq({}) \in [1..0 -> {}]
  BY <1>1, <1>2, Zenon DEF SetToSeq
<1> QED
  BY <1>3

(* One thing. *)
LEMMA OneInSeq ==
  ASSUME NEW n
  PROVE  SetToSeq({n}) = <<n>>
<1>1. Cardinality({n}) = 1
  BY FS_Singleton
<1>2. <<n>> \in [1..1 -> {n}] /\ IsInjective(<<n>>)
  BY DEF IsInjective
<1>3. SetToSeq({n}) \in [1..1 -> {n}]
  BY <1>1, <1>2, Zenon DEF SetToSeq
<1> QED
  BY <1>3

(* The tokens in a sequence are all of them. *)
LEMMA TokensInSeq == IsSeq(SetToSeq(Tokens)) /\ ToSet(SetToSeq(Tokens)) = Tokens
<1> DEFINE n == Cardinality(Tokens)
           s == SetToSeq(Tokens)
<1>1. IsFiniteSet(Tokens)
  BY FeedAssumption
<1>2. n \in Nat
  BY <1>1, FS_CardinalityType
<1>3. PICK f \in [1..n -> Tokens] : IsInjective(f)
  <2>1. \E f : f \in Bijection(1..n, Tokens)
    BY <1>1, FS_CardinalityType DEF ExistsBijection
  <2> QED
    BY <2>1 DEF Bijection, Injection, IsInjective
<1>4. s \in [1..n -> Tokens] /\ IsInjective(s)
  BY <1>3, Zenon DEF SetToSeq
<1>5. ToSet(s) = Tokens
  <2>1. s \in Injection(1..n, Tokens)
    BY <1>4 DEF Injection, IsInjective
  <2>2. IsFiniteSet(1..n) /\ Cardinality(1..n) = n
    <3> HIDE DEF n
    <3> QED
      BY <1>2, FS_Interval
  <2>3. s \in Surjection(1..n, Tokens)
    BY <1>1, <2>1, <2>2, FS_Injection
  <2> QED
    BY <1>4, <2>3 DEF Surjection, ToSet
<1>6. s \in [1..n -> ToSet(s)]
  BY <1>4, <1>5
<1>7. s \in Seq(ToSet(s))
  <2> HIDE DEF n, s
  <2> QED
    BY <1>2, <1>6
<1> QED
  BY <1>5, <1>7 DEF IsSeq
---------------------------------------------------------------------------
(* Objects and frames. *)

(* The numbers of an object. *)
LEMMA NumbersIs ==
  ASSUME FeedTypeOK, NEW o
  PROVE  /\ \A n : News(o, n) => Numbers(o) = {n} /\ o.type # "book"
         /\ \A t : Book(o, t) => Numbers(o) = {}
         /\ Aside(o) => Numbers(o) = {}
<1>1. ASSUME NEW n, News(o, n) PROVE Numbers(o) = {n} /\ o.type # "book"
  <2>1. o.type # "book"
    BY <1>1 DEF News, Kinds, MarketKinds, UserKinds, TopicKinds
  <2>2. PICK t \in DOMAIN o.changes : TRUE
    BY <1>1 DEF News
  <2>3. \A u \in DOMAIN o.changes : o.changes[u].change.n = n
    BY <1>1 DEF News
  <2> QED
    BY <2>1, <2>2, <2>3 DEF Numbers
<1>2. Aside(o) => Numbers(o) = {}
  BY DEF Aside, Numbers
<1> QED
  BY <1>1, <1>2 DEF Book, Numbers

(* The numbers of a frame, and its objects. *)
LEMMA CarriedIs ==
  ASSUME FeedTypeOK, NEW f, IsSeq(f.objects)
  PROVE  /\ Dump(f) => Carried(f) = {}
         /\ \A n : Report(f, n) => /\ Carried(f) = {n} /\ Objects(f) = {f.objects[1]}
                                   /\ f.objects[1].type # "book"
         /\ Blank(f) => Carried(f) = {} /\ \A o \in Objects(f) : Aside(o)
<1>1. Dump(f) => Carried(f) = {}
  BY NumbersIs DEF Dump, Carried
<1>2. Len(f.objects) = 1 => Objects(f) = {f.objects[1]}
  BY SeqIs DEF Objects, ToSet
<1>3. f.objects = <<>> => Objects(f) = {}
  BY SeqIs DEF Objects
<1>4. ASSUME NEW n, Report(f, n)
      PROVE  Carried(f) = {n} /\ Objects(f) = {f.objects[1]} /\ f.objects[1].type # "book"
  <2>1. Numbers(f.objects[1]) = {n} /\ f.objects[1].type # "book"
    BY <1>4, NumbersIs DEF Report
  <2> QED
    BY <1>2, <1>4, <2>1 DEF Report, Carried
<1>5. Blank(f) => \A o \in Objects(f) : Aside(o)
  BY <1>2, <1>3 DEF Blank
<1>6. Blank(f) => Carried(f) = {}
  BY <1>5, NumbersIs DEF Carried
<1> QED
  BY <1>1, <1>4, <1>5, <1>6

(* A frame with the same objects, but for whether they decode. *)
Like(g, f) ==
  /\ g.form = f.form /\ IsSeq(g.objects) /\ DOMAIN g.objects = DOMAIN f.objects
  /\ \A i \in DOMAIN g.objects :
       /\ IsObject(g.objects[i])
       /\ g.objects[i].type = f.objects[i].type /\ g.objects[i].changes = f.objects[i].changes

(* What the server sends is the frame or one like it. *)
LEMMA SendsIs ==
  ASSUME NEW form, NEW os, IsSeq(os), \A o \in ToSet(os) : IsObject(o), Sends(Frame(form, os))
  PROVE  \E g : sock' = Append(sock, g) /\ Like(g, Frame(form, os))
<1> DEFINE f == Frame(form, os)
<1>1. f.form = form /\ f.objects = os
  BY DEF Frame
<1>2. \A i \in DOMAIN os : IsObject(os[i])
  BY SeqIs
<1>3. CASE sock' = Append(sock, f)
  BY <1>1, <1>2, <1>3 DEF Like
<1>4. ASSUME NEW i \in DOMAIN os, sock' = Append(sock, [f EXCEPT !.objects[i].good = FALSE])
      PROVE  \E g : sock' = Append(sock, g) /\ Like(g, f)
  <2> DEFINE o == [os[i] EXCEPT !.good = FALSE]
             gs == [os EXCEPT ![i] = o]
             g == [f EXCEPT !.objects[i].good = FALSE]
  <2>1. g = [form |-> form, objects |-> gs]
    <3>1. g = [f EXCEPT !.objects = [f.objects EXCEPT ![i] = [f.objects[i] EXCEPT !.good = FALSE]]]
      OBVIOUS
    <3>2. g = [f EXCEPT !.objects = gs]
      BY <1>1, <3>1, Zenon
    <3> HIDE DEF gs, g
    <3> QED
      BY <3>2 DEF Frame
  <2>2. o.type = os[i].type /\ o.changes = os[i].changes /\ IsObject(o)
    <3>1. os[i] = [k \in {"type", "changes", "good"} |-> os[i][k]]
      BY <1>2, Zenon DEF IsObject
    <3> QED
      BY <3>1 DEF IsObject
  <2>3. /\ DOMAIN gs = DOMAIN os /\ gs = [k \in DOMAIN os |-> gs[k]]
        /\ gs[i] = o /\ \A k \in DOMAIN os \ {i} : gs[k] = os[k]
    <3> HIDE DEF o
    <3> QED
      OBVIOUS
  <2>4. IsSeq(gs)
    <3> HIDE DEF gs
    <3> QED
      BY <2>3, MapIs, Zenon
  <2>5. \A k \in DOMAIN gs : /\ IsObject(gs[k])
                             /\ gs[k].type = os[k].type /\ gs[k].changes = os[k].changes
    <3> HIDE DEF gs, o
    <3> QED
      BY <1>2, <2>2, <2>3
  <2>6. g.form = form /\ g.objects = gs
    BY <2>1
  <2>7. Like(g, f)
    <3> HIDE DEF gs, o, g, f
    <3> QED
      BY <1>1, <2>3, <2>4, <2>5, <2>6 DEF Like
  <2> QED
    BY <1>4, <2>7
<1> QED
  BY <1>1, <1>3, <1>4 DEF Sends

(* A frame like one that is formed is formed the same way. *)
LEMMA LikeIs ==
  ASSUME NEW f, NEW g, Like(g, f), IsSeq(f.objects)
  PROVE  /\ IsSeq(g.objects) /\ \A o \in Objects(g) : IsObject(o)
         /\ Dump(f) => Dump(g)
         /\ \A n : Report(f, n) => Report(g, n)
         /\ Blank(f) => Blank(g)
<1>1. IsSeq(g.objects) /\ g.form = f.form /\ Len(g.objects) = Len(f.objects)
  BY SeqIs DEF Like
<1>2. \A o \in Objects(g) : \E p \in Objects(f) :
        IsObject(o) /\ o.type = p.type /\ o.changes = p.changes
  BY DEF Like, Objects, ToSet
<1>3. \A p \in Objects(f) : \E o \in Objects(g) : o.type = p.type /\ o.changes = p.changes
  BY DEF Like, Objects, ToSet
<1>4. \A o, p, t : o.type = p.type /\ o.changes = p.changes => (Book(o, t) <=> Book(p, t))
  BY DEF Book
<1>5. \A o, p, n : o.type = p.type /\ o.changes = p.changes => (News(o, n) <=> News(p, n))
  BY DEF News
<1>6. \A o, p : o.type = p.type /\ o.changes = p.changes => (Aside(o) <=> Aside(p))
  BY DEF Aside
<1>7. Dump(f) => Dump(g)
  <2> SUFFICES ASSUME Dump(f) PROVE Dump(g)
    OBVIOUS
  <2>1. \A o \in Objects(g) : \E t \in Tokens : Book(o, t)
    BY <1>2, <1>4 DEF Dump
  <2>2. \A t \in Tokens : \E o \in Objects(g) : Book(o, t)
    BY <1>3, <1>4 DEF Dump
  <2> QED
    BY <1>1, <2>1, <2>2 DEF Dump
<1>8. Len(f.objects) = 1 =>
        g.objects[1].type = f.objects[1].type /\ g.objects[1].changes = f.objects[1].changes
  BY <1>1, SeqIs DEF Like
<1>9. \A n : Report(f, n) => Report(g, n)
  BY <1>1, <1>5, <1>8 DEF Report
<1>10. f.objects = <<>> => g.objects = <<>>
  BY <1>1, SeqIs
<1>11. Blank(f) => Blank(g)
  BY <1>1, <1>6, <1>8, <1>10 DEF Blank
<1> QED
  BY <1>1, <1>2, <1>7, <1>9, <1>11

(* What a frame decodes to. *)
LEMMA ClobIs ==
  ASSUME FeedTypeOK, channel # "rtds", NEW f, IsSeq(f.objects), f.form \in {"object", "array"},
         ~decode(f).error
  PROVE  /\ DOMAIN decode(f).events = DOMAIN f.objects /\ IsSeq(decode(f).events)
         /\ Len(decode(f).events) = Len(f.objects)
         /\ \A i \in DOMAIN f.objects :
              /\ f.objects[i].type \in Known(channel) => decode(f).events[i] = f.objects[i]
              /\ Aside(f.objects[i]) /\ IsObject(f.objects[i]) => Aside(decode(f).events[i])
<1> DEFINE os == f.objects
           es == [i \in DOMAIN os |-> DecodeObject(channel, os[i])]
<1>1. decode(f) = Decoded(es)
  <2>1. decode(f) = DecodeClob(channel, f)
    BY DEF decode
  <2>2. DecodeClob(channel, f) = Failure \/ DecodeClob(channel, f) = Decoded(es)
    BY DEF DecodeClob, splitFrame
  <2>3. Failure.error
    BY DEF Failure
  <2> QED
    BY <2>1, <2>2, <2>3, Zenon
<1>2. decode(f).events = es
  BY <1>1 DEF Decoded
<1>3. DOMAIN es = DOMAIN os /\ \A i \in DOMAIN os : es[i] = DecodeObject(channel, os[i])
  OBVIOUS
<1>4. IsSeq(es) /\ Len(es) = Len(os)
  <2>1. es = [i \in DOMAIN os |-> es[i]]
    OBVIOUS
  <2> HIDE DEF es
  <2> QED
    BY <1>3, <2>1, MapIs
<1>5. \A o : o.type \in Known(channel) => DecodeObject(channel, o) = o
  BY Zenon DEF DecodeObject
<1>6. ASSUME NEW o, Aside(o), IsObject(o) PROVE Aside(DecodeObject(channel, o))
  <2>1. CASE DecodeObject(channel, o) = o
    BY <1>6, <2>1
  <2>2. CASE DecodeObject(channel, o) = [o EXCEPT !.type = "unknown"]
    <3>1. o = [k \in {"type", "changes", "good"} |-> o[k]]
      BY <1>6, Zenon DEF IsObject
    <3> QED
      BY <1>6, <2>2, <3>1 DEF Aside
  <2> QED
    BY <2>1, <2>2 DEF DecodeObject
<1> HIDE DEF es
<1> QED
  BY <1>2, <1>3, <1>4, <1>5, <1>6

(* The same of an envelope. *)
LEMMA EnvelopeIs ==
  ASSUME FeedTypeOK, channel = "rtds", NEW f, f.form = "object", IsObject(f.objects[1]),
         ~decode(f).error
  PROVE  /\ IsSeq(decode(f).events) /\ Len(decode(f).events) = 1
         /\ f.objects[1].type \in TopicKinds => decode(f).events[1] = f.objects[1]
         /\ Aside(f.objects[1]) => Aside(decode(f).events[1])
<1> DEFINE o == f.objects[1]
           e == [o EXCEPT !.type = IF @ \in {"comment_created", "reaction_removed", "rejection"} THEN @
                                   ELSE IF @ = "untitled" THEN "unknown" ELSE "update"]
<1>1. decode(f) = Decoded(<<e>>)
  <2>1. decode(f) = DecodeRTDS(f)
    BY DEF decode
  <2>2. DecodeRTDS(f) = Failure \/ DecodeRTDS(f) = Decoded(<<e>>)
    BY DEF DecodeRTDS
  <2>3. Failure.error
    BY DEF Failure
  <2> QED
    BY <2>1, <2>2, <2>3, Zenon
<1>2. decode(f).events = <<e>>
  BY <1>1 DEF Decoded
<1>3. o = [k \in {"type", "changes", "good"} |-> o[k]]
  BY Zenon DEF IsObject
<1>4. /\ e = [k \in {"type", "changes", "good"} |-> e[k]]
      /\ e.changes = o.changes /\ e.good = o.good
      /\ e.type \in {o.type, "unknown", "update"}
      /\ o.type \in TopicKinds => e.type = o.type
  <2> HIDE DEF o
  <2> QED
    BY <1>3 DEF TopicKinds
<1>5. o.type \in TopicKinds => e = o
  <2> HIDE DEF o, e
  <2> QED
    BY <1>3, <1>4
<1>6. Aside(o) => Aside(e)
  <2> HIDE DEF o, e
  <2> QED
    BY <1>4 DEF Aside
<1>7. IsSeq(<<e>>) /\ Len(<<e>>) = 1 /\ <<e>>[1] = e
  <2> HIDE DEF e
  <2>1. <<e>> \in Seq({e})
    OBVIOUS
  <2> QED
    BY <2>1, SeqWithin
<1> HIDE DEF e
<1> QED
  BY <1>2, <1>5, <1>6, <1>7

(* What a frame that is formed decodes to. *)
LEMMA DecodeIs ==
  ASSUME FeedTypeOK, NEW f, Formed(f), f.form # "binary", ~decode(f).error
  PROVE  /\ IsSeq(decode(f).events)
         /\ Dump(f) => ToSet(decode(f).events) = Objects(f)
         /\ \A n : Report(f, n) => Len(decode(f).events) = 1 /\ decode(f).events[1] = f.objects[1]
         /\ Blank(f) => \/ decode(f).events = <<>>
                        \/ Len(decode(f).events) = 1 /\ Aside(decode(f).events[1])
<1> DEFINE es == decode(f).events
<1>1. IsSeq(f.objects) /\ \A i \in DOMAIN f.objects : IsObject(f.objects[i])
  BY SeqIs DEF Formed, Objects
<1>2. Len(f.objects) = 1 => 1 \in DOMAIN f.objects
  BY <1>1, SeqIs
<1>3. CASE f.form = "array"
  <2>1. Dump(f) /\ channel = "market"
    BY <1>3 DEF Formed, Dump, Report, Blank
  <2>2. \A i \in DOMAIN f.objects : f.objects[i].type \in Known(channel)
    <3>1. "book" \in Known(channel)
      BY <2>1 DEF Known
    <3>2. \A o \in Objects(f) : o.type = "book"
      BY <2>1 DEF Dump, Book
    <3> QED
      BY <1>1, <3>1, <3>2, SeqIs DEF Objects
  <2>3. IsSeq(es) /\ DOMAIN es = DOMAIN f.objects /\ \A i \in DOMAIN f.objects : es[i] = f.objects[i]
    <3> HIDE DEF es
    <3>1. channel # "rtds" /\ f.form \in {"object", "array"}
      BY <1>3, <2>1
    <3> QED
      BY <1>1, <2>2, <3>1, ClobIs DEF es
  <2>4. ToSet(es) = Objects(f)
    <3> HIDE DEF es
    <3> QED
      BY <2>3 DEF ToSet, Objects
  <2>5. (\A n : ~Report(f, n)) /\ ~Blank(f)
    BY <1>3 DEF Report, Blank
  <2> QED
    BY <2>3, <2>4, <2>5
<1>4. CASE f.form = "object" /\ channel # "rtds"
  <2>1. ~Dump(f) /\ Len(f.objects) = 1
    BY <1>4 DEF Formed, Dump, Report, Blank
  <2>2. /\ IsSeq(es) /\ Len(es) = 1
        /\ f.objects[1].type \in Known(channel) => es[1] = f.objects[1]
        /\ Aside(f.objects[1]) => Aside(es[1])
    BY <1>1, <1>2, <1>4, <2>1, ClobIs
  <2>3. \A n : Report(f, n) => f.objects[1].type \in Known(channel)
    BY DEF Report, News, Known
  <2>4. Blank(f) => Aside(f.objects[1])
    BY <1>4 DEF Blank
  <2> QED
    BY <2>1, <2>2, <2>3, <2>4
<1>5. CASE f.form = "object" /\ channel = "rtds"
  <2>1. ~Dump(f) /\ Len(f.objects) = 1
    BY <1>5 DEF Formed, Dump, Report, Blank
  <2>2. /\ IsSeq(es) /\ Len(es) = 1
        /\ f.objects[1].type \in TopicKinds => es[1] = f.objects[1]
        /\ Aside(f.objects[1]) => Aside(es[1])
    BY <1>1, <1>2, <1>5, <2>1, EnvelopeIs
  <2>3. \A n : Report(f, n) => f.objects[1].type \in TopicKinds
    BY <1>5 DEF Report, News, Kinds
  <2>4. Blank(f) => Aside(f.objects[1])
    BY <1>5 DEF Blank
  <2> QED
    BY <2>1, <2>2, <2>3, <2>4
<1>6. CASE f.form \in {"pong", "empty", "garbage"}
  <2>1. ~Dump(f) /\ \A n : ~Report(f, n)
    BY <1>6 DEF Dump, Report
  <2>2. decode(f) = Failure \/ decode(f) = Decoded(<<>>)
    BY <1>6 DEF decode, DecodeClob, DecodeRTDS
  <2>3. Failure.error
    BY DEF Failure
  <2>4. decode(f) = Decoded(<<>>)
    BY <2>2, <2>3, Zenon
  <2>5. es = <<>>
    BY <2>4 DEF Decoded
  <2> QED
    BY <2>1, <2>5, EmptyIs
<1> QED
  BY <1>3, <1>4, <1>5, <1>6 DEF Formed, Dump, Report, Blank
---------------------------------------------------------------------------
(* What the server does. *)

(* Its state grows by changes with new numbers. *)
Grows ==
  /\ channel' = channel /\ made' \in Nat /\ made <= made'
  /\ \A t \in Tokens : truth[t] \subseteq truth'[t]
  /\ \A t \in Tokens : \A c \in truth'[t] : c \in truth[t] \/ (c.n \in Nat /\ c.n > made)

(* What was news stays news, and a book a book. *)
LEMMA FormedStays ==
  ASSUME FeedTypeOK, Grows
  PROVE  /\ \A o : \A n \in 1..made : News(o, n) => News(o, n)'
         /\ \A o, t : Book(o, t) => Book(o, t)'
         /\ \A f : Formed(f) => Formed(f)'
<1>1. \A t \in Tokens : \A n \in 1..made : Before(t, n)' = Before(t, n)
  <2> SUFFICES ASSUME NEW t \in Tokens, NEW n \in 1..made PROVE Before(t, n)' = Before(t, n)
    OBVIOUS
  <2>1. made \in Nat
    BY DEF FeedTypeOK
  <2> QED
    BY <2>1 DEF Before, Grows
<1>2. ASSUME NEW o, NEW n \in 1..made, News(o, n) PROVE News(o, n)'
  <2>1. channel' = channel
    BY DEF Grows
  <2>2. \A t \in DOMAIN o.changes : o.changes[t].change \in truth'[t]
    BY <1>2 DEF News, Grows
  <2> QED
    BY <1>1, <1>2, <2>1, <2>2 DEF News
<1>3. ASSUME NEW o, NEW t, Book(o, t) PROVE Book(o, t)'
  <2>1. SUBSET truth[t] \subseteq SUBSET truth'[t]
    BY <1>3 DEF Book, Grows
  <2>2. [changes : SUBSET truth[t]] \subseteq [changes : SUBSET truth'[t]]
    BY <2>1
  <2> QED
    BY <1>3, <2>2 DEF Book
<1>4. ASSUME NEW f, Formed(f) PROVE Formed(f)'
  <2>1. Dump(f) => Dump(f)'
    BY <1>3 DEF Dump, Grows
  <2>2. \A n \in 1..made : Report(f, n) => n \in 1..made' /\ Report(f, n)'
    <3>1. 1..made \subseteq 1..made'
      BY DEF Grows, FeedTypeOK
    <3> QED
      BY <1>2, <3>1 DEF Report
  <2>3. Blank(f) => Blank(f)'
    BY DEF Blank
  <2> QED
    BY <1>4, <2>1, <2>2, <2>3 DEF Formed
<1> QED
  BY <1>2, <1>3, <1>4

(* It answers the subscribe frame with the books as they are. *)
LEMMA AcceptIs ==
  ASSUME FeedTypeOK, Accept
  PROVE  \/ sock' = sock /\ ~(channel = "market" /\ InitialDump)
         \/ /\ channel = "market" /\ InitialDump
            /\ \E g : /\ sock' = Append(sock, g) /\ Dump(g) /\ Formed(g)
                      /\ \A o \in Objects(g), t \in Tokens :
                           t \in DOMAIN o.changes => o.changes[t].changes = truth[t]
<1>1. CASE channel = "market" /\ InitialDump
  <2> DEFINE order == SetToSeq(Tokens)
             Answer(i) == Object("book", [token \in {order[i]} |-> View(truth[order[i]])], TRUE)
             os == [i \in DOMAIN order |-> Answer(i)]
  <2>1. IsSeq(order) /\ ToSet(order) = Tokens
    BY TokensInSeq
  <2>2. DOMAIN os = DOMAIN order /\ \A i \in DOMAIN order : os[i] = Answer(i)
    OBVIOUS
  <2>3. IsSeq(os)
    <3>1. os = [i \in DOMAIN os |-> os[i]]
      OBVIOUS
    <3> HIDE DEF order, os
    <3> QED
      BY <2>1, <2>2, <3>1, MapIs
  <2>4. \A i \in DOMAIN order : order[i] \in Tokens
    BY <2>1 DEF ToSet
  <2>5. Sends(Frame("array", os))
    BY <1>1 DEF Accept
  <2>6. ASSUME NEW i \in DOMAIN order
        PROVE  /\ IsObject(Answer(i)) /\ Book(Answer(i), order[i])
               /\ Answer(i).changes[order[i]].changes = truth[order[i]]
    <3> DEFINE u == order[i]
    <3>1. u \in Tokens /\ truth[u] \subseteq truth[u]
      BY <2>4
    <3> HIDE DEF u
    <3>2. /\ IsObject(Object("book", [token \in {u} |-> View(truth[u])], TRUE))
          /\ Book(Object("book", [token \in {u} |-> View(truth[u])], TRUE), u)
          /\ Object("book", [token \in {u} |-> View(truth[u])], TRUE).changes[u].changes = truth[u]
      BY <3>1 DEF IsObject, Object, Book, View
    <3> QED
      BY <3>2 DEF u
  <2> DEFINE f == Frame("array", os)
  <2>7. f.form = "array" /\ f.objects = os
    <3> HIDE DEF os
    <3> QED
      BY DEF Frame
  <2>8. \A o \in ToSet(os) : IsObject(o) /\ \E i \in DOMAIN order : o = Answer(i)
    <3> HIDE DEF os, Answer
    <3> QED
      BY <2>2, <2>6 DEF ToSet
  <2>9. Dump(f)
    <3>1. \A o \in Objects(f) : \E t \in Tokens : Book(o, t)
      <4> HIDE DEF os, Answer, order, f
      <4> QED
        BY <2>4, <2>6, <2>7, <2>8 DEF Objects
    <3>2. \A t \in Tokens : \E o \in Objects(f) : Book(o, t)
      <4> SUFFICES ASSUME NEW t \in Tokens PROVE \E o \in Objects(f) : Book(o, t)
        OBVIOUS
      <4>1. PICK i \in DOMAIN order : order[i] = t
        BY <2>1 DEF ToSet
      <4> HIDE DEF os, Answer, order, f
      <4>2. os[i] \in Objects(f)
        BY <2>2, <2>7 DEF Objects, ToSet
      <4> QED
        BY <2>2, <2>6, <4>1, <4>2
    <3> HIDE DEF f, os
    <3> QED
      BY <1>1, <2>7, <3>1, <3>2 DEF Dump
  <2>10. PICK g : sock' = Append(sock, g) /\ Like(g, f)
    <3> HIDE DEF os
    <3> QED
      BY <2>3, <2>5, <2>8, SendsIs
  <2>11. IsSeq(f.objects)
    BY <2>3, <2>7, Zenon
  <2>12. Dump(g) /\ Formed(g)
    <3> HIDE DEF f
    <3> QED
      BY <2>9, <2>10, <2>11, LikeIs DEF Formed
  <2>13. \A o \in Objects(g), t \in Tokens : t \in DOMAIN o.changes => o.changes[t].changes = truth[t]
    <3> SUFFICES ASSUME NEW o \in Objects(g), NEW t \in Tokens, t \in DOMAIN o.changes
                 PROVE  o.changes[t].changes = truth[t]
      OBVIOUS
    <3> HIDE DEF f, os, Answer, order
    <3>1. PICK i \in DOMAIN g.objects : o = g.objects[i]
      BY DEF Objects, ToSet
    <3>2. i \in DOMAIN order /\ o.changes = Answer(i).changes
      BY <2>2, <2>7, <2>10, <3>1 DEF Like
    <3>3. DOMAIN Answer(i).changes = {order[i]}
      BY <2>6, <3>2 DEF Book
    <3> QED
      BY <2>6, <3>2, <3>3
  <2> HIDE DEF f
  <2> QED
    BY <1>1, <2>10, <2>12, <2>13
<1>2. CASE ~(channel = "market" /\ InitialDump)
  BY <1>2 DEF Accept
<1> QED
  BY <1>1, <1>2

(* It streams the change it makes, to whom it has answered. *)
LEMMA MoveIs ==
  ASSUME FeedTypeOK, Made, Move
  PROVE  /\ Grows /\ made' = made + 1
         /\ \E kind \in Kinds(channel), ts \in SUBSET Tokens :
              /\ truth' = [t \in Tokens |->
                             IF t \in ts THEN truth[t] \cup {[n |-> made + 1, kind |-> kind]}
                             ELSE truth[t]]
              /\ kind = "price_change" => ts = Tokens
              /\ up /\ taken =>
                   /\ said' = Append(said, made + 1) /\ missed' = missed
                   /\ \E g, n : /\ sock' = Append(sock, g) /\ n = made + 1
                                /\ Report(g, n)' /\ Formed(g)' /\ DOMAIN g.objects[1].changes = ts
              /\ ~(up /\ taken) =>
                   /\ said' = said /\ sock' = sock
                   /\ missed' = IF channel = "user" THEN missed \cup {made + 1} ELSE missed
<1> DEFINE k == made + 1
<1>0. made \in Nat /\ made' = k /\ k \in Nat /\ made < k /\ channel' = channel /\ k \in 1..k
  BY DEF FeedTypeOK, Move
<1>1. PICK kind \in Kinds(channel), one \in Tokens :
        LET ts == IF kind = "price_change" THEN Tokens ELSE {one}
        IN  /\ truth' = [t \in Tokens |->
                           IF t \in ts THEN truth[t] \cup {[n |-> made + 1, kind |-> kind]}
                           ELSE truth[t]]
            /\ IF up /\ taken
               THEN /\ Sends(Frame("object", <<Object(kind, Tells(kind, ts), TRUE)>>))
                    /\ said' = Append(said, made + 1)
                    /\ UNCHANGED missed
               ELSE /\ missed' = IF channel = "user" THEN missed \cup {made + 1} ELSE missed
                    /\ UNCHANGED <<sock, bad, said>>
  BY DEF Move
<1> DEFINE ts == IF kind = "price_change" THEN Tokens ELSE {one}
           c == [n |-> k, kind |-> kind]
<1>2. ts \in SUBSET Tokens /\ ts # {} /\ (kind = "price_change" => ts = Tokens)
  OBVIOUS
<1>3. truth' = [t \in Tokens |-> IF t \in ts THEN truth[t] \cup {c} ELSE truth[t]]
  BY <1>1
<1>4. \A t \in Tokens : truth'[t] = IF t \in ts THEN truth[t] \cup {c} ELSE truth[t]
  <2> HIDE DEF c, ts
  <2> QED
    BY <1>3
<1> DEFINE os == <<Object(kind, Tells(kind, ts), TRUE)>>
<1>5. up /\ taken => Sends(Frame("object", os)) /\ said' = Append(said, k) /\ missed' = missed
  BY <1>1
<1>6. ~(up /\ taken) => /\ said' = said /\ sock' = sock
                        /\ missed' = IF channel = "user" THEN missed \cup {k} ELSE missed
  BY <1>1
<1>7. c.n = k /\ c.kind = kind
  OBVIOUS
<1> HIDE DEF k, ts, c
<1>8. Grows
  <2>1. \A t \in Tokens : truth[t] \subseteq truth'[t]
    BY <1>4
  <2>2. \A t \in Tokens : \A d \in truth'[t] : d \in truth[t] \/ (d.n \in Nat /\ d.n > made)
    BY <1>0, <1>4, <1>7
  <2> QED
    BY <1>0, <2>1, <2>2 DEF Grows
<1>9. \A t \in Tokens : truth'[t] = {d \in truth'[t] : d.n <= k}
  <2> SUFFICES ASSUME NEW t \in Tokens, NEW d \in truth'[t] PROVE d.n <= k
    OBVIOUS
  <2>1. d \in truth[t] \/ d.n = k
    BY <1>4, <1>7
  <2>2. d \in truth[t] => d.n \in 1..made
    BY DEF Made
  <2> QED
    BY <1>0, <2>1, <2>2
<1>10. ASSUME up /\ taken
       PROVE  \E g, n : /\ sock' = Append(sock, g) /\ n = k
                        /\ Report(g, n)' /\ Formed(g)' /\ DOMAIN g.objects[1].changes = ts
  <2> DEFINE x == Object(kind, Tells(kind, ts), TRUE)
  <2>1. /\ DOMAIN Tells(kind, ts) = ts
        /\ \A t \in ts : Tells(kind, ts)[t].change = c /\ Tells(kind, ts)[t].hash = truth'[t]
    BY DEF Tells, c, k, BookHash
  <2>2. IsObject(x) /\ x.type = kind /\ x.changes = Tells(kind, ts)
    BY DEF IsObject, Object
  <2>3. /\ os = <<x>> /\ Len(os) = 1 /\ os[1] = x /\ ToSet(os) = {x} /\ IsSeq(os)
        /\ DOMAIN os = 1..1
        /\ Frame("object", os).form = "object" /\ Frame("object", os).objects = os
    <3>1. os = <<x>>
      OBVIOUS
    <3> HIDE DEF x, os
    <3>2. <<x>> \in Seq({x}) /\ Len(<<x>>) = 1 /\ <<x>>[1] = x /\ ToSet(<<x>>) = {x}
          /\ DOMAIN <<x>> = 1..1
      BY DEF ToSet
    <3> QED
      BY <3>1, <3>2, SeqWithin DEF Frame
  <2> HIDE DEF x, os
  <2>4. PICK o : o = x
    OBVIOUS
  <2>5. PICK g : sock' = Append(sock, g) /\ Like(g, Frame("object", os))
    BY <1>5, <1>10, <2>2, <2>3, SendsIs
  <2>6. PICK n : n = k
    OBVIOUS
  <2>7. News(o, n)' /\ DOMAIN o.changes = ts
    <3>1. o.type \in Kinds(channel') /\ o.type = kind
      BY <1>0, <2>2, <2>4
    <3>2. \A t \in ts : /\ o.changes[t].change = [n |-> n, kind |-> o.type]
                        /\ o.changes[t].change \in truth'[t]
                        /\ o.changes[t].hash = truth'[t]
      <4>1. \A t \in ts : o.changes[t].change = c /\ o.changes[t].hash = truth'[t]
        BY <2>1, <2>2, <2>4, Zenon
      <4>2. \A t \in ts : c \in truth'[t]
        BY <1>2, <1>4
      <4>3. c = [n |-> n, kind |-> o.type]
        BY <2>6, <3>1 DEF c
      <4> QED
        BY <4>1, <4>2, <4>3, Zenon
    <3>3. \A t \in Tokens : truth'[t] = {d \in truth'[t] : d.n <= n}
      BY <1>9, <2>6
    <3>4. DOMAIN o.changes = ts
      BY <2>1, <2>2, <2>4
    <3> QED
      BY <1>2, <3>1, <3>2, <3>3, <3>4 DEF News, Before
  <2>8. /\ g.form = "object" /\ IsSeq(g.objects) /\ Len(g.objects) = 1
        /\ g.objects[1].type = o.type /\ g.objects[1].changes = o.changes
        /\ \A y \in Objects(g) : IsObject(y)
    <3>1. g.form = "object" /\ IsSeq(g.objects) /\ DOMAIN g.objects = DOMAIN os
      BY <2>3, <2>5 DEF Like
    <3>2. Len(g.objects) = 1 /\ 1 \in DOMAIN g.objects
      <4>1. DOMAIN g.objects = 1..1
        BY <2>3, <3>1, Zenon
      <4>2. DOMAIN g.objects = 1..Len(g.objects) /\ Len(g.objects) \in Nat
        BY <3>1, SeqIs
      <4>3. \A l \in Nat : 1..l = 1..1 => l = 1 /\ 1 \in 1..1
        <5> SUFFICES ASSUME NEW l \in Nat, 1..l = 1..1 PROVE l = 1
          OBVIOUS
        <5>1. 1 \in 1..l /\ (l >= 1 => l \in 1..l)
          OBVIOUS
        <5> QED
          BY <5>1
      <4> QED
        BY <4>1, <4>2, <4>3, Zenon
    <3>3. \A y \in Objects(g) : IsObject(y)
      BY <2>5 DEF Like, Objects, ToSet
    <3>4. g.objects[1].type = os[1].type /\ g.objects[1].changes = os[1].changes
      BY <2>3, <2>5, <3>2 DEF Like
    <3> QED
      BY <2>3, <2>4, <3>1, <3>2, <3>3, <3>4
  <2>9. Report(g, n)'
    <3>1. News(g.objects[1], n)'
      BY <2>7, <2>8 DEF News
    <3> QED
      BY <2>8, <3>1 DEF Report
  <2>10. Formed(g)'
    <3>1. n \in 1..made'
      BY <1>0, <2>6
    <3> QED
      BY <2>8, <2>9, <3>1 DEF Formed
  <2> QED
    BY <2>5, <2>6, <2>7, <2>8, <2>9, <2>10
<1>11. truth' = [t \in Tokens |-> IF t \in ts THEN truth[t] \cup {[n |-> made + 1, kind |-> kind]}
                                  ELSE truth[t]]
  BY <1>3 DEF c, k
<1> HIDE DEF os
<1> QED
  BY <1>0, <1>2, <1>5, <1>6, <1>8, <1>10, <1>11 DEF k

(* A frame that changes nothing is blank. *)
LEMMA NoiseIs ==
  ASSUME FeedTypeOK, Noise
  PROVE  \E g : sock' = Append(sock, g) /\ Blank(g) /\ Formed(g)
<1>1. ASSUME NEW form \in {"pong", "empty", "binary", "garbage"}
      PROVE  Blank(Frame(form, <<>>)) /\ Formed(Frame(form, <<>>))
  BY EmptyIs DEF Blank, Formed, Frame, Objects
<1>2. ASSUME NEW type \in Asides(channel)
      PROVE  Blank(Frame("object", <<Object(type, <<>>, TRUE)>>))
             /\ Formed(Frame("object", <<Object(type, <<>>, TRUE)>>))
  <2> DEFINE o == Object(type, <<>>, TRUE)
             f == Frame("object", <<o>>)
  <2>1. type # "book"
    BY DEF Asides
  <2>2. Aside(o) /\ IsObject(o)
    BY <2>1 DEF Aside, IsObject, Object
  <2> HIDE DEF o
  <2>3. f.form = "object" /\ f.objects = <<o>> /\ <<o>> \in Seq({o})
        /\ Len(<<o>>) = 1 /\ <<o>>[1] = o /\ ToSet(<<o>>) = {o}
    BY DEF Frame, ToSet
  <2> HIDE DEF f
  <2>4. Blank(f) /\ Formed(f)
    BY <2>2, <2>3, SeqWithin DEF Blank, Formed, Objects
  <2> QED
    BY <2>4 DEF f, o
<1>3. PICK f \in {Frame(form, <<>>) : form \in {"pong", "empty", "binary", "garbage"}}
              \cup {Frame("object", <<Object(type, <<>>, TRUE)>>) : type \in Asides(channel)} :
        sock' = Append(sock, f)
  BY DEF Noise
<1> QED
  BY <1>1, <1>2, <1>3
---------------------------------------------------------------------------
(* What is on its way. *)

(* A frame is sent. *)
LEMMA SentIs ==
  ASSUME FeedTypeOK, NEW g, sock' = Append(sock, g), events' = events
  PROVE  /\ IsSeq(sock') /\ ToSet(sock') = ToSet(sock) \cup {g}
         /\ Coming' = Coming \cup Objects(g)
         /\ Events' = Events /\ Sock' = Sock \cup Carried(g)
<1>1. IsSeq(sock') /\ ToSet(sock') = ToSet(sock) \cup {g}
  BY AppendIs DEF FeedTypeOK
<1>2. Coming' = ToSet(events') \cup UNION {Objects(f) : f \in ToSet(sock')}
  BY DEF Coming
<1>3. Sock' = UNION {Carried(f) : f \in ToSet(sock')}
  BY DEF Sock
<1>4. Coming' = Coming \cup Objects(g)
  BY <1>1, <1>2 DEF Coming
<1>5. Sock' = Sock \cup Carried(g)
  BY <1>1, <1>3 DEF Sock
<1> QED
  BY <1>1, <1>4, <1>5 DEF Events

(* Frames are lost from the end. *)
LEMMA BrokenIs ==
  ASSUME FeedTypeOK, NEW k \in 0 .. Len(sock), sock' = SubSeq(sock, 1, k), events' = events
  PROVE  /\ IsSeq(sock') /\ ToSet(sock') \subseteq ToSet(sock)
         /\ DOMAIN sock' = 1..k /\ DOMAIN sock' \subseteq DOMAIN sock
         /\ \A i \in DOMAIN sock' : sock'[i] = sock[i]
         /\ Coming' \subseteq Coming /\ Sock' \subseteq Sock /\ Events' = Events
<1>1. /\ IsSeq(sock') /\ ToSet(sock') \subseteq ToSet(sock)
      /\ DOMAIN sock' = 1..k /\ DOMAIN sock' \subseteq DOMAIN sock
      /\ \A i \in DOMAIN sock' : sock'[i] = sock[i]
  <2>1. IsSeq(sock)
    BY DEF FeedTypeOK
  <2> QED
    BY <2>1, CutIs
<1>2. Coming' = ToSet(events') \cup UNION {Objects(f) : f \in ToSet(sock')}
  BY DEF Coming
<1>3. Sock' = UNION {Carried(f) : f \in ToSet(sock')}
  BY DEF Sock
<1> QED
  BY <1>1, <1>2, <1>3 DEF Coming, Sock, Events

(* Objects that are about no token say nothing of books or changes. *)
LEMMA AsideIs ==
  ASSUME NEW A, NEW B, NEW X, Coming = A \cup X, Coming' = B \cup X,
         \A o \in (A \ B) \cup (B \ A) : Aside(o)
  PROVE  Books' = Books /\ \A t : Told(t)' = Told(t)
<1>1. \A o : ~Aside(o) => (o \in Coming <=> o \in Coming')
  OBVIOUS
<1>2. Books' = {o \in Coming' : o.type = "book"}
  BY DEF Books
<1>3. Books' = Books
  BY <1>1, <1>2 DEF Books, Aside
<1>4. ASSUME NEW t PROVE Told(t)' = Told(t)
  <2>1. Told(t)' = {o.changes[t].change : o \in {x \in Coming' \ Books' : t \in DOMAIN x.changes}}
    BY DEF Told
  <2>2. {x \in Coming' \ Books' : t \in DOMAIN x.changes} = {x \in Coming \ Books : t \in DOMAIN x.changes}
    BY <1>1, <1>3 DEF Aside
  <2> QED
    BY <2>1, <2>2 DEF Told
<1> QED
  BY <1>3, <1>4

(* The loop takes the first frame. *)
LEMMA FirstIs ==
  ASSUME FeedTypeOK, sock # <<>>, sock' = Tail(sock)
  PROVE  /\ Head(sock) = sock[1] /\ 1 \in DOMAIN sock
         /\ IsSeq(sock') /\ ToSet(sock) = {Head(sock)} \cup ToSet(sock')
         /\ \A i \in DOMAIN sock' : i \in Nat /\ i + 1 \in DOMAIN sock /\ sock'[i] = sock[i + 1]
         /\ Sock = Carried(Head(sock)) \cup Sock'
         /\ UNION {Objects(f) : f \in ToSet(sock)} =
              Objects(Head(sock)) \cup UNION {Objects(f) : f \in ToSet(sock')}
<1>1. IsSeq(sock)
  BY DEF FeedTypeOK
<1>2. /\ Head(sock) = sock[1] /\ 1 \in DOMAIN sock
      /\ IsSeq(sock') /\ ToSet(sock) = {Head(sock)} \cup ToSet(sock')
      /\ DOMAIN sock' = 1..(Len(sock) - 1)
      /\ \A i \in DOMAIN sock' : i + 1 \in DOMAIN sock /\ sock'[i] = sock[i + 1]
  BY <1>1, TailIs
<1>3. Sock' = UNION {Carried(f) : f \in ToSet(sock')}
  BY DEF Sock
<1>4. Sock = Carried(Head(sock)) \cup Sock'
  BY <1>2, <1>3 DEF Sock
<1>5. UNION {Objects(f) : f \in ToSet(sock)} =
        Objects(Head(sock)) \cup UNION {Objects(f) : f \in ToSet(sock')}
  BY <1>2
<1>6. \A i \in DOMAIN sock' : i \in Nat
  BY <1>1, <1>2
<1> QED
  BY <1>2, <1>4, <1>5, <1>6

(* What it does with it. *)
LEMMA ReadIs ==
  ASSUME FeedTypeOK, WellFormed, ReadNext
  PROVE  \E f :
    /\ f = sock[1] /\ 1 \in DOMAIN sock /\ f \in ToSet(sock) /\ Formed(f)
    /\ events = <<>>
    /\ \/ /\ dropped' = dropped \cup UNION {DOMAIN o.changes : o \in Objects(f)}
          /\ lost' = lost \cup Carried(f)
          /\ events' = <<>> /\ phase' = "read"
          /\ Coming = Objects(f) \cup Coming'
          /\ Events' = {}
       \/ /\ dropped' = dropped /\ lost' = lost
          /\ IsSeq(events') /\ phase' \in {"read", "deliver"}
          /\ phase' = "deliver" <=> events' # <<>>
          /\ Books' = Books /\ \A t : Told(t)' = Told(t)
          /\ Events' = Carried(f)
          /\ Dump(f) => ToSet(events') = Objects(f)
          /\ \A n : Report(f, n) => Len(events') = 1 /\ events'[1] = f.objects[1]
          /\ Blank(f) => events' = <<>> \/ (Len(events') = 1 /\ Aside(events'[1]))
<1> DEFINE h == Head(sock)
<1>1. sock # <<>> /\ sock' = Tail(sock) /\ phase = "read" /\ events = <<>>
  BY DEF ReadNext, FeedTypeOK
<1>2. /\ h = sock[1] /\ 1 \in DOMAIN sock /\ h \in ToSet(sock)
      /\ UNION {Objects(x) : x \in ToSet(sock)} = Objects(h) \cup UNION {Objects(x) : x \in ToSet(sock')}
  BY <1>1, FirstIs
<1>3. Formed(h)
  BY <1>2 DEF WellFormed
<1>4. \/ /\ dropped' = dropped \cup UNION {DOMAIN h.objects[i].changes : i \in DOMAIN h.objects}
         /\ lost' = lost \cup UNION {Numbers(h.objects[i]) : i \in DOMAIN h.objects}
         /\ events' = events /\ phase' = phase
      \/ /\ h.form # "binary" /\ ~decode(h).error
         /\ events' = decode(h).events
         /\ phase' = IF decode(h).events = <<>> THEN "read" ELSE "deliver"
         /\ dropped' = dropped /\ lost' = lost
  BY DEF ReadNext
<1> HIDE DEF h
<1>5. PICK f : f = h
  OBVIOUS
<1>6. ToSet(events) = {} /\ Coming = Objects(f) \cup UNION {Objects(x) : x \in ToSet(sock')}
  BY <1>1, <1>2, <1>5, EmptyIs DEF Coming
<1>7. /\ Coming' = ToSet(events') \cup UNION {Objects(x) : x \in ToSet(sock')}
      /\ Events' = UNION {Numbers(o) : o \in ToSet(events')}
  BY DEF Coming, Events
<1>8. CASE /\ dropped' = dropped \cup UNION {DOMAIN h.objects[i].changes : i \in DOMAIN h.objects}
           /\ lost' = lost \cup UNION {Numbers(h.objects[i]) : i \in DOMAIN h.objects}
           /\ events' = events /\ phase' = phase
  <2>1. events' = <<>> /\ phase' = "read" /\ ToSet(events') = {}
    BY <1>1, <1>6, <1>8
  <2>2. UNION {DOMAIN h.objects[i].changes : i \in DOMAIN h.objects}
          = UNION {DOMAIN o.changes : o \in Objects(f)}
    BY <1>5 DEF Objects, ToSet
  <2>3. UNION {Numbers(h.objects[i]) : i \in DOMAIN h.objects} = Carried(f)
    BY <1>5 DEF Objects, ToSet, Carried
  <2>4. Coming = Objects(f) \cup Coming' /\ Events' = {}
    BY <1>6, <1>7, <2>1
  <2> QED
    BY <1>1, <1>2, <1>3, <1>5, <1>8, <2>1, <2>2, <2>3, <2>4
<1>9. CASE /\ h.form # "binary" /\ ~decode(h).error
           /\ events' = decode(h).events
           /\ phase' = IF decode(h).events = <<>> THEN "read" ELSE "deliver"
           /\ dropped' = dropped /\ lost' = lost
  <2>1. /\ IsSeq(events')
        /\ Dump(f) => ToSet(events') = Objects(f)
        /\ \A n : Report(f, n) => Len(events') = 1 /\ events'[1] = f.objects[1]
        /\ Blank(f) => events' = <<>> \/ (Len(events') = 1 /\ Aside(events'[1]))
    BY <1>3, <1>5, <1>9, DecodeIs
  <2>2. phase' \in {"read", "deliver"} /\ (phase' = "deliver" <=> events' # <<>>)
    BY <1>9
  <2>3. IsSeq(f.objects)
    BY <1>3, <1>5 DEF Formed
  <2>4. Len(events') = 1 => ToSet(events') = {events'[1]}
    BY <2>1, SeqIs DEF ToSet
  <2>5. events' = <<>> => ToSet(events') = {}
    BY <2>1, SeqIs
  <2>6. CASE Dump(f) \/ \E n : Report(f, n)
    <3>1. ToSet(events') = Objects(f)
      BY <2>1, <2>3, <2>4, <2>6, CarriedIs
    <3>2. Events' = Carried(f)
      BY <1>7, <3>1 DEF Carried
    <3>3. Coming' = Coming
      BY <1>6, <1>7, <3>1
    <3>4. Books' = Books
      BY <3>3 DEF Books
    <3>5. \A t : Told(t)' = Told(t)
      BY <3>3, <3>4 DEF Told
    <3> QED
      BY <1>1, <1>2, <1>3, <1>5, <1>9, <2>1, <2>2, <3>2, <3>4, <3>5
  <2>7. CASE Blank(f)
    <3>1. (\A o \in Objects(f) : Aside(o)) /\ Carried(f) = {}
      BY <2>3, <2>7, CarriedIs
    <3>2. \A o \in ToSet(events') : Aside(o)
      BY <2>1, <2>4, <2>5, <2>7
    <3>3. Books' = Books /\ \A t : Told(t)' = Told(t)
      <4>1. PICK A, B, X : /\ A = Objects(f) /\ B = ToSet(events')
                           /\ X = UNION {Objects(x) : x \in ToSet(sock')}
        OBVIOUS
      <4>2. Coming = A \cup X /\ Coming' = B \cup X
        BY <1>6, <1>7, <4>1
      <4>3. \A o \in (A \ B) \cup (B \ A) : Aside(o)
        BY <3>1, <3>2, <4>1
      <4> QED
        BY <4>2, <4>3, AsideIs
    <3>4. Events' = Carried(f)
      BY <1>7, <3>1, <3>2, NumbersIs
    <3> QED
      BY <1>1, <1>2, <1>3, <1>5, <1>9, <2>1, <2>2, <3>3, <3>4
  <2> QED
    BY <1>3, <1>5, <2>6, <2>7 DEF Formed
<1> QED
  BY <1>4, <1>8, <1>9

(* The caller takes the first event. *)
LEMMA TakeIs ==
  ASSUME FeedTypeOK, WellFormed, TakeEvent
  PROVE  \E e :
    /\ e = Head(events) /\ e \in ToSet(events) /\ IsSeq(events') /\ sock' = sock
    /\ ToSet(events) = {e} \cup ToSet(events')
    /\ Coming = {e} \cup Coming' /\ Events = Numbers(e) \cup Events' /\ Sock' = Sock
    /\ phase = "deliver" /\ phase' \in {"read", "deliver"} /\ (phase' = "deliver" <=> events' # <<>>)
    /\ \/ \E t \in Tokens : Book(e, t) /\ channel = "market"
       \/ events' = <<>> /\ \E n \in 1..made : News(e, n)
       \/ events' = <<>> /\ Aside(e)
<1>1. PICK e : e = Head(events)
  OBVIOUS
<1>2. phase = "deliver" /\ events # <<>> /\ events' = Tail(events) /\ sock' = sock
      /\ phase' = IF events' = <<>> THEN "read" ELSE "deliver"
  BY DEF TakeEvent, FeedTypeOK
<1>3. IsSeq(events)
  BY DEF FeedTypeOK
<1>4. /\ e = events[1] /\ IsSeq(events') /\ ToSet(events) = {e} \cup ToSet(events')
      /\ DOMAIN events' = 1..(Len(events) - 1) /\ Len(events) \in Nat
  BY <1>1, <1>2, <1>3, TailIs, SeqIs
<1>5. Coming = {e} \cup Coming'
  <2>1. Coming' = ToSet(events') \cup UNION {Objects(f) : f \in ToSet(sock)}
    BY <1>2 DEF Coming
  <2> QED
    BY <1>4, <2>1 DEF Coming
<1>6. Events = Numbers(e) \cup Events'
  <2>1. Events' = UNION {Numbers(o) : o \in ToSet(events')}
    BY DEF Events
  <2> QED
    BY <1>4, <2>1 DEF Events
<1>7. Sock' = Sock
  BY <1>2 DEF Sock
<1>8. Len(events) = 1 => events' = <<>>
  <2>1. Len(events) = 1 => DOMAIN events' = {}
    BY <1>4
  <2>2. DOMAIN events' = {} => ToSet(events') = {}
    BY DEF ToSet
  <2> QED
    BY <1>4, <2>1, <2>2, SeqIs
<1>9. e \in ToSet(events)
  BY <1>4
<1>10. \/ channel = "market" /\ \A o \in ToSet(events) : \E t \in Tokens : Book(o, t)
       \/ Len(events) = 1 /\ ((\E n \in 1..made : News(events[1], n)) \/ Aside(events[1]))
  BY <1>2 DEF WellFormed
<1>11. \/ \E t \in Tokens : Book(e, t) /\ channel = "market"
       \/ events' = <<>> /\ \E n \in 1..made : News(e, n)
       \/ events' = <<>> /\ Aside(e)
  BY <1>4, <1>8, <1>9, <1>10
<1> QED
  BY <1>1, <1>2, <1>4, <1>5, <1>6, <1>7, <1>9, <1>11

(* Books are the answer to the subscription, or in its events. *)
LEMMA BooksIs ==
  ASSUME FeedTypeOK, WellFormed, NEW o \in Books
  PROVE  /\ channel = "market" /\ InitialDump
         /\ \E t \in Tokens : Book(o, t)
         /\ o \in ToSet(events) \/ \E i \in DOMAIN sock : sock[i].form = "array"
<1>1. o \in Coming /\ o.type = "book"
  BY DEF Books
<1>2. CASE o \in ToSet(events)
  <2>1. events # <<>> /\ IsSeq(events)
    BY <1>2, EmptyIs DEF FeedTypeOK
  <2>2. Len(events) = 1 => o = events[1]
    BY <1>2, <2>1, SeqIs DEF ToSet
  <2>3. ~Aside(o) /\ \A n : ~News(o, n)
    BY <1>1 DEF Aside, News, Kinds, MarketKinds, UserKinds, TopicKinds, FeedTypeOK
  <2> QED
    BY <1>2, <2>1, <2>2, <2>3 DEF WellFormed
<1>3. ASSUME NEW f \in ToSet(sock), o \in Objects(f)
      PROVE  /\ channel = "market" /\ InitialDump
             /\ \E t \in Tokens : Book(o, t)
             /\ \E i \in DOMAIN sock : sock[i].form = "array"
  <2>1. Formed(f)
    BY DEF WellFormed
  <2>2. ~Aside(o)
    BY <1>1 DEF Aside
  <2>3. Dump(f)
    BY <1>1, <1>3, <2>1, <2>2, CarriedIs DEF Formed
  <2> QED
    BY <1>3, <2>3 DEF Dump, ToSet
<1> QED
  BY <1>1, <1>2, <1>3 DEF Coming
---------------------------------------------------------------------------
(* The shape of the state, and its numbers. *)

(* What the caller does with an event. *)
LEMMA ApplyIs ==
  ASSUME TakeEvent, NEW e, e = Head(events)
  PROVE  /\ DOMAIN view' = Tokens /\ DOMAIN trusted' = Tokens
         /\ view' = [t \in Tokens |-> view'[t]] /\ trusted' = [t \in Tokens |-> trusted'[t]]
         /\ \A t \in Tokens :
              /\ t \notin DOMAIN e.changes => view'[t] = view[t] /\ trusted'[t] = trusted[t]
              /\ t \in DOMAIN e.changes /\ e.type = "book" =>
                   view'[t] = e.changes[t] /\ trusted'[t] = TRUE
              /\ t \in DOMAIN e.changes /\ e.type # "book" =>
                   /\ view'[t] = IF Held(t) THEN View(view[t].changes \cup {e.changes[t].change})
                                 ELSE NoView
                   /\ e.type = "price_change" /\ Held(t) =>
                        trusted'[t] = (e.changes[t].hash = view'[t].changes)
                   /\ ~(e.type = "price_change" /\ Held(t)) => trusted'[t] = trusted[t]
         /\ dropped' = IF e.type = "book" THEN dropped \ DOMAIN e.changes ELSE dropped
         /\ learned' = learned \o SetToSeq(Numbers(e))
         /\ UNCHANGED <<server, up, sock, said, lost, missed>>
<1>1. Apply(e) /\ UNCHANGED <<server, up, sock, said, lost, missed>>
  BY DEF TakeEvent
<1>2. /\ view' = [t \in Tokens |->
                    IF t \notin DOMAIN e.changes THEN view[t]
                    ELSE IF e.type = "book" THEN e.changes[t]
                    ELSE IF Held(t) THEN View(view[t].changes \cup {e.changes[t].change})
                    ELSE NoView]
      /\ trusted' = [t \in Tokens |->
                       IF t \notin DOMAIN e.changes THEN trusted[t]
                       ELSE IF e.type = "book" THEN TRUE
                       ELSE IF e.type = "price_change" /\ Held(t)
                            THEN e.changes[t].hash = view'[t].changes
                       ELSE trusted[t]]
      /\ dropped' = IF e.type = "book" THEN dropped \ DOMAIN e.changes ELSE dropped
      /\ learned' = learned \o SetToSeq(Numbers(e))
  BY <1>1, Zenon DEF Apply, BookHash
<1>3. DOMAIN view' = Tokens /\ view' = [t \in Tokens |-> view'[t]]
  BY <1>2
<1>4. DOMAIN trusted' = Tokens /\ trusted' = [t \in Tokens |-> trusted'[t]]
  BY <1>2, Zenon
<1>5. \A t \in Tokens :
        view'[t] = IF t \notin DOMAIN e.changes THEN view[t]
                   ELSE IF e.type = "book" THEN e.changes[t]
                   ELSE IF Held(t) THEN View(view[t].changes \cup {e.changes[t].change})
                   ELSE NoView
  BY <1>2, Zenon
<1>6. \A t \in Tokens :
        trusted'[t] = IF t \notin DOMAIN e.changes THEN trusted[t]
                      ELSE IF e.type = "book" THEN TRUE
                      ELSE IF e.type = "price_change" /\ Held(t)
                           THEN e.changes[t].hash = view'[t].changes
                      ELSE trusted[t]
  BY <1>2, Zenon
<1> QED
  BY <1>1, <1>2, <1>3, <1>4, <1>5, <1>6, Zenon

(* The caller hears the number of an event. *)
LEMMA HeardIs ==
  ASSUME FeedTypeOK, NEW e,
         (\E t : Book(e, t)) \/ (\E n \in 1..made : News(e, n)) \/ Aside(e),
         learned' = learned \o SetToSeq(Numbers(e))
  PROVE  /\ learned' \in Seq(Nat)
         /\ ToSet(learned') = ToSet(learned) \cup Numbers(e)
         /\ Numbers(e) = {} => learned' = learned
         /\ \A n : Numbers(e) = {n} => learned' = Append(learned, n)
<1>1. made \in Nat /\ learned \in Seq(Nat)
  BY DEF FeedTypeOK
<1>2. CASE Numbers(e) = {}
  <2>1. learned' = learned \o <<>>
    BY <1>2, NoneInSeq
  <2>2. learned' = learned
    BY <1>1, <2>1
  <2> QED
    BY <1>1, <1>2, <2>2
<1>3. CASE \E n \in 1..made : Numbers(e) = {n}
  <2>1. PICK n \in 1..made : Numbers(e) = {n}
    BY <1>3
  <2>2. learned' = learned \o <<n>>
    BY <2>1, OneInSeq
  <2>3. n \in Nat
    BY <1>1
  <2>4. learned' = Append(learned, n)
    <3>1. \A s \in Seq(Nat) : \A m \in Nat : s \o <<m>> = Append(s, m)
      OBVIOUS
    <3> QED
      BY <1>1, <2>2, <2>3, <3>1
  <2>5. learned' \in Seq(Nat)
    BY <1>1, <2>3, <2>4
  <2>6. IsSeq(learned)
    BY <1>1, SeqWithin
  <2>7. ToSet(learned') = ToSet(learned) \cup {n}
    BY <2>4, <2>6, AppendIs
  <2> QED
    BY <2>1, <2>4, <2>5, <2>7
<1> QED
  BY <1>2, <1>3, NumbersIs

(* The state keeps its shape. *)
LEMMA TypeKept ==
  ASSUME FeedTypeOK, Made, WellFormed, [FeedNext]_feedVars
  PROVE  FeedTypeOK'
<1>0. /\ IsSeq(sock) /\ IsSeq(events) /\ said \in Seq(Nat) /\ learned \in Seq(Nat)
      /\ made \in Nat
  BY DEF FeedTypeOK
<1>1. CASE Accept
  <2>1. IsSeq(sock')
    <3>1. events' = events
      BY <1>1 DEF Accept
    <3>2. sock' = sock \/ \E g : sock' = Append(sock, g)
      BY <1>1, AcceptIs
    <3> QED
      BY <1>0, <3>1, <3>2, SentIs
  <2>2. /\ channel' = channel /\ truth' = truth /\ made' = made /\ up /\ up' = up /\ taken'
        /\ phase' = phase /\ events' = events /\ view' = view /\ trusted' = trusted
        /\ said' = said /\ learned' = learned
    BY <1>1 DEF Accept, history
  <2>3. taken' \in BOOLEAN
    BY <1>1 DEF Accept
  <2> QED
    BY <2>1, <2>2, <2>3 DEF FeedTypeOK
<1>2. CASE Move
  <2>1. /\ channel' = channel /\ taken' = taken /\ up' = up /\ phase' = phase /\ events' = events
        /\ view' = view /\ trusted' = trusted /\ learned' = learned
    BY <1>2 DEF Move
  <2>2. PICK kind \in Kinds(channel), ts \in SUBSET Tokens :
              /\ truth' = [t \in Tokens |->
                             IF t \in ts THEN truth[t] \cup {[n |-> made + 1, kind |-> kind]}
                             ELSE truth[t]]
              /\ up /\ taken => said' = Append(said, made + 1) /\ \E g : sock' = Append(sock, g)
              /\ ~(up /\ taken) => said' = said /\ sock' = sock
    BY <1>2, MoveIs
  <2>3. made' = made + 1 /\ made' \in Nat
    BY <1>0, <1>2 DEF Move
  <2>4. kind \in MarketKinds \cup UserKinds \cup TopicKinds
    BY Zenon DEF Kinds
  <2>5. truth' \in [Tokens -> SUBSET ChangeType]
    <3> DEFINE c == [n |-> made + 1, kind |-> kind]
    <3>1. c \in ChangeType
      BY <1>0, <2>4 DEF ChangeType
    <3>2. truth' = [t \in Tokens |-> IF t \in ts THEN truth[t] \cup {c} ELSE truth[t]]
      BY <2>2
    <3>3. truth \in [Tokens -> SUBSET ChangeType]
      BY DEF FeedTypeOK
    <3> HIDE DEF c
    <3> QED
      BY <3>1, <3>2, <3>3
  <2>6. said' \in Seq(Nat) /\ IsSeq(sock')
    <3>1. CASE up /\ taken
      <4>1. said' \in Seq(Nat)
        <5>1. said' = Append(said, made')
          BY <2>2, <2>3, <3>1, Zenon
        <5> QED
          BY <1>0, <2>3, <5>1
      <4>2. IsSeq(sock')
        BY <2>1, <2>2, <3>1, SentIs
      <4> QED
        BY <4>1, <4>2
    <3>2. CASE ~(up /\ taken)
      BY <1>0, <2>2, <3>2
    <3> QED
      BY <3>1, <3>2
  <2> QED
    BY <2>1, <2>3, <2>5, <2>6 DEF FeedTypeOK
<1>3. CASE Noise
  <2>1. IsSeq(sock')
    <3>1. events' = events
      BY <1>3 DEF Noise
    <3>2. \E g : sock' = Append(sock, g)
      BY <1>3, NoiseIs
    <3> QED
      BY <3>1, <3>2, SentIs
  <2>2. /\ channel' = channel /\ truth' = truth /\ made' = made /\ up' = up /\ taken' = taken
        /\ phase' = phase /\ events' = events /\ view' = view /\ trusted' = trusted
        /\ said' = said /\ learned' = learned
    BY <1>3 DEF Noise, history, server
  <2> QED
    BY <2>1, <2>2 DEF FeedTypeOK
<1>4. CASE SocketBreaks
  <2>1. /\ channel' = channel /\ truth' = truth /\ made' = made /\ up' = FALSE /\ taken' = FALSE
        /\ phase' = phase /\ events' = events /\ view' = view /\ trusted' = trusted
        /\ said' = said /\ learned' = learned
    BY <1>4 DEF SocketBreaks, history
  <2>2. \E k \in 0 .. Len(sock) : sock' = SubSeq(sock, 1, k)
    BY <1>4 DEF SocketBreaks
  <2>3. IsSeq(sock')
    BY <2>1, <2>2, BrokenIs
  <2>4. taken' \in BOOLEAN /\ up' \in BOOLEAN
    BY <2>1
  <2> QED
    BY <2>1, <2>3, <2>4 DEF FeedTypeOK
<1>5. CASE ReadNext
  <2>1. /\ channel' = channel /\ truth' = truth /\ made' = made /\ up' = up /\ taken' = taken
        /\ view' = view /\ trusted' = trusted /\ said' = said /\ learned' = learned
    BY <1>5 DEF ReadNext, server
  <2>2. sock # <<>> /\ sock' = Tail(sock)
    BY <1>5 DEF ReadNext
  <2>3. IsSeq(sock')
    BY <2>2, FirstIs
  <2>4. /\ phase' \in {"read", "deliver"} /\ (phase' = "deliver" <=> events' # <<>>)
        /\ IsSeq(events')
    BY <1>5, ReadIs, EmptyIs
  <2> QED
    BY <2>1, <2>3, <2>4 DEF FeedTypeOK
<1>6. CASE Reconnect
  <2>1. /\ channel' = channel /\ truth' = truth /\ made' = made /\ up' = TRUE /\ taken' = taken
        /\ view' = view /\ trusted' = trusted /\ said' = <<>> /\ learned' = learned
        /\ sock' = sock /\ events' = events /\ phase' = "announce" /\ phase = "read"
    BY <1>6 DEF Reconnect, server
  <2>2. said' \in Seq(Nat) /\ up' \in BOOLEAN
    BY <2>1
  <2> QED
    BY <2>1, <2>2 DEF FeedTypeOK
<1>7. CASE TakeReconnect
  <2>1. /\ channel' = channel /\ truth' = truth /\ made' = made /\ up' = up /\ taken' = taken
        /\ said' = said /\ sock' = sock /\ events' = events
        /\ phase = "announce" /\ phase' = "read" /\ learned' = <<>>
        /\ view' = [t \in Tokens |-> NoView] /\ trusted' = [t \in Tokens |-> TRUE]
    BY <1>7 DEF TakeReconnect, server
  <2>2. learned' \in Seq(Nat)
    BY <2>1
  <2>3. view' \in [Tokens -> {NoView} \cup [changes : SUBSET ChangeType]]
    BY <2>1
  <2>4. trusted' \in [Tokens -> BOOLEAN]
    BY <2>1
  <2> QED
    BY <2>1, <2>2, <2>3, <2>4 DEF FeedTypeOK
<1>8. CASE TakeEvent
  <2>1. PICK e : /\ e = Head(events) /\ IsSeq(events') /\ sock' = sock
                 /\ phase' \in {"read", "deliver"} /\ (phase' = "deliver" <=> events' # <<>>)
                 /\ \/ \E t \in Tokens : Book(e, t) /\ channel = "market"
                    \/ \E n \in 1..made : News(e, n)
                    \/ Aside(e)
    BY <1>8, TakeIs
  <2>2. /\ channel' = channel /\ truth' = truth /\ made' = made /\ up' = up /\ taken' = taken
        /\ said' = said /\ learned' = learned \o SetToSeq(Numbers(e))
    BY <1>8, <2>1, ApplyIs DEF server
  <2>3. learned' \in Seq(Nat)
    BY <2>1, <2>2, HeardIs
  <2>4. view' \in [Tokens -> {NoView} \cup [changes : SUBSET ChangeType]]
    <3>1. ASSUME NEW t \in Tokens PROVE view'[t] \in {NoView} \cup [changes : SUBSET ChangeType]
      <4>1. view[t] \in {NoView} \cup [changes : SUBSET ChangeType] /\ truth[t] \subseteq ChangeType
        BY DEF FeedTypeOK
      <4>2. CASE t \notin DOMAIN e.changes
        BY <1>8, <2>1, <4>1, <4>2, ApplyIs
      <4>3. CASE t \in DOMAIN e.changes /\ \E u \in Tokens : Book(e, u)
        <5>1. view'[t] = e.changes[t] /\ e.changes[t] \in [changes : SUBSET truth[t]]
          BY <1>8, <2>1, <4>3, ApplyIs DEF Book
        <5> QED
          BY <4>1, <5>1
      <4>4. CASE t \in DOMAIN e.changes /\ \E n \in 1..made : News(e, n)
        <5>1. e.type # "book" /\ e.changes[t].change \in truth[t]
          BY <4>4, NumbersIs DEF News
        <5>2. view'[t] = NoView \/ (Held(t) /\ view'[t] = View(view[t].changes \cup {e.changes[t].change}))
          BY <1>8, <2>1, <4>4, <5>1, ApplyIs
        <5>3. \A d \in ChangeType : Held(t) =>
                View(view[t].changes \cup {d}) \in [changes : SUBSET ChangeType]
          BY <4>1 DEF View, Held
        <5> QED
          BY <4>1, <5>1, <5>2, <5>3
      <4> QED
        BY <2>1, <4>2, <4>3, <4>4 DEF Aside
    <3>2. view' = [t \in Tokens |-> view'[t]]
      BY <1>8, <2>1, ApplyIs
    <3> QED
      BY <3>1, <3>2, Zenon
  <2>5. trusted' \in [Tokens -> BOOLEAN]
    <3>1. ASSUME NEW t \in Tokens PROVE trusted'[t] \in BOOLEAN
      <4>1. trusted[t] \in BOOLEAN
        BY DEF FeedTypeOK
      <4>2. \/ trusted'[t] = trusted[t] \/ trusted'[t] = TRUE
            \/ trusted'[t] = (e.changes[t].hash = view'[t].changes)
        BY <1>8, <2>1, ApplyIs, Zenon
      <4> QED
        BY <4>1, <4>2, Zenon
    <3>2. trusted' = [t \in Tokens |-> trusted'[t]]
      BY <1>8, <2>1, ApplyIs, Zenon
    <3> QED
      BY <3>1, <3>2, Zenon
  <2> QED
    BY <2>1, <2>2, <2>3, <2>4, <2>5, <1>0 DEF FeedTypeOK
<1>9. CASE Refetch
  <2>1. /\ channel' = channel /\ truth' = truth /\ made' = made /\ up' = up /\ taken' = taken
        /\ trusted' = trusted /\ said' = said /\ learned' = learned
        /\ sock' = sock /\ events' = events /\ phase' = phase
        /\ view' = [t \in Tokens |-> View(truth[t])]
    BY <1>9 DEF Refetch, server
  <2>2. view' \in [Tokens -> {NoView} \cup [changes : SUBSET ChangeType]]
    BY <2>1 DEF FeedTypeOK, View
  <2> QED
    BY <2>1, <2>2 DEF FeedTypeOK
<1>10. CASE UNCHANGED feedVars
  BY <1>10 DEF feedVars, server, history, FeedTypeOK
<1> QED
  BY <1>1, <1>2, <1>3, <1>4, <1>5, <1>6, <1>7, <1>8, <1>9, <1>10 DEF FeedNext
---------------------------------------------------------------------------
(* What the server has made and what it has sent. *)

(* Only Move changes the server's state. *)
LEMMA GrowsIs ==
  ASSUME FeedTypeOK, Made, [FeedNext]_feedVars
  PROVE  Grows /\ (Move \/ UNCHANGED <<channel, truth, made>>)
<1>1. Move \/ UNCHANGED <<channel, truth, made>>
  BY DEF FeedNext, feedVars, server, Accept, Noise, SocketBreaks, ReadNext, Reconnect, TakeReconnect,
         TakeEvent, Refetch
<1>2. UNCHANGED <<channel, truth, made>> => Grows
  BY DEF Grows, FeedTypeOK
<1> QED
  BY <1>1, <1>2, MoveIs

(* Who but the caller changes the caller's copy. *)
LEMMA ViewStays ==
  ASSUME [FeedNext]_feedVars, ~TakeReconnect, ~TakeEvent, ~Refetch
  PROVE  view' = view /\ trusted' = trusted /\ learned' = learned
  BY DEF FeedNext, feedVars, history, Accept, Move, Noise, SocketBreaks, ReadNext, Reconnect

(* A number is one change's, and a caller's copy has no others. *)
LEMMA MadeKept ==
  ASSUME FeedTypeOK, Made, WellFormed, [FeedNext]_feedVars
  PROVE  Made'
<1>1. Grows
  BY GrowsIs
<1>2. (\A t \in Tokens : \A c \in truth[t] : c.n \in 1..made)'
  <2>1. CASE Move
    <3>1. made \in Nat /\ made' = made + 1
      BY <2>1, MoveIs DEF FeedTypeOK
    <3>2. PICK kind \in Kinds(channel), ts \in SUBSET Tokens :
            truth' = [t \in Tokens |->
                        IF t \in ts THEN truth[t] \cup {[n |-> made + 1, kind |-> kind]} ELSE truth[t]]
      BY <2>1, MoveIs
    <3>3. \A t \in Tokens : \A c \in truth'[t] : c \in truth[t] \/ c.n = made + 1
      BY <3>2
    <3>4. \A t \in Tokens : \A c \in truth[t] : c.n \in 1..made
      BY DEF Made
    <3>5. \A n : n \in 1..made \/ n = made + 1 => n \in 1..made'
      BY <3>1
    <3> QED
      BY <3>3, <3>4, <3>5
  <2>2. CASE UNCHANGED <<channel, truth, made>>
    BY <2>2 DEF Made
  <2> QED
    BY <2>1, <2>2, GrowsIs
<1>3. (\A t, u \in Tokens : \A c \in truth[t], d \in truth[u] : c.n = d.n => c = d)'
  <2>1. CASE Move
    <3>1. made \in Nat
      BY DEF FeedTypeOK
    <3>2. PICK kind \in Kinds(channel), ts \in SUBSET Tokens :
            truth' = [t \in Tokens |->
                        IF t \in ts THEN truth[t] \cup {[n |-> made + 1, kind |-> kind]} ELSE truth[t]]
      BY <2>1, MoveIs
    <3> DEFINE x == [n |-> made + 1, kind |-> kind]
    <3>3. \A t \in Tokens : \A c \in truth'[t] : c \in truth[t] \/ c = x
      BY <3>2
    <3>4. \A t \in Tokens : \A c \in truth[t] : c.n \in 1..made
      BY DEF Made
    <3>5. \A t \in Tokens : \A c \in truth[t] : c.n # x.n
      BY <3>1, <3>4
    <3>6. \A t, u \in Tokens : \A c \in truth[t], d \in truth[u] : c.n = d.n => c = d
      BY DEF Made
    <3> HIDE DEF x
    <3> QED
      BY <3>3, <3>5, <3>6
  <2>2. CASE UNCHANGED <<channel, truth, made>>
    BY <2>2 DEF Made
  <2> QED
    BY <2>1, <2>2, GrowsIs
<1>4. ASSUME NEW t \in Tokens, Held(t)' PROVE view'[t].changes \subseteq truth'[t]
  <2>1. truth[t] \subseteq truth'[t] /\ (Held(t) => view[t].changes \subseteq truth[t])
    BY <1>1 DEF Grows, Made
  <2>2. CASE view'[t] = view[t]
    BY <1>4, <2>1, <2>2 DEF Held
  <2>3. CASE TakeReconnect
    BY <1>4, <2>3 DEF TakeReconnect, Held
  <2>4. CASE Refetch
    BY <2>4, <2>1 DEF Refetch, View
  <2>5. CASE TakeEvent
    <3>1. PICK e : /\ e = Head(events)
                   /\ \/ \E u \in Tokens : Book(e, u)
                      \/ \E n \in 1..made : News(e, n)
                      \/ Aside(e)
      BY <2>5, TakeIs
    <3>2. CASE t \notin DOMAIN e.changes
      BY <2>2, <2>5, <3>1, <3>2, ApplyIs
    <3>3. CASE t \in DOMAIN e.changes /\ \E u \in Tokens : Book(e, u)
      <4>1. view'[t] = e.changes[t] /\ e.changes[t] \in [changes : SUBSET truth[t]]
        BY <2>5, <3>1, <3>3, ApplyIs DEF Book
      <4> QED
        BY <2>1, <4>1
    <3>4. CASE t \in DOMAIN e.changes /\ \E n \in 1..made : News(e, n)
      <4>1. e.type # "book" /\ e.changes[t].change \in truth[t]
        BY <3>4, NumbersIs DEF News
      <4>2. Held(t) /\ view'[t] = View(view[t].changes \cup {e.changes[t].change})
        BY <1>4, <2>5, <3>1, <3>4, <4>1, ApplyIs DEF Held
      <4> QED
        BY <2>1, <4>1, <4>2 DEF View
    <3> QED
      BY <3>1, <3>2, <3>3, <3>4 DEF Aside
  <2> QED
    BY <2>2, <2>3, <2>4, <2>5, ViewStays
<1> QED
  BY <1>2, <1>3, <1>4 DEF Made

(* Every frame and every event stay what the server sent. *)
LEMMA WellFormedKept ==
  ASSUME FeedTypeOK, Made, WellFormed, [FeedNext]_feedVars
  PROVE  WellFormed'
<1>1. Grows /\ 1..made \subseteq 1..made'
  BY GrowsIs DEF Grows, FeedTypeOK
<1>2. \A f \in ToSet(sock) : Formed(f)'
  BY <1>1, FormedStays DEF WellFormed
<1>3. ASSUME NEW f \in ToSet(sock') PROVE Formed(f)'
  <2>1. CASE \E g : sock' = Append(sock, g) /\ Formed(g)' /\ events' = events
    BY <1>2, <2>1, SentIs
  <2>2. CASE ToSet(sock') \subseteq ToSet(sock)
    BY <1>2, <2>2
  <2>3. CASE Accept
    <3>1. UNCHANGED <<channel, truth, made, events>>
      BY <2>3 DEF Accept
    <3>2. (\E g : sock' = Append(sock, g) /\ Formed(g)) \/ sock' = sock
      BY <2>3, AcceptIs
    <3>3. \A g : Formed(g) => Formed(g)'
      BY <1>1, FormedStays
    <3> QED
      BY <2>1, <2>2, <3>1, <3>2, <3>3
  <2>4. CASE Move
    <3>1. events' = events
      BY <2>4 DEF Move
    <3>2. (\E g : sock' = Append(sock, g) /\ Formed(g)') \/ sock' = sock
      BY <2>4, MoveIs
    <3> QED
      BY <2>1, <2>2, <3>1, <3>2
  <2>5. CASE Noise
    <3>1. events' = events
      BY <2>5 DEF Noise
    <3>2. \E g : sock' = Append(sock, g) /\ Formed(g)
      BY <2>5, NoiseIs
    <3>3. \A g : Formed(g) => Formed(g)'
      BY <1>1, FormedStays
    <3> QED
      BY <2>1, <3>1, <3>2, <3>3
  <2>6. CASE SocketBreaks
    BY <2>2, <2>6, BrokenIs DEF SocketBreaks
  <2>7. CASE ReadNext
    <3>1. sock # <<>> /\ sock' = Tail(sock)
      BY <2>7 DEF ReadNext
    <3>2. ToSet(sock') \subseteq ToSet(sock)
      BY <3>1, FirstIs
    <3> QED
      BY <2>2, <3>2
  <2>8. Reconnect \/ TakeReconnect \/ TakeEvent \/ Refetch \/ UNCHANGED feedVars => sock' = sock
    BY DEF Reconnect, TakeReconnect, TakeEvent, Refetch, feedVars
  <2> QED
    BY <2>2, <2>3, <2>4, <2>5, <2>6, <2>7, <2>8 DEF FeedNext
<1>4. (\/ channel = "market" /\ InitialDump /\ \A o \in ToSet(events) : \E t \in Tokens : Book(o, t)
       \/ Len(events) = 1 /\ ((\E n \in 1..made : News(events[1], n)) \/ Aside(events[1]))
       \/ events = <<>>)'
  <2>0. channel' = channel
    BY <1>1 DEF Grows
  <2>1. CASE events' = events
    <3>1. CASE channel = "market" /\ InitialDump /\ \A o \in ToSet(events) : \E t \in Tokens : Book(o, t)
      <4>1. \A o \in ToSet(events) : \E t \in Tokens : Book(o, t)'
        BY <1>1, <3>1, FormedStays
      <4> QED
        BY <2>0, <2>1, <3>1, <4>1
    <3>2. CASE Len(events) = 1 /\ ((\E n \in 1..made : News(events[1], n)) \/ Aside(events[1]))
      <4>1. PICK o : o = events[1]
        OBVIOUS
      <4>2. (\E n \in 1..made' : News(o, n)') \/ Aside(o)
        BY <1>1, <3>2, <4>1, FormedStays
      <4>3. o = events'[1] /\ Len(events') = 1
        BY <2>1, <3>2, <4>1
      <4>4. (\E n \in 1..made' : News(events[1], n)') \/ Aside(events'[1])
        BY <4>2, <4>3 DEF News
      <4> QED
        BY <4>3, <4>4
    <3> QED
      BY <2>1, <3>1, <3>2 DEF WellFormed
  <2>2. CASE ReadNext
    <3>1. PICK f :
            /\ Formed(f)
            /\ \/ events' = <<>>
               \/ /\ Dump(f) => ToSet(events') = Objects(f)
                  /\ \A n : Report(f, n) => Len(events') = 1 /\ events'[1] = f.objects[1]
                  /\ Blank(f) => events' = <<>> \/ (Len(events') = 1 /\ Aside(events'[1]))
      BY <2>2, ReadIs
    <3>2. UNCHANGED <<channel, truth, made>>
      BY <2>2 DEF ReadNext, server
    <3>3. CASE events' = <<>>
      BY <3>3
    <3>4. CASE Dump(f) /\ ToSet(events') = Objects(f)
      <4>1. \A o \in ToSet(events') : \E t \in Tokens : Book(o, t)'
        BY <1>1, <3>4, FormedStays DEF Dump
      <4> QED
        BY <3>2, <3>4, <4>1 DEF Dump
    <3>5. CASE \E n \in 1..made : Report(f, n) /\ Len(events') = 1 /\ events'[1] = f.objects[1]
      <4>1. PICK n \in 1..made : Report(f, n) /\ Len(events') = 1 /\ events'[1] = f.objects[1]
        BY <3>5
      <4>2. News(f.objects[1], n)'
        BY <1>1, <4>1, FormedStays DEF Report
      <4>3. n \in 1..made' /\ News(events[1], n)'
        BY <3>2, <4>1, <4>2 DEF News
      <4> QED
        BY <4>1, <4>3
    <3>6. CASE Len(events') = 1 /\ Aside(events'[1])
      BY <3>6
    <3> QED
      BY <3>1, <3>3, <3>4, <3>5, <3>6 DEF Formed
  <2>3. CASE TakeEvent
    <3>1. PICK e : /\ e \in ToSet(events) /\ ToSet(events) = {e} \cup ToSet(events')
                   /\ (\E t \in Tokens : Book(e, t) /\ channel = "market") \/ events' = <<>>
      BY <2>3, TakeIs
    <3>2. CASE \E t \in Tokens : Book(e, t) /\ channel = "market"
      <4>1. e \in Books
        BY <3>1, <3>2 DEF Books, Coming, Book
      <4>2. InitialDump
        BY <4>1, BooksIs
      <4>3. \A o \in ToSet(events) : \E t \in Tokens : Book(o, t)
        <5>1. events # <<>> /\ IsSeq(events)
          BY <2>3 DEF TakeEvent, FeedTypeOK
        <5>2. Len(events) = 1 => ToSet(events) = {e}
          BY <3>1, <5>1, SeqIs DEF ToSet
        <5> QED
          BY <3>2, <5>1, <5>2 DEF WellFormed
      <4>4. \A o \in ToSet(events') : \E t \in Tokens : Book(o, t)'
        BY <1>1, <3>1, <4>3, FormedStays
      <4> QED
        BY <2>0, <3>2, <4>2, <4>4
    <3> QED
      BY <3>1, <3>2
  <2>4. Accept \/ Move \/ Noise \/ SocketBreaks \/ Reconnect \/ TakeReconnect \/ Refetch
          \/ UNCHANGED feedVars => events' = events
    BY DEF Accept, Move, Noise, SocketBreaks, Reconnect, TakeReconnect, Refetch, feedVars
  <2> QED
    BY <2>1, <2>2, <2>3, <2>4 DEF FeedNext
<1> QED
  BY <1>3, <1>4 DEF WellFormed
---------------------------------------------------------------------------
(* The numbers flow in order. *)

(* They are numbers. *)
LEMMA FlowIs ==
  ASSUME FeedTypeOK, InFlow
  PROVE  /\ made \in Nat
         /\ \A n \in Got \cup Events \cup Sock : n \in 1..made /\ n \in Nat
         /\ \A i \in DOMAIN sock : Carried(sock[i]) \subseteq Sock
         /\ \A n \in Sock : \E i \in DOMAIN sock : n \in Carried(sock[i])
<1>1. made \in Nat /\ \A n \in 1..made : n \in Nat
  BY DEF FeedTypeOK
<1>2. \A n \in Got \cup Events \cup Sock : n \in 1..made
  BY DEF InFlow
<1>3. \A i \in DOMAIN sock : Carried(sock[i]) \subseteq Sock
  BY DEF Sock, ToSet
<1>4. \A n \in Sock : \E i \in DOMAIN sock : n \in Carried(sock[i])
  BY DEF Sock, ToSet
<1> QED
  BY <1>1, <1>2, <1>3, <1>4

(* Nothing moves. *)
LEMMA FlowStays ==
  ASSUME FeedTypeOK, InFlow, made' \in Nat, made <= made',
         sock' = sock, events' = events, said' = said, lost' = lost, up' = up,
         Learned' = Learned,
         \/ learned' = <<>>
         \/ learned' = learned /\ phase' = phase
  PROVE  InFlow'
<1>1. 1..made \subseteq 1..made'
  BY DEF FeedTypeOK
<1>2. Got' = Got /\ Events' = Events /\ Sock' = Sock
  BY DEF Got, Events, Sock
<1>3. phase' # "announce" => \A i, j \in DOMAIN learned' : i < j => learned'[i] < learned'[j]
  <2>1. CASE learned' = <<>>
    BY <2>1, EmptyIs
  <2>2. CASE learned' = learned /\ phase' = phase
    BY <2>2 DEF InFlow
  <2> QED
    BY <2>1, <2>2
<1>4. ToSet(said') \subseteq 1..made'
  BY <1>1 DEF InFlow
<1> QED
  BY <1>2, <1>3, <1>4 DEF InFlow

(* A frame is sent, with a new number or none. *)
LEMMA FlowSent ==
  ASSUME FeedTypeOK, InFlow, NEW g, sock' = Append(sock, g),
         events' = events, lost' = lost, up' = up, up, learned' = learned, phase' = phase,
         \/ Carried(g) = {} /\ said' = said /\ made' = made
         \/ Carried(g) = {made + 1} /\ said' = Append(said, made + 1) /\ made' = made + 1
  PROVE  InFlow'
<1>1. /\ made \in Nat
      /\ \A n \in Got \cup Events \cup Sock : n \in 1..made /\ n \in Nat
      /\ \A i \in DOMAIN sock : Carried(sock[i]) \subseteq Sock
  BY FlowIs
<1>2. Got' = Got /\ Events' = Events /\ Sock' = Sock \cup Carried(g) /\ Learned' = Learned
  BY SentIs DEF Got, Learned
<1>3. /\ ToSet(said') = ToSet(said) \cup Carried(g)
      /\ ToSet(said') \subseteq 1..made'
      /\ \A n \in Carried(g) : n \in Nat /\ n > made
  <2>1. CASE Carried(g) = {} /\ said' = said /\ made' = made
    BY <2>1 DEF InFlow
  <2>2. CASE Carried(g) = {made + 1} /\ said' = Append(said, made + 1) /\ made' = made + 1
    <3>1. IsSeq(said)
      BY SeqWithin DEF FeedTypeOK
    <3>2. ToSet(said') = ToSet(said) \cup {made + 1}
      BY <2>2, <3>1, AppendIs
    <3>3. 1..made \subseteq 1..made' /\ made + 1 \in 1..made' /\ made + 1 \in Nat /\ made + 1 > made
      BY <1>1, <2>2
    <3>4. ToSet(said) \subseteq 1..made
      BY DEF InFlow
    <3> QED
      BY <2>2, <3>2, <3>3, <3>4
  <2> QED
    BY <2>1, <2>2
<1>4. IsSeq(sock)
  BY DEF FeedTypeOK
<1>5. /\ Len(sock) \in Nat /\ DOMAIN sock = 1..Len(sock)
      /\ DOMAIN sock' = 1..(Len(sock) + 1)
      /\ \A i \in DOMAIN sock : sock'[i] = sock[i]
      /\ sock'[Len(sock) + 1] = g
  BY <1>4, AppendIs, SeqIs
<1>6. \A m \in Got \cup Events \cup Sock, n \in Carried(g) : m < n
  BY <1>1, <1>3
<1>7. \A i, j \in DOMAIN sock' : i < j =>
        \A m \in Carried(sock'[i]), n \in Carried(sock'[j]) : m < n
  <2> SUFFICES ASSUME NEW i \in DOMAIN sock', NEW j \in DOMAIN sock', i < j,
                      NEW m \in Carried(sock'[i]), NEW n \in Carried(sock'[j])
               PROVE  m < n
    BY Zenon
  <2>1. i \in DOMAIN sock /\ (j \in DOMAIN sock \/ j = Len(sock) + 1)
    BY <1>5
  <2>2. sock'[i] = sock[i] /\ m \in Carried(sock[i]) /\ m \in Sock
    BY <1>1, <1>5, <2>1
  <2>3. CASE j \in DOMAIN sock
    BY <1>5, <2>1, <2>2, <2>3 DEF InFlow
  <2>4. CASE j = Len(sock) + 1
    BY <1>5, <1>6, <2>2, <2>4
  <2> QED
    BY <2>1, <2>3, <2>4
<1>8. \A m \in Got \cup Events, n \in Sock' : m < n
  BY <1>2, <1>6 DEF InFlow
<1>9. ToSet(said') \subseteq Got \cup Events \cup Sock'
  BY <1>2, <1>3 DEF InFlow
<1> QED
  BY <1>2, <1>3, <1>7, <1>8, <1>9 DEF InFlow

(* Frames are lost from the end. *)
LEMMA FlowBroken ==
  ASSUME FeedTypeOK, InFlow, SocketBreaks
  PROVE  InFlow'
<1>1. PICK k \in 0 .. Len(sock) : sock' = SubSeq(sock, 1, k)
  BY DEF SocketBreaks
<1>2. /\ events' = events /\ said' = said /\ lost' = lost /\ made' = made /\ learned' = learned
      /\ phase' = phase /\ ~up'
  BY DEF SocketBreaks, history
<1>3. /\ DOMAIN sock' = 1..k /\ DOMAIN sock' \subseteq DOMAIN sock
      /\ \A i \in DOMAIN sock' : sock'[i] = sock[i]
      /\ Sock' \subseteq Sock /\ Events' = Events
  BY <1>1, <1>2, BrokenIs
<1>4. Got' = Got /\ Learned' = Learned
  BY <1>2 DEF Got, Learned
<1>5. /\ \A n \in Got \cup Events \cup Sock : n \in Nat
      /\ \A n \in Sock : \E i \in DOMAIN sock : n \in Carried(sock[i])
  BY FlowIs
<1>6. DOMAIN sock = 1..Len(sock) /\ Len(sock) \in Nat /\ k \in Nat
  BY SeqIs DEF FeedTypeOK
<1>7. ASSUME NEW n \in Sock', NEW m \in Sock, m \notin Sock' PROVE ~(m < n)
  <2>1. PICK i \in DOMAIN sock' : n \in Carried(sock'[i])
    BY DEF Sock, ToSet
  <2>2. PICK j \in DOMAIN sock : m \in Carried(sock[j])
    BY <1>5
  <2>3. j \notin DOMAIN sock'
    <3> SUFFICES ASSUME j \in DOMAIN sock' PROVE m \in Sock'
      BY <1>7
    <3>1. m \in Carried(sock'[j])
      BY <1>3, <2>2
    <3> QED
      BY <3>1 DEF Sock, ToSet
  <2>4. i < j /\ i \in DOMAIN sock /\ n \in Carried(sock[i])
    BY <1>3, <1>6, <2>1, <2>3
  <2>5. n < m
    BY <2>2, <2>4 DEF InFlow
  <2>6. n \in Nat /\ m \in Nat
    BY <1>3, <1>5
  <2> QED
    BY <2>5, <2>6
<1>8. \A n \in Got \cup Events \cup Sock', m \in ToSet(said) :
        m < n => m \in Got \cup Events \cup Sock'
  <2> SUFFICES ASSUME NEW n \in Got \cup Events \cup Sock', NEW m \in ToSet(said), m < n,
                      m \notin Got \cup Events \cup Sock'
               PROVE  FALSE
    OBVIOUS
  <2>1. m \in Sock /\ n \in Nat /\ m \in Nat
    BY <1>3, <1>5 DEF InFlow
  <2>2. n \notin Got \cup Events
    <3> SUFFICES ASSUME n \in Got \cup Events PROVE FALSE
      OBVIOUS
    <3>1. n < m
      BY <2>1 DEF InFlow
    <3> QED
      BY <2>1, <3>1
  <2> QED
    BY <1>7, <2>1, <2>2
<1>9. \A i, j \in DOMAIN sock' : i < j =>
        \A m \in Carried(sock'[i]), n \in Carried(sock'[j]) : m < n
  BY <1>3 DEF InFlow
<1> QED
  BY <1>2, <1>3, <1>4, <1>8, <1>9 DEF InFlow

(* The loop reads: a frame's numbers are lost, or are events. *)
LEMMA FlowRead ==
  ASSUME FeedTypeOK, WellFormed, InFlow, ReadNext
  PROVE  InFlow'
<1>1. PICK f : /\ f = sock[1] /\ 1 \in DOMAIN sock /\ events = <<>>
               /\ \/ lost' = lost \cup Carried(f) /\ Events' = {}
                  \/ lost' = lost /\ Events' = Carried(f)
               /\ phase' \in {"read", "deliver"}
  BY ReadIs
<1>2. /\ sock # <<>> /\ sock' = Tail(sock) /\ up' = up /\ said' = said /\ learned' = learned
      /\ made' = made /\ phase = "read"
  BY DEF ReadNext, server
<1>3. /\ f = Head(sock)
      /\ \A i \in DOMAIN sock' : i \in Nat /\ i + 1 \in DOMAIN sock /\ sock'[i] = sock[i + 1]
      /\ Sock = Carried(f) \cup Sock'
  BY <1>1, <1>2, FirstIs
<1>4. Events = {} /\ Learned' = Learned /\ Learned = ToSet(learned)
  BY <1>1, <1>2, EmptyIs DEF Events, Learned
<1>5. /\ \A n \in Got \cup Events \cup Sock : n \in Nat
  BY FlowIs
<1>6. \A m \in Carried(f), n \in Sock' : m < n
  <2> SUFFICES ASSUME NEW m \in Carried(f), NEW n \in Sock' PROVE m < n
    OBVIOUS
  <2>1. PICK i \in DOMAIN sock' : n \in Carried(sock'[i])
    BY DEF Sock, ToSet
  <2>2. i \in Nat /\ i # 0 /\ i + 1 \in DOMAIN sock /\ n \in Carried(sock[i + 1]) /\ 1 < i + 1
    <3>1. i \in Nat /\ i + 1 \in DOMAIN sock /\ n \in Carried(sock[i + 1])
      BY <1>3, <2>1
    <3>2. IsSeq(sock')
      BY <1>2, FirstIs
    <3>3. i \in 1..Len(sock') /\ Len(sock') \in Nat
      BY <2>1, <3>2, SeqIs
    <3> QED
      BY <3>1, <3>3
  <2> QED
    BY <1>1, <2>2 DEF InFlow
<1>7. \A i, j \in DOMAIN sock' : i < j =>
        \A m \in Carried(sock'[i]), n \in Carried(sock'[j]) : m < n
  <2> SUFFICES ASSUME NEW i \in DOMAIN sock', NEW j \in DOMAIN sock', i < j,
                      NEW m \in Carried(sock'[i]), NEW n \in Carried(sock'[j])
               PROVE  m < n
    BY Zenon
  <2>1. /\ i + 1 \in DOMAIN sock /\ j + 1 \in DOMAIN sock /\ i + 1 < j + 1
        /\ m \in Carried(sock[i + 1]) /\ n \in Carried(sock[j + 1])
    BY <1>3
  <2> QED
    BY <2>1 DEF InFlow
<1>8. \A i, j \in DOMAIN learned' : i < j => learned'[i] < learned'[j]
  BY <1>2 DEF InFlow
<1>9. /\ Got' \cup Events' \cup Sock' = Got \cup Events \cup Sock
      /\ ToSet(said') = ToSet(said)
  BY <1>1, <1>2, <1>3, <1>4 DEF Got
<1>10. \A m \in Got, n \in Sock : m < n
  BY DEF InFlow
<1>11. /\ Learned' \cap lost' = {}
       /\ \A m \in Got', n \in Events' : m < n
       /\ \A m \in Got' \cup Events', n \in Sock' : m < n
  <2>1. CASE lost' = lost \cup Carried(f) /\ Events' = {}
    <3>1. Got' = Got \cup Carried(f)
      BY <1>4, <2>1 DEF Got
    <3>2. \A m \in Learned, n \in Carried(f) : m \in Nat /\ n \in Nat /\ m < n
      BY <1>3, <1>5, <1>10 DEF Got
    <3>3. Learned' \cap lost' = {}
      BY <1>4, <2>1, <3>2 DEF InFlow
    <3> QED
      BY <1>3, <1>6, <1>10, <2>1, <3>1, <3>3
  <2>2. CASE lost' = lost /\ Events' = Carried(f)
    <3>1. Got' = Got
      BY <1>4, <2>2 DEF Got
    <3> QED
      BY <1>3, <1>4, <1>6, <1>10, <2>2, <3>1 DEF InFlow
  <2> QED
    BY <1>1, <2>1, <2>2
<1>12. /\ ToSet(said') \subseteq 1..made'
       /\ Got' \cup Events' \cup Sock' \subseteq ToSet(said')
       /\ \A n \in Got' \cup Events' \cup Sock', m \in ToSet(said') :
            m < n => m \in Got' \cup Events' \cup Sock'
       /\ up' => ToSet(said') \subseteq Got' \cup Events' \cup Sock'
  <2>1. PICK all : all = Got \cup Events \cup Sock
    OBVIOUS
  <2>2. /\ ToSet(said) \subseteq 1..made /\ all \subseteq ToSet(said)
        /\ \A n \in all, m \in ToSet(said) : m < n => m \in all
        /\ up => ToSet(said) \subseteq all
    BY <2>1 DEF InFlow
  <2> QED
    BY <1>2, <1>9, <2>1, <2>2, Zenon
<1> QED
  BY <1>7, <1>8, <1>11, <1>12 DEF InFlow

(* The caller takes an event. *)
LEMMA FlowTaken ==
  ASSUME FeedTypeOK, WellFormed, InFlow, TakeEvent
  PROVE  InFlow'
<1>1. PICK e : /\ e = Head(events) /\ e \in ToSet(events) /\ sock' = sock
               /\ Events = Numbers(e) \cup Events' /\ Sock' = Sock
               /\ phase = "deliver" /\ phase' \in {"read", "deliver"}
               /\ \/ \E t \in Tokens : Book(e, t)
                  \/ events' = <<>> /\ \E n \in 1..made : News(e, n)
                  \/ events' = <<>> /\ Aside(e)
  BY TakeIs
<1>2. /\ learned' = learned \o SetToSeq(Numbers(e)) /\ up' = up /\ said' = said /\ lost' = lost
      /\ made' = made
  BY <1>1, ApplyIs DEF server
<1>3. /\ ToSet(learned') = ToSet(learned) \cup Numbers(e)
      /\ Numbers(e) = {} => learned' = learned
      /\ \A n : Numbers(e) = {n} => learned' = Append(learned, n)
  BY <1>1, <1>2, HeardIs
<1>4. Learned = ToSet(learned) /\ Learned' = Learned \cup Numbers(e)
  BY <1>1, <1>3 DEF Learned
<1>5. CASE Numbers(e) = {}
  <2>1. Learned' = Learned /\ Events' = Events /\ Got' = Got /\ learned' = learned
    BY <1>1, <1>2, <1>3, <1>4, <1>5 DEF Got
  <2> QED
    BY <1>1, <1>2, <2>1 DEF InFlow
<1>6. CASE \E n \in 1..made : Numbers(e) = {n} /\ events' = <<>>
  <2>1. PICK n \in 1..made : Numbers(e) = {n} /\ events' = <<>>
    BY <1>6
  <2>2. Events' = {} /\ Events = {n} /\ Got' = Got \cup {n}
    <3>1. Events' = {}
      BY <2>1, EmptyIs DEF Events
    <3> QED
      BY <1>1, <1>2, <1>4, <2>1, <3>1 DEF Got
  <2>3. \A m \in Got : m \in Nat /\ m < n /\ m # n
    <3>1. \A m \in Got : m \in Nat /\ n \in Nat
      BY <2>2, FlowIs
    <3>2. \A m \in Got : m < n
      BY <2>2 DEF InFlow
    <3>3. \A m \in Nat : n \in Nat /\ m < n => m # n
      OBVIOUS
    <3> QED
      BY <3>1, <3>2, <3>3
  <2>4. Learned' \cap lost' = {}
    <3>1. n \notin lost /\ Learned \cap lost = {}
      BY <2>3 DEF Got, InFlow
    <3> QED
      BY <1>2, <1>4, <2>1, <3>1
  <2>5. \A m \in Got' \cup Events', k \in Sock' : m < k
    BY <1>1, <2>2 DEF InFlow
  <2>6. \A i, j \in DOMAIN learned' : i < j => learned'[i] < learned'[j]
    <3> SUFFICES ASSUME NEW i \in DOMAIN learned', NEW j \in DOMAIN learned', i < j
                 PROVE  learned'[i] < learned'[j]
      OBVIOUS
    <3>1. IsSeq(learned)
      BY SeqWithin DEF FeedTypeOK
    <3>2. /\ DOMAIN learned' = 1..(Len(learned) + 1) /\ learned'[Len(learned) + 1] = n
          /\ \A k \in DOMAIN learned : learned'[k] = learned[k]
      <4>1. learned' = Append(learned, n)
        BY <1>3, <2>1
      <4> QED
        BY <3>1, <4>1, AppendIs
    <3>3. Len(learned) \in Nat /\ DOMAIN learned = 1..Len(learned)
      BY <3>1, SeqIs
    <3>4. i \in DOMAIN learned /\ (j \in DOMAIN learned \/ j = Len(learned) + 1)
      BY <3>2, <3>3
    <3>5. learned'[i] = learned[i] /\ learned[i] \in Got
      BY <1>4, <3>1, <3>2, <3>4, SeqIs DEF Got
    <3>6. CASE j \in DOMAIN learned
      <4>1. learned'[j] = learned[j] /\ learned[i] < learned[j]
        BY <1>1, <3>2, <3>4, <3>6 DEF InFlow
      <4> QED
        BY <3>5, <4>1
    <3>7. CASE j = Len(learned) + 1
      BY <2>3, <3>2, <3>5, <3>7
    <3> QED
      BY <3>4, <3>6, <3>7
  <2>7. Got' \cup Events' \cup Sock' = Got \cup Events \cup Sock
    BY <1>1, <2>2
  <2>8. /\ ToSet(said') \subseteq 1..made'
        /\ Got' \cup Events' \cup Sock' \subseteq ToSet(said')
        /\ \A k \in Got' \cup Events' \cup Sock', m \in ToSet(said') :
             m < k => m \in Got' \cup Events' \cup Sock'
        /\ up' => ToSet(said') \subseteq Got' \cup Events' \cup Sock'
    <3>1. PICK all : all = Got \cup Events \cup Sock
      OBVIOUS
    <3>2. /\ ToSet(said) \subseteq 1..made /\ all \subseteq ToSet(said)
          /\ \A k \in all, m \in ToSet(said) : m < k => m \in all
          /\ up => ToSet(said) \subseteq all
      BY <3>1 DEF InFlow
    <3> QED
      BY <1>2, <2>7, <3>1, <3>2, Zenon
  <2>9. /\ \A m \in Got', k \in Events' : m < k
        /\ \A i, j \in DOMAIN sock' : i < j =>
             \A m \in Carried(sock'[i]), k \in Carried(sock'[j]) : m < k
    BY <1>1, <2>2 DEF InFlow
  <2> QED
    BY <2>4, <2>5, <2>6, <2>8, <2>9 DEF InFlow
<1> QED
  BY <1>1, <1>5, <1>6, NumbersIs

(* A new socket has no numbers. *)
LEMMA FlowNew ==
  ASSUME FeedTypeOK, Reconnect
  PROVE  InFlow'
<1>1. /\ sock' = <<>> /\ events' = <<>> /\ said' = <<>> /\ lost' = {} /\ phase' = "announce"
  BY DEF Reconnect, FeedTypeOK
<1>2. ToSet(said') = {} /\ DOMAIN sock' = {} /\ ToSet(sock') = {} /\ ToSet(events') = {}
  BY <1>1, EmptyIs
<1>3. Learned' = {} /\ Events' = {} /\ Sock' = {}
  BY <1>1, <1>2 DEF Learned, Events, Sock
<1>4. Got' = {}
  BY <1>1, <1>3 DEF Got
<1> QED
  BY <1>1, <1>2, <1>3, <1>4 DEF InFlow

(* Every step keeps them in order. *)
LEMMA InFlowKept ==
  ASSUME FeedTypeOK, Made, WellFormed, InFlow, [FeedNext]_feedVars
  PROVE  InFlow'
<1>0. made \in Nat
  BY DEF FeedTypeOK
<1>1. CASE Accept
  <2>1. /\ events' = events /\ said' = said /\ lost' = lost /\ up' = up /\ up /\ made' = made
        /\ learned' = learned /\ phase' = phase
    BY <1>1 DEF Accept, history
  <2>2. CASE sock' = sock
    BY <1>0, <2>1, <2>2, FlowStays DEF Learned
  <2>3. CASE \E g : sock' = Append(sock, g) /\ Dump(g) /\ Formed(g)
    BY <2>1, <2>3, FlowSent, CarriedIs DEF Formed
  <2> QED
    BY <1>1, <2>2, <2>3, AcceptIs
<1>2. CASE Move
  <2>1. /\ events' = events /\ lost' = lost /\ up' = up /\ made' = made + 1
        /\ learned' = learned /\ phase' = phase
    BY <1>2 DEF Move
  <2>2. CASE up /\ taken
    <3>1. PICK g, n : /\ sock' = Append(sock, g) /\ n = made + 1 /\ said' = Append(said, made + 1)
                      /\ Report(g, n)' /\ Formed(g)'
      BY <1>2, <2>2, MoveIs
    <3>2. Carried(g) = {made + 1}
      <4>1. IsSeq(g.objects)
        BY <3>1 DEF Formed
      <4>2. News(g.objects[1], n)' /\ Len(g.objects) = 1
        BY <3>1 DEF Report
      <4>3. Objects(g) = {g.objects[1]}
        BY <4>1, <4>2, SeqIs DEF Objects, ToSet
      <4>4. /\ g.objects[1].type # "book"
            /\ DOMAIN g.objects[1].changes # {}
            /\ \A t \in DOMAIN g.objects[1].changes : g.objects[1].changes[t].change.n = n
        <5>1. "book" \notin Kinds(channel')
          BY DEF Kinds, MarketKinds, UserKinds, TopicKinds
        <5>2. /\ g.objects[1].type \in Kinds(channel')
              /\ DOMAIN g.objects[1].changes # {}
              /\ \A t \in DOMAIN g.objects[1].changes :
                   g.objects[1].changes[t].change = [n |-> n, kind |-> g.objects[1].type]
          BY <4>2 DEF News
        <5> QED
          BY <5>1, <5>2
      <4>5. Numbers(g.objects[1]) = {n}
        BY <4>4 DEF Numbers
      <4> QED
        BY <3>1, <4>3, <4>5 DEF Carried
    <3> QED
      BY <2>1, <2>2, <3>1, <3>2, FlowSent
  <2>3. CASE ~(up /\ taken)
    <3>1. said' = said /\ sock' = sock
      BY <1>2, <2>3, MoveIs
    <3>2. made' \in Nat /\ made <= made'
      BY <1>0, <2>1
    <3> QED
      BY <2>1, <3>1, <3>2, FlowStays DEF Learned
  <2> QED
    BY <2>2, <2>3
<1>3. CASE Noise
  <2>1. /\ events' = events /\ said' = said /\ lost' = lost /\ up' = up /\ up /\ made' = made
        /\ learned' = learned /\ phase' = phase
    BY <1>3 DEF Noise, history, server
  <2>2. PICK g : sock' = Append(sock, g) /\ Blank(g) /\ Formed(g)
    BY <1>3, NoiseIs
  <2>3. Carried(g) = {}
    BY <2>2, CarriedIs DEF Formed
  <2> QED
    BY <2>1, <2>2, <2>3, FlowSent
<1>4. CASE TakeReconnect
  <2>1. /\ events' = events /\ said' = said /\ lost' = lost /\ up' = up /\ made' = made
        /\ learned' = <<>> /\ sock' = sock /\ phase = "announce" /\ phase' = "read"
    BY <1>4 DEF TakeReconnect, server
  <2>2. Learned' = Learned
    BY <2>1, EmptyIs DEF Learned
  <2> QED
    BY <1>0, <2>1, <2>2, FlowStays
<1>5. CASE Refetch \/ UNCHANGED feedVars
  <2>1. /\ events' = events /\ said' = said /\ lost' = lost /\ up' = up /\ made' = made
        /\ learned' = learned /\ sock' = sock /\ phase' = phase
    BY <1>5 DEF Refetch, feedVars, server, history
  <2> QED
    BY <1>0, <2>1, FlowStays DEF Learned
<1> QED
  BY <1>1, <1>2, <1>3, <1>4, <1>5, FlowBroken, FlowRead, FlowTaken, FlowNew DEF FeedNext
---------------------------------------------------------------------------
(* Books come first. *)

(* No book comes with or after news. *)
LEMMA NoBooksAfter ==
  ASSUME FeedTypeOK, WellFormed, BooksFirst, events # <<>>, NEW e \in ToSet(events), e.type # "book"
  PROVE  Books = {}
<1> SUFFICES ASSUME NEW o \in Books PROVE FALSE
  OBVIOUS
<1>1. o \in ToSet(events) /\ \E t \in Tokens : Book(o, t)
  BY BooksIs DEF BooksFirst
<1>2. IsSeq(events) /\ (Len(events) = 1 => ToSet(events) = {events[1]})
  BY SeqIs DEF FeedTypeOK, ToSet
<1>3. Len(events) # 1
  BY <1>1, <1>2 DEF Book
<1>4. \A x \in ToSet(events) : x.type = "book"
  BY <1>3 DEF WellFormed, Book
<1> QED
  BY <1>4

(* A frame is sent behind the others. *)
LEMMA FreshSent ==
  ASSUME FeedTypeOK, BooksFirst, NEW g, sock' = Append(sock, g), g.form # "array",
         events' = events, Books' = Books, learned' = learned, phase' = phase,
         dropped' = dropped, up' /\ taken'
  PROVE  BooksFirst'
<1>1. Len(sock) \in Nat /\ DOMAIN sock = 1..Len(sock)
  BY SeqIs DEF FeedTypeOK
<1>2. /\ DOMAIN sock' = 1..(Len(sock) + 1) /\ sock'[Len(sock) + 1] = g
      /\ \A i \in DOMAIN sock : sock'[i] = sock[i]
  BY AppendIs DEF FeedTypeOK
<1>3. \A i \in DOMAIN sock' : i \in DOMAIN sock \/ i = Len(sock) + 1
  BY <1>1, <1>2
<1>4. \A i \in DOMAIN sock' : sock'[i].form = "array" => i = 1 /\ events' = <<>>
  BY <1>2, <1>3 DEF BooksFirst
<1>5. Learned' = Learned
  BY DEF Learned
<1> QED
  BY <1>4, <1>5 DEF BooksFirst

(* Objects that are no books leave the books. *)
LEMMA BooksStay ==
  ASSUME NEW A, Coming' = Coming \cup A, \A o \in A : o.type # "book"
  PROVE  Books' = Books
<1>1. Books' = {o \in Coming' : o.type = "book"}
  BY DEF Books
<1> QED
  BY <1>1 DEF Books

(* Every step keeps them first. *)
LEMMA FreshKept ==
  ASSUME FeedTypeOK, Made, WellFormed, BooksFirst, [FeedNext]_feedVars
  PROVE  BooksFirst'
<1>1. CASE Accept
  <2>1. /\ events' = events /\ learned' = learned /\ phase' = phase /\ dropped' = dropped
        /\ up /\ ~taken /\ taken'
    BY <1>1 DEF Accept, history
  <2>2. Learned' = Learned
    BY <2>1 DEF Learned
  <2>3. sock = <<>> /\ events = <<>> /\ Learned = {} /\ dropped = {}
    BY <2>1 DEF BooksFirst
  <2>4. \A i \in DOMAIN sock' : i = 1
    <3>1. DOMAIN sock = {} /\ Len(sock) = 0
      BY <2>3, EmptyIs
    <3>2. CASE sock' = sock
      BY <3>1, <3>2
    <3>3. CASE \E g : sock' = Append(sock, g)
      BY <3>1, <3>3, AppendIs DEF FeedTypeOK
    <3> QED
      BY <1>1, <3>2, <3>3, AcceptIs
  <2> QED
    BY <2>1, <2>2, <2>3, <2>4 DEF BooksFirst
<1>2. CASE Move
  <2>1. /\ events' = events /\ learned' = learned /\ phase' = phase /\ dropped' = dropped
        /\ up' = up /\ taken' = taken /\ view' = view
    BY <1>2 DEF Move
  <2>2. CASE up /\ taken
    <3>1. PICK g, n : sock' = Append(sock, g) /\ Report(g, n)' /\ Formed(g)'
      BY <1>2, <2>2, MoveIs
    <3>2. g.form = "object" /\ IsSeq(g.objects) /\ Len(g.objects) = 1 /\ News(g.objects[1], n)'
      BY <3>1 DEF Report, Formed
    <3>3. \A o \in Objects(g) : o.type # "book"
      <4>1. Objects(g) = {g.objects[1]}
        BY <3>2, SeqIs DEF Objects, ToSet
      <4>2. "book" \notin Kinds(channel')
        BY DEF Kinds, MarketKinds, UserKinds, TopicKinds
      <4> QED
        BY <3>2, <4>1, <4>2 DEF News
    <3>4. Coming' = Coming \cup Objects(g)
      BY <2>1, <3>1, SentIs
    <3>5. Books' = Books
      <4>1. PICK A : A = Objects(g)
        OBVIOUS
      <4> QED
        BY <3>3, <3>4, <4>1, BooksStay
    <3>6. up' /\ taken' /\ g.form # "array"
      BY <2>1, <2>2, <3>2
    <3> QED
      BY <2>1, <3>1, <3>5, <3>6, FreshSent
  <2>3. CASE ~(up /\ taken)
    <3>1. sock' = sock /\ channel' = channel
      BY <1>2, <2>3, MoveIs DEF Grows
    <3>2. Coming' = Coming /\ Learned' = Learned
      BY <2>1, <3>1 DEF Coming, Learned
    <3>3. Books' = Books
      BY <3>2 DEF Books
    <3> QED
      BY <2>1, <3>1, <3>2, <3>3 DEF BooksFirst, Held
  <2> QED
    BY <2>2, <2>3
<1>3. CASE Noise
  <2>1. /\ events' = events /\ learned' = learned /\ phase' = phase /\ dropped' = dropped
        /\ up' /\ taken'
    BY <1>3 DEF Noise, history, server
  <2>2. PICK g : sock' = Append(sock, g) /\ Blank(g) /\ Formed(g)
    BY <1>3, NoiseIs
  <2>3. g.form # "array" /\ \A o \in Objects(g) : o.type # "book"
    BY <2>2, CarriedIs DEF Blank, Aside, Formed
  <2>4. Coming' = Coming \cup Objects(g)
    BY <2>1, <2>2, SentIs
  <2>5. Books' = Books
    <3>1. PICK A : A = Objects(g)
      OBVIOUS
    <3> QED
      BY <2>3, <2>4, <3>1, BooksStay
  <2> QED
    BY <2>1, <2>2, <2>3, <2>5, FreshSent
<1>4. CASE SocketBreaks
  <2>1. /\ events' = events /\ learned' = learned /\ phase' = phase /\ dropped' = dropped /\ ~up'
    BY <1>4 DEF SocketBreaks, history
  <2>2. PICK k \in 0 .. Len(sock) : sock' = SubSeq(sock, 1, k)
    BY <1>4 DEF SocketBreaks
  <2>3. /\ DOMAIN sock' \subseteq DOMAIN sock /\ \A i \in DOMAIN sock' : sock'[i] = sock[i]
        /\ Coming' \subseteq Coming
    BY <2>1, <2>2, BrokenIs
  <2>4. Books' \subseteq Books
    BY <2>3 DEF Books
  <2>5. Learned' = Learned
    BY <2>1 DEF Learned
  <2> QED
    BY <2>1, <2>3, <2>4, <2>5 DEF BooksFirst
<1>5. CASE ReadNext
  <2>1. /\ learned' = learned /\ up' = up /\ taken' = taken /\ phase = "read"
        /\ sock # <<>> /\ sock' = Tail(sock)
    BY <1>5 DEF ReadNext, server
  <2>2. (up /\ taken) \/ ~up
    BY <2>1 DEF BooksFirst
  <2>3. \A i \in DOMAIN sock' : sock'[i].form # "array"
    <3>1. \A i \in DOMAIN sock' : i \in Nat /\ i + 1 \in DOMAIN sock /\ sock'[i] = sock[i + 1]
      BY <2>1, FirstIs
    <3>2. IsSeq(sock')
      BY <2>1, FirstIs
    <3>3. \A i \in DOMAIN sock' : i # 0
      BY <3>2, SeqIs
    <3>4. \A i \in DOMAIN sock' : i + 1 # 1
      BY <3>1, <3>3
    <3> QED
      BY <3>1, <3>4 DEF BooksFirst
  <2>4. /\ phase' \in {"read", "deliver"}
        /\ \/ events' = <<>>
           \/ Books' = Books /\ dropped' = dropped
    BY <1>5, ReadIs
  <2>5. Learned' = Learned
    BY <2>1, <2>4 DEF Learned
  <2>6. CASE events' = <<>>
    <3>1. Books' = {}
      <4>1. FeedTypeOK' /\ WellFormed'
        BY TypeKept, WellFormedKept
      <4>2. ASSUME NEW o \in Books' PROVE FALSE
        <5>1. o \in Coming' /\ o.type = "book" /\ ToSet(events') = {}
          BY <2>6, EmptyIs DEF Books
        <5>2. PICK f \in ToSet(sock') : o \in Objects(f)
          BY <5>1 DEF Coming
        <5>3. f.form # "array" /\ Formed(f)'
          BY <2>3, <4>1 DEF ToSet, WellFormed
        <5>4. IsSeq(f.objects) /\ ((\E n : Report(f, n)') \/ Blank(f))
          BY <5>3 DEF Formed, Dump, Blank
        <5>5. Len(f.objects) = 1 => o = f.objects[1]
          BY <5>2, <5>4, SeqIs DEF Objects, ToSet
        <5>6. f.objects = <<>> => Objects(f) = {}
          BY EmptyIs DEF Objects
        <5>7. "book" \notin Kinds(channel')
          BY DEF Kinds, MarketKinds, UserKinds, TopicKinds
        <5> QED
          BY <5>1, <5>2, <5>4, <5>5, <5>6, <5>7 DEF Report, Blank, News, Aside
      <4> QED
        BY <4>2
    <3> QED
      BY <2>1, <2>2, <2>3, <3>1 DEF BooksFirst
  <2>7. CASE Books' = Books /\ dropped' = dropped
    BY <2>1, <2>2, <2>3, <2>5, <2>7 DEF BooksFirst
  <2> QED
    BY <2>4, <2>6, <2>7
<1>6. CASE Reconnect
  <2>1. sock' = <<>> /\ events' = <<>> /\ phase' = "announce" /\ dropped' = {}
    BY <1>6 DEF Reconnect, FeedTypeOK
  <2>2. Learned' = {} /\ DOMAIN sock' = {}
    BY <2>1, EmptyIs DEF Learned
  <2> QED
    BY <2>1, <2>2 DEF BooksFirst
<1>7. CASE TakeReconnect
  <2>1. /\ events' = events /\ sock' = sock /\ dropped' = dropped /\ learned' = <<>>
        /\ view' = [t \in Tokens |-> NoView] /\ up' = up /\ taken' = taken
    BY <1>7 DEF TakeReconnect, server
  <2>2. Books' = Books /\ Learned' = {}
    BY <2>1, EmptyIs DEF Books, Coming, Learned
  <2>3. \A t \in Tokens : ~Held(t)'
    BY <2>1 DEF Held
  <2> QED
    BY <2>1, <2>2, <2>3 DEF BooksFirst
<1>8. CASE TakeEvent
  <2>1. PICK e : /\ e = Head(events) /\ e \in ToSet(events) /\ sock' = sock
                 /\ Coming = {e} \cup Coming'
                 /\ phase = "deliver" /\ phase' \in {"read", "deliver"}
                 /\ \/ \E t \in Tokens : Book(e, t)
                    \/ events' = <<>> /\ \E n \in 1..made : News(e, n)
                    \/ events' = <<>> /\ Aside(e)
    BY <1>8, TakeIs
  <2>2. events # <<>>
    BY <2>1 DEF FeedTypeOK
  <2>3. /\ learned' = learned \o SetToSeq(Numbers(e)) /\ up' = up /\ taken' = taken
        /\ dropped' = IF e.type = "book" THEN dropped \ DOMAIN e.changes ELSE dropped
    BY <1>8, <2>1, ApplyIs DEF server
  <2>4. Books' \subseteq Books
    BY <2>1 DEF Books
  <2>5. Learned = ToSet(learned) /\ Learned' = ToSet(learned')
    BY <2>1 DEF Learned
  <2>6. Books' # {} => Learned' = {} /\ dropped' = {}
    <3> SUFFICES ASSUME Books' # {} PROVE Learned' = {} /\ dropped' = {}
      OBVIOUS
    <3>1. Learned = {} /\ dropped = {}
      BY <2>4 DEF BooksFirst
    <3>2. e.type = "book"
      BY <2>1, <2>2, <2>4, NoBooksAfter
    <3>3. Numbers(e) = {}
      BY <3>2 DEF Numbers
    <3>4. learned' = learned
      BY <2>1, <2>3, <3>3, HeardIs
    <3> QED
      BY <2>3, <2>5, <3>1, <3>4
  <2>7. \A i \in DOMAIN sock' : sock'[i].form # "array"
    BY <2>1, <2>2 DEF BooksFirst
  <2>8. (up /\ taken) \/ ~up
    BY <2>2 DEF BooksFirst
  <2> QED
    BY <2>3, <2>6, <2>7, <2>8 DEF BooksFirst
<1>9. CASE Refetch
  <2>1. /\ events' = events /\ sock' = sock /\ dropped' = {} /\ learned' = learned
        /\ phase' = phase /\ up' = up /\ taken' = taken /\ channel' = "user"
    BY <1>9 DEF Refetch, server
  <2>2. Books' = Books /\ Learned' = Learned
    BY <2>1 DEF Books, Coming, Learned
  <2> QED
    BY <2>1, <2>2 DEF BooksFirst
<1>10. CASE UNCHANGED feedVars
  <2>1. /\ events' = events /\ sock' = sock /\ dropped' = dropped /\ learned' = learned
        /\ phase' = phase /\ up' = up /\ taken' = taken /\ channel' = channel /\ view' = view
    BY <1>10 DEF feedVars, server, history
  <2>2. Books' = Books /\ Learned' = Learned
    BY <2>1 DEF Books, Coming, Learned
  <2> QED
    BY <2>1, <2>2 DEF BooksFirst, Held
<1> QED
  BY <1>1, <1>2, <1>3, <1>4, <1>5, <1>6, <1>7, <1>8, <1>9, <1>10 DEF FeedNext
---------------------------------------------------------------------------
(* Nothing goes missing unannounced. *)

(* Nothing of a token changes but what is no longer on its way or held. *)
LEMMA WholeStays ==
  ASSUME NEW t, Whole(t), UNCHANGED <<channel, taken>>,
         Wanted(t)' \subseteq Wanted(t), Has(t)' <=> Has(t), view'[t] = view[t],
         \A o : t \in DOMAIN o.changes => (o \in Books' <=> o \in Books),
         Told(t) \subseteq Told(t)'
  PROVE  Whole(t)'
<1>1. Has(t)' => Wanted(t)' \subseteq view'[t].changes \cup Told(t)'
  BY DEF Whole
<1>2. \A o \in Books' : t \in DOMAIN o.changes =>
        Wanted(t)' \subseteq o.changes[t].changes \cup Told(t)'
  BY DEF Whole
<1>3. channel' = "market" /\ InitialDump /\ taken' =>
        Has(t)' \/ \E o \in Books' : t \in DOMAIN o.changes
  BY DEF Whole
<1> QED
  BY <1>1, <1>2, <1>3 DEF Whole

(* A change is streamed, or the user channel has not been subscribed to. *)
LEMMA CompleteMoved ==
  ASSUME FeedTypeOK, Made, BooksFirst, Complete, Move
  PROVE  Complete'
<1>1. /\ events' = events /\ phase' = phase /\ dropped' = dropped
      /\ up' = up /\ taken' = taken /\ view' = view /\ channel' = channel
  BY DEF Move
<1>2. PICK kind \in Kinds(channel), ts \in SUBSET Tokens :
        /\ truth' = [t \in Tokens |->
                       IF t \in ts THEN truth[t] \cup {[n |-> made + 1, kind |-> kind]} ELSE truth[t]]
        /\ up /\ taken =>
             /\ missed' = missed
             /\ \E g, n : /\ sock' = Append(sock, g) /\ n = made + 1
                          /\ Report(g, n)' /\ Formed(g)' /\ DOMAIN g.objects[1].changes = ts
        /\ ~(up /\ taken) =>
             /\ sock' = sock
             /\ missed' = IF channel = "user" THEN missed \cup {made + 1} ELSE missed
  BY MoveIs
<1>3. PICK c : c = [n |-> made + 1, kind |-> kind]
  OBVIOUS
<1>4. c.n = made + 1 /\ \A t \in Tokens : truth'[t] = IF t \in ts THEN truth[t] \cup {c} ELSE truth[t]
  BY <1>2, <1>3
<1>5. \A t : Has(t)' <=> Has(t)
  BY <1>1 DEF Has, Held
<1>6. CASE up /\ taken
  <2>1. PICK g, n : /\ sock' = Append(sock, g) /\ n = made + 1
                    /\ Report(g, n)' /\ Formed(g)' /\ DOMAIN g.objects[1].changes = ts
    BY <1>2, <1>6
  <2>2. PICK o : o = g.objects[1]
    OBVIOUS
  <2>3. Objects(g) = {o}
    <3>1. IsSeq(g.objects) /\ Len(g.objects) = 1
      BY <2>1 DEF Formed, Report
    <3> QED
      BY <2>2, <3>1, SeqIs DEF Objects, ToSet
  <2>4. o.type # "book" /\ DOMAIN o.changes = ts /\ \A t \in ts : o.changes[t].change = c
    <3>1. News(o, n)' /\ DOMAIN o.changes = ts
      BY <2>1, <2>2 DEF Report, News
    <3>2. "book" \notin Kinds(channel')
      BY DEF Kinds, MarketKinds, UserKinds, TopicKinds
    <3>3. o.type # "book" /\ \A t \in ts : o.changes[t].change \in truth'[t] /\ o.changes[t].change.n = n
      BY <3>1, <3>2 DEF News
    <3>4. \A t \in Tokens : \A d \in truth[t] : d.n # made + 1
      BY DEF Made, FeedTypeOK
    <3>5. \A t \in ts : o.changes[t].change \in truth[t] \/ o.changes[t].change = c
      BY <1>4, <3>3
    <3> QED
      BY <2>1, <3>1, <3>3, <3>4, <3>5
  <2>5. Coming' = Coming \cup {o}
    BY <1>1, <2>1, <2>3, SentIs
  <2>6. Books' = Books
    <3>1. PICK A : A = {o}
      OBVIOUS
    <3> QED
      BY <2>4, <2>5, <3>1, BooksStay
  <2>7. ASSUME NEW t PROVE Told(t) \subseteq Told(t)' /\ (t \in ts => c \in Told(t)')
    <3>1. Told(t)' = {x.changes[t].change : x \in {y \in Coming' \ Books' : t \in DOMAIN y.changes}}
      BY DEF Told
    <3>2. o \notin Books'
      BY <2>4 DEF Books
    <3> QED
      BY <2>4, <2>5, <2>6, <3>1, <3>2 DEF Told
  <2>8. missed' = missed
    BY <1>2, <1>6
  <2>9. ASSUME NEW t \in Tokens, Whole(t) PROVE Whole(t)'
    <3>1. Wanted(t)' \subseteq Wanted(t) \cup Told(t)'
      BY <1>4, <2>7, <2>8 DEF Wanted
    <3>2. Has(t)' => Wanted(t)' \subseteq view'[t].changes \cup Told(t)'
      BY <1>1, <1>5, <2>7, <2>9, <3>1 DEF Whole
    <3>3. \A x \in Books' : t \in DOMAIN x.changes =>
            Wanted(t)' \subseteq x.changes[t].changes \cup Told(t)'
      BY <2>6, <2>7, <2>9, <3>1 DEF Whole
    <3>4. channel' = "market" /\ InitialDump /\ taken' =>
            Has(t)' \/ \E x \in Books' : t \in DOMAIN x.changes
      BY <1>1, <1>5, <2>6, <2>9 DEF Whole
    <3> QED
      BY <3>2, <3>3, <3>4 DEF Whole
  <2> QED
    BY <1>1, <2>8, <2>9 DEF Complete
<1>7. CASE ~(up /\ taken)
  <2>1. /\ sock' = sock
        /\ missed' = IF channel = "user" THEN missed \cup {made + 1} ELSE missed
    BY <1>2, <1>7
  <2>2. Coming' = Coming
    BY <1>1, <2>1 DEF Coming
  <2>3. Books' = Books
    BY <2>2 DEF Books
  <2>4. \A t : Told(t)' = Told(t)
    BY <2>2, <2>3 DEF Told
  <2>5. ASSUME NEW t \in Tokens, Whole(t), channel = "user" PROVE Whole(t)'
    <3>1. Wanted(t)' \subseteq Wanted(t)
      BY <1>4, <2>1, <2>5 DEF Wanted
    <3> QED
      BY <1>1, <1>5, <2>3, <2>4, <2>5, <3>1, WholeStays
  <2>6. ASSUME NEW t \in Tokens, up, channel = "market" PROVE Whole(t)'
    <3>1. ~Has(t) /\ sock = <<>> /\ events = <<>>
      BY <1>7, <2>6 DEF BooksFirst, Has
    <3>2. Coming = {}
      BY <3>1, EmptyIs DEF Coming
    <3>3. ~Has(t)' /\ Books' = {} /\ ~taken'
      BY <1>1, <1>5, <1>7, <2>3, <2>6, <3>1, <3>2 DEF Books
    <3> QED
      BY <3>3 DEF Whole
  <2> QED
    BY <1>1, <2>1, <2>5, <2>6 DEF Complete
<1> QED
  BY <1>6, <1>7

(* The server answers with the books. *)
LEMMA CompleteAccepted ==
  ASSUME FeedTypeOK, BooksFirst, Complete, Accept
  PROVE  Complete'
<1>1. /\ events' = events /\ phase' = phase /\ dropped' = dropped /\ missed' = missed
      /\ up' = up /\ up /\ ~taken /\ view' = view /\ channel' = channel /\ truth' = truth
  BY DEF Accept, history
<1>2. \A t : (Has(t)' <=> Has(t)) /\ Wanted(t)' = Wanted(t)
  BY <1>1 DEF Has, Held, Wanted
<1>3. CASE sock' = sock /\ ~(channel = "market" /\ InitialDump)
  <2>1. Coming' = Coming
    BY <1>1, <1>3 DEF Coming
  <2>2. Books' = Books
    BY <2>1 DEF Books
  <2>3. \A t : Told(t)' = Told(t)
    BY <2>1, <2>2 DEF Told
  <2>4. ASSUME NEW t, Whole(t) PROVE Whole(t)'
    BY <1>1, <1>2, <1>3, <2>2, <2>3, <2>4 DEF Whole
  <2> QED
    BY <1>1, <2>4 DEF Complete
<1>4. CASE /\ channel = "market" /\ InitialDump
           /\ \E g : /\ sock' = Append(sock, g) /\ Dump(g)
                     /\ \A o \in Objects(g), t \in Tokens :
                          t \in DOMAIN o.changes => o.changes[t].changes = truth[t]
  <2>1. PICK g : /\ sock' = Append(sock, g) /\ Dump(g)
                 /\ \A o \in Objects(g), t \in Tokens :
                      t \in DOMAIN o.changes => o.changes[t].changes = truth[t]
    BY <1>4
  <2>2. Coming' = Objects(g)
    <3>1. Coming = {}
      BY <1>1, EmptyIs DEF BooksFirst, Coming
    <3> QED
      BY <1>1, <2>1, <3>1, SentIs
  <2>3. Books' = {o \in Objects(g) : o.type = "book"}
    BY <2>2 DEF Books
  <2>4. ASSUME NEW t \in Tokens PROVE Whole(t)'
    <3>1. ~Has(t)'
      BY <1>1, <1>2, <1>4 DEF BooksFirst, Has
    <3>2. \A o \in Books' : t \in DOMAIN o.changes =>
            Wanted(t)' \subseteq o.changes[t].changes \cup Told(t)'
      BY <1>2, <2>1, <2>3 DEF Wanted
    <3>3. \E o \in Books' : t \in DOMAIN o.changes
      BY <2>1, <2>3 DEF Dump, Book
    <3> QED
      BY <3>1, <3>2, <3>3 DEF Whole
  <2> QED
    BY <1>1, <2>4 DEF Complete
<1> QED
  BY <1>3, <1>4, AcceptIs

(* The loop reads: what it drops it was about tokens that are dropped. *)
LEMMA CompleteRead ==
  ASSUME FeedTypeOK, WellFormed, Complete, ReadNext
  PROVE  Complete'
<1>1. /\ missed' = missed /\ up' = up /\ taken' = taken /\ view' = view /\ channel' = channel
      /\ truth' = truth /\ phase = "read"
  BY DEF ReadNext, server
<1>2. PICK f :
        /\ phase' \in {"read", "deliver"}
        /\ \/ /\ dropped' = dropped \cup UNION {DOMAIN o.changes : o \in Objects(f)}
              /\ Coming = Objects(f) \cup Coming'
           \/ /\ dropped' = dropped
              /\ Books' = Books /\ \A t : Told(t)' = Told(t)
  BY ReadIs
<1>3. \A t : (Has(t)' <=> Has(t)) /\ Wanted(t)' = Wanted(t)
  BY <1>1, <1>2 DEF Has, Held, Wanted
<1>4. dropped \subseteq dropped'
  BY <1>2
<1>5. ASSUME NEW t \in Tokens \ dropped', Whole(t) PROVE Whole(t)'
  <2>1. CASE Books' = Books /\ Told(t)' = Told(t)
    BY <1>1, <1>3, <1>5, <2>1, WholeStays
  <2>2. CASE /\ dropped' = dropped \cup UNION {DOMAIN o.changes : o \in Objects(f)}
             /\ Coming = Objects(f) \cup Coming'
    <3>1. \A o : t \in DOMAIN o.changes => (o \in Coming' <=> o \in Coming)
      BY <1>5, <2>2
    <3>2. Books' = {o \in Coming' : o.type = "book"}
      BY DEF Books
    <3>3. \A o : t \in DOMAIN o.changes => (o \in Books' <=> o \in Books)
      BY <3>1, <3>2 DEF Books
    <3>4. Told(t)' = {o.changes[t].change : o \in {x \in Coming' \ Books' : t \in DOMAIN x.changes}}
      BY DEF Told
    <3>5. Told(t) \subseteq Told(t)'
      BY <3>1, <3>3, <3>4 DEF Told
    <3> QED
      BY <1>1, <1>3, <1>5, <3>3, <3>5, WholeStays
  <2> QED
    BY <1>2, <2>1, <2>2
<1> QED
  BY <1>1, <1>4, <1>5 DEF Complete

(* The caller takes an event. *)
LEMMA CompleteTaken ==
  ASSUME FeedTypeOK, WellFormed, BooksFirst, Complete, TakeEvent
  PROVE  Complete'
<1>1. PICK e : /\ e = Head(events) /\ e \in ToSet(events) /\ sock' = sock
               /\ Coming = {e} \cup Coming'
               /\ phase = "deliver" /\ phase' \in {"read", "deliver"}
               /\ \/ \E u \in Tokens : Book(e, u)
                  \/ \E n \in 1..made : News(e, n)
                  \/ Aside(e)
  BY TakeIs
<1>2. /\ UNCHANGED <<channel, truth, taken, up, missed>>
      /\ dropped' = IF e.type = "book" THEN dropped \ DOMAIN e.changes ELSE dropped
      /\ \A t \in Tokens :
           /\ t \notin DOMAIN e.changes => view'[t] = view[t]
           /\ t \in DOMAIN e.changes /\ e.type = "book" => view'[t] = e.changes[t]
           /\ t \in DOMAIN e.changes /\ e.type # "book" =>
                view'[t] = IF Held(t) THEN View(view[t].changes \cup {e.changes[t].change})
                           ELSE NoView
  BY <1>1, ApplyIs DEF server
<1>3. \A t : /\ Wanted(t)' = Wanted(t) /\ (Has(t) <=> Held(t))
             /\ (Has(t)' <=> view'[t] # NoView) /\ (Held(t) <=> view[t] # NoView)
  BY <1>1, <1>2 DEF Has, Held, Wanted
<1>4. /\ Books' = {o \in Coming' : o.type = "book"}
      /\ \A t : Told(t)' = {o.changes[t].change : o \in {x \in Coming' \ Books' : t \in DOMAIN x.changes}}
  BY DEF Books, Told
<1>5. events # <<>>
  BY <1>1 DEF FeedTypeOK
<1>6. \A S : View(S) # NoView /\ View(S).changes = S
  BY DEF View, NoView
<1>7. CASE \E u \in Tokens : Book(e, u)
  <2>1. PICK u \in Tokens : Book(e, u)
    BY <1>7
  <2>2. e \in Books /\ dropped = {} /\ dropped' = {}
    BY <1>1, <1>2, <2>1 DEF Books, Book, BooksFirst
  <2>3. Books' \subseteq Books /\ Books \subseteq Books' \cup {e}
    BY <1>1, <1>4 DEF Books
  <2>4. \A t : Told(t)' = Told(t)
    <3>1. e.type = "book"
      BY <2>1 DEF Book
    <3>2. Coming' \ Books' = Coming \ Books
      BY <1>1, <1>4, <3>1 DEF Books
    <3> QED
      BY <1>4, <3>2 DEF Told
  <2>5. ASSUME NEW t \in Tokens, Whole(t), t # u PROVE Whole(t)'
    <3>1. t \notin DOMAIN e.changes
      BY <2>1, <2>5 DEF Book
    <3>2. view'[t] = view[t]
      BY <1>2, <3>1
    <3>3. \A o : t \in DOMAIN o.changes => (o \in Books' <=> o \in Books)
      BY <2>3, <3>1
    <3> QED
      BY <1>2, <1>3, <2>4, <2>5, <3>2, <3>3, WholeStays
  <2>6. ASSUME Whole(u) PROVE Whole(u)'
    <3>1. view'[u] = e.changes[u] /\ u \in DOMAIN e.changes /\ e.changes[u] \in [changes : SUBSET truth[u]]
      BY <1>2, <2>1 DEF Book
    <3>2. view'[u] # NoView
      BY <3>1 DEF NoView
    <3>3. Wanted(u)' \subseteq view'[u].changes \cup Told(u)'
      BY <1>3, <2>2, <2>4, <2>6, <3>1 DEF Whole
    <3>4. \A o \in Books' : u \in DOMAIN o.changes =>
            Wanted(u)' \subseteq o.changes[u].changes \cup Told(u)'
      BY <1>3, <2>3, <2>4, <2>6 DEF Whole
    <3> QED
      BY <1>3, <3>2, <3>3, <3>4 DEF Whole
  <2>7. \A t \in Tokens : Whole(t) => Whole(t)'
    BY <2>5, <2>6
  <2> QED
    BY <1>2, <2>2, <2>7 DEF Complete
<1>8. CASE \E n \in 1..made : News(e, n)
  <2>1. e.type # "book" /\ dropped' = dropped
    BY <1>2, <1>8, NumbersIs
  <2>2. Books = {} /\ Books' = {}
    BY <1>1, <1>4, <1>5, <2>1, NoBooksAfter DEF Books
  <2>3. ASSUME NEW t \in Tokens, Whole(t) PROVE Whole(t)'
    <3>1. Told(t) \subseteq Told(t)' \cup {x \in {e.changes[t].change} : t \in DOMAIN e.changes}
      BY <1>1, <1>4, <2>2 DEF Told
    <3>2. Has(t)' <=> Has(t)
      BY <1>2, <1>3, <1>6, <2>1
    <3>3. Has(t)' => Wanted(t)' \subseteq view'[t].changes \cup Told(t)'
      <4>1. Has(t)' => view[t].changes \cup Told(t) \subseteq view'[t].changes \cup Told(t)'
        <5>1. t \notin DOMAIN e.changes => view'[t] = view[t] /\ Told(t) \subseteq Told(t)'
          BY <1>2, <3>1
        <5>2. t \in DOMAIN e.changes /\ Has(t) =>
                view'[t].changes = view[t].changes \cup {e.changes[t].change}
          BY <1>2, <1>3, <1>6, <2>1
        <5>3. Told(t) \subseteq Told(t)' \cup {e.changes[t].change}
          BY <3>1
        <5> QED
          BY <3>2, <5>1, <5>2, <5>3
      <4> QED
        BY <1>3, <2>3, <3>2, <4>1 DEF Whole
    <3> QED
      BY <1>2, <2>2, <2>3, <3>2, <3>3 DEF Whole
  <2> QED
    BY <1>2, <2>1, <2>3 DEF Complete
<1>9. CASE Aside(e)
  <2>1. e.type # "book" /\ dropped' = dropped /\ DOMAIN e.changes = {}
    BY <1>2, <1>9 DEF Aside
  <2>2. Books' = Books /\ \A t : Told(t)' = Told(t)
    <3>1. PICK A, B, X : A = {e} /\ B = {} /\ X = Coming'
      OBVIOUS
    <3>2. Coming = A \cup X /\ Coming' = B \cup X /\ \A o \in (A \ B) \cup (B \ A) : Aside(o)
      BY <1>1, <1>9, <3>1
    <3> QED
      BY <3>2, AsideIs
  <2>3. ASSUME NEW t \in Tokens, Whole(t) PROVE Whole(t)'
    <3>1. view'[t] = view[t]
      BY <1>2, <2>1
    <3> QED
      BY <1>2, <1>3, <2>2, <2>3, <3>1, WholeStays
  <2> QED
    BY <1>2, <2>1, <2>3 DEF Complete
<1> QED
  BY <1>1, <1>7, <1>8, <1>9

(* Every step keeps it complete. *)
LEMMA CompleteKept ==
  ASSUME FeedTypeOK, Made, WellFormed, BooksFirst, Complete, [FeedNext]_feedVars
  PROVE  Complete'
<1>1. CASE Noise
  <2>1. /\ UNCHANGED <<channel, truth, taken, up, missed, view, phase, events, dropped>>
    BY <1>1 DEF Noise, history, server
  <2>2. PICK g : sock' = Append(sock, g) /\ Blank(g) /\ Formed(g)
    BY <1>1, NoiseIs
  <2>3. Coming' = Coming \cup Objects(g) /\ \A o \in Objects(g) : Aside(o)
    BY <2>1, <2>2, SentIs, CarriedIs DEF Formed
  <2>4. Books' = Books /\ \A t : Told(t)' = Told(t)
    <3>1. PICK A, B, X : A = {} /\ B = Objects(g) /\ X = Coming
      OBVIOUS
    <3>2. Coming = A \cup X /\ Coming' = B \cup X /\ \A o \in (A \ B) \cup (B \ A) : Aside(o)
      BY <2>3, <3>1
    <3> QED
      BY <3>2, AsideIs
  <2>5. \A t : (Has(t)' <=> Has(t)) /\ Wanted(t)' = Wanted(t)
    BY <2>1 DEF Has, Held, Wanted
  <2>6. \A t \in Tokens : Whole(t) => Whole(t)'
    BY <2>1, <2>4, <2>5, WholeStays
  <2> QED
    BY <2>1, <2>6 DEF Complete
<1>2. CASE SocketBreaks
  <2>1. ~up' /\ missed' = missed /\ channel' = channel
    BY <1>2 DEF SocketBreaks, history
  <2> QED
    BY <2>1 DEF Complete
<1>3. CASE Reconnect
  <2>1. /\ sock' = <<>> /\ events' = <<>> /\ phase' = "announce" /\ missed' = missed
        /\ channel' = channel /\ ~taken'
    BY <1>3 DEF Reconnect, server, FeedTypeOK
  <2>2. Coming' = {}
    BY <2>1, EmptyIs DEF Coming
  <2>3. Books' = {} /\ \A t : ~Has(t)'
    BY <2>1, <2>2 DEF Books, Has
  <2>4. \A t : Whole(t)'
    BY <2>1, <2>3 DEF Whole
  <2> QED
    BY <2>1, <2>4 DEF Complete
<1>4. CASE TakeReconnect
  <2>1. /\ UNCHANGED <<channel, truth, taken, up, missed, sock, events, dropped>>
        /\ phase = "announce" /\ view' = [t \in Tokens |-> NoView]
    BY <1>4 DEF TakeReconnect, server
  <2>2. Coming' = Coming
    BY <2>1 DEF Coming
  <2>3. Books' = Books
    BY <2>2 DEF Books
  <2>4. \A t : Told(t)' = Told(t) /\ Wanted(t)' = Wanted(t) /\ ~Has(t)
    BY <2>1, <2>2, <2>3 DEF Told, Wanted, Has
  <2>5. \A t \in Tokens : ~Has(t)'
    BY <2>1 DEF Has, Held
  <2>6. \A t \in Tokens : Whole(t) => Whole(t)'
    BY <2>1, <2>3, <2>4, <2>5 DEF Whole
  <2> QED
    BY <2>1, <2>6 DEF Complete
<1>5. CASE Refetch
  <2>1. /\ channel' = "user" /\ channel = "user" /\ truth' = truth /\ missed' = {}
        /\ view' = [t \in Tokens |-> View(truth[t])]
    BY <1>5 DEF Refetch, server
  <2>2. Books' = {}
    <3>1. Books = {}
      BY <2>1, BooksIs
    <3>2. Coming' = Coming
      BY <1>5 DEF Refetch, Coming
    <3> QED
      BY <3>1, <3>2 DEF Books
  <2>3. \A t \in Tokens : Wanted(t)' \subseteq view'[t].changes
    BY <2>1 DEF Wanted, View
  <2>4. \A t \in Tokens : Whole(t)'
    BY <2>1, <2>2, <2>3 DEF Whole
  <2> QED
    BY <2>1, <2>4 DEF Complete
<1>6. CASE UNCHANGED feedVars
  <2>1. UNCHANGED <<channel, truth, taken, up, missed, view, phase, events, sock, dropped>>
    BY <1>6 DEF feedVars, history, server
  <2>2. Coming' = Coming
    BY <2>1 DEF Coming
  <2>3. Books' = Books
    BY <2>2 DEF Books
  <2>4. \A t : Told(t)' = Told(t) /\ Wanted(t)' = Wanted(t) /\ (Has(t)' <=> Has(t))
    BY <2>1, <2>2, <2>3 DEF Told, Wanted, Has, Held
  <2>5. \A t \in Tokens : Whole(t) => Whole(t)'
    BY <2>1, <2>3, <2>4, WholeStays
  <2> QED
    BY <2>1, <2>5 DEF Complete
<1> QED
  BY <1>1, <1>2, <1>3, <1>4, <1>5, <1>6, CompleteMoved, CompleteAccepted, CompleteRead, CompleteTaken
  DEF FeedNext
---------------------------------------------------------------------------
(* Drift is seen. *)

(* The numbers of what the caller holds are made, and one change's. *)
LEMMA HeldIs ==
  ASSUME Made, NEW t \in Tokens, NEW u \in Tokens, Held(t), NEW p \in view[t].changes
  PROVE  p \in truth[t] /\ p.n \in 1..made /\ \A c \in truth[u] : c.n = p.n => c = p
  BY DEF Made

(* Every step keeps it seen. *)
LEMMA DriftSeenKept ==
  ASSUME FeedTypeOK, Made, WellFormed, BooksFirst, DriftSeen, [FeedNext]_feedVars
  PROVE  DriftSeen'
<1>0. Grows /\ made \in Nat
  BY GrowsIs DEF FeedTypeOK
<1>1. ASSUME NEW t \in Tokens, NEW n \in 1..made PROVE Before(t, n)' = Before(t, n)
  <2>1. \A c \in truth'[t] : c \in truth[t] \/ ~(c.n <= n)
    BY <1>0, <1>1 DEF Grows
  <2>2. truth[t] \subseteq truth'[t]
    BY <1>0 DEF Grows
  <2> QED
    BY <2>1, <2>2 DEF Before
<1>2. CASE ~TakeReconnect /\ ~TakeEvent /\ ~Refetch
  <2>1. view' = view /\ trusted' = trusted /\ learned' = learned
    BY <1>2, ViewStays
  <2>2. ASSUME channel = "market", NEW t \in Tokens, Held(t), trusted[t], NEW p \in view[t].changes,
               p.kind = "price_change", p.n \in ToSet(learned)
        PROVE  {c \in truth'[t] : c.n <= p.n} \subseteq view[t].changes
    <3>1. p.n \in 1..made /\ Before(t, p.n) \subseteq view[t].changes
      BY <2>2, HeldIs DEF DriftSeen, Before
    <3>2. PICK n : n = p.n
      OBVIOUS
    <3>3. Before(t, n)' = Before(t, n)
      BY <1>1, <3>1, <3>2
    <3> QED
      BY <3>1, <3>2, <3>3 DEF Before
  <2> QED
    BY <1>0, <2>1, <2>2 DEF DriftSeen, Held, Grows
<1>3. CASE TakeReconnect
  BY <1>3 DEF TakeReconnect, DriftSeen, Held
<1>4. CASE Refetch
  BY <1>4 DEF Refetch, server, DriftSeen
<1>5. CASE TakeEvent
  <2>1. PICK e : /\ e = Head(events) /\ e \in ToSet(events) /\ Coming = {e} \cup Coming'
                 /\ phase = "deliver" /\ phase' \in {"read", "deliver"}
                 /\ \/ \E u \in Tokens : Book(e, u)
                    \/ \E n \in 1..made : News(e, n)
                    \/ Aside(e)
    BY <1>5, TakeIs
  <2>2. /\ channel' = channel /\ truth' = truth /\ learned' = learned \o SetToSeq(Numbers(e))
        /\ \A t \in Tokens :
             /\ t \notin DOMAIN e.changes => view'[t] = view[t] /\ trusted'[t] = trusted[t]
             /\ t \in DOMAIN e.changes /\ e.type # "book" =>
                  /\ view'[t] = IF Held(t) THEN View(view[t].changes \cup {e.changes[t].change})
                                ELSE NoView
                  /\ e.type = "price_change" /\ Held(t) =>
                       trusted'[t] = (e.changes[t].hash = view'[t].changes)
                  /\ ~(e.type = "price_change" /\ Held(t)) => trusted'[t] = trusted[t]
    BY <1>5, <2>1, ApplyIs, Zenon DEF server
  <2>3. /\ ToSet(learned') = ToSet(learned) \cup Numbers(e)
        /\ Numbers(e) = {} => learned' = learned
    BY <2>1, <2>2, HeardIs
  <2>4. CASE \E u \in Tokens : Book(e, u)
    <3>1. e \in Books
      BY <2>1, <2>4 DEF Books, Coming, Book
    <3>2. Learned = {}
      BY <3>1 DEF BooksFirst
    <3>3. ToSet(learned) = {} /\ Numbers(e) = {}
      BY <2>1, <2>4, <3>2, NumbersIs DEF Learned
    <3> QED
      BY <2>3, <3>3 DEF DriftSeen
  <2>5. CASE \E n \in 1..made : News(e, n)
    <3>1. PICK n \in 1..made : News(e, n)
      BY <2>5
    <3>2. e.type # "book" /\ Numbers(e) = {n}
      BY <3>1, NumbersIs
    <3>3. SUFFICES ASSUME channel = "market", NEW t \in Tokens, view'[t] # NoView, trusted'[t],
                          NEW p \in view'[t].changes, p.kind = "price_change", p.n \in ToSet(learned')
                   PROVE  Before(t, p.n) \subseteq view'[t].changes
      BY <2>2 DEF DriftSeen, Held, Before
    <3>4. Before(t, p.n) \subseteq view[t].changes
            \/ (view'[t].changes = Before(t, n) /\ p.n <= n)
      <4>1. CASE t \notin DOMAIN e.changes
        <5>1. view'[t] = view[t] /\ trusted[t] /\ Held(t)
          BY <2>2, <3>3, <4>1 DEF Held
        <5>2. PICK u \in Tokens : u \in DOMAIN e.changes
          BY <3>1 DEF News
        <5>3. e.changes[u].change \in truth[u] /\ e.changes[u].change.n = n
              /\ e.changes[u].change.kind = e.type /\ e.type # "price_change"
          BY <3>1, <4>1, <5>2 DEF News
        <5>4. p.n # n
          BY <3>3, <5>1, <5>3, HeldIs
        <5>5. p.n \in ToSet(learned)
          BY <2>3, <3>2, <3>3, <5>4
        <5> QED
          BY <3>3, <5>1, <5>5 DEF DriftSeen, Before
      <4>2. CASE t \in DOMAIN e.changes
        <5> DEFINE c == e.changes[t].change
        <5>1. c \in truth[t] /\ c.n = n /\ c.kind = e.type /\ e.changes[t].hash = Before(t, n)
          BY <3>1, <4>2 DEF News
        <5>2. Held(t) /\ view'[t] = View(view[t].changes \cup {c})
          BY <2>2, <3>2, <3>3, <4>2
        <5>3. view'[t].changes = view[t].changes \cup {c}
          BY <5>2 DEF View
        <5>4. CASE e.type = "price_change"
          <6>1. view'[t].changes = Before(t, n)
            BY <2>2, <3>2, <3>3, <4>2, <5>1, <5>2, <5>4, Zenon
          <6>2. p.n <= n
            BY <3>3, <6>1 DEF Before
          <6> QED
            BY <6>1, <6>2
        <5>5. CASE e.type # "price_change"
          <6>1. trusted[t]
            BY <2>2, <3>2, <3>3, <4>2, <5>5, Zenon
          <6>2. p \in view[t].changes
            BY <3>3, <5>1, <5>3, <5>5
          <6>3. p.n # n
            BY <3>3, <5>1, <5>2, <5>5, <6>2, HeldIs
          <6>4. p.n \in ToSet(learned)
            BY <2>3, <3>2, <3>3, <6>3
          <6> QED
            BY <3>3, <5>2, <6>1, <6>2, <6>4 DEF DriftSeen, Before
        <5> QED
          BY <5>4, <5>5
      <4> QED
        BY <4>1, <4>2
    <3>5. view'[t] = view[t] \/ (view'[t] = View(view[t].changes \cup {e.changes[t].change}))
      BY <2>2, <3>2, <3>3 DEF Held
    <3>6. view[t].changes \subseteq view'[t].changes
      BY <3>5 DEF View
    <3>7. (view'[t].changes = Before(t, n) /\ p.n <= n) => Before(t, p.n) \subseteq view'[t].changes
      <4> SUFFICES ASSUME view'[t].changes = Before(t, n), p.n <= n, NEW d \in Before(t, p.n)
                   PROVE  d \in Before(t, n)
        OBVIOUS
      <4>1. d \in truth[t] /\ d.n <= p.n /\ p \in truth[t]
        BY <3>3 DEF Before
      <4>2. d.n \in 1..made /\ p.n \in 1..made
        BY <4>1 DEF Made
      <4> QED
        BY <1>0, <4>1, <4>2 DEF Before
    <3> QED
      BY <3>4, <3>6, <3>7
  <2>6. CASE Aside(e)
    <3>1. Numbers(e) = {} /\ DOMAIN e.changes = {}
      BY <2>6, NumbersIs DEF Aside
    <3> QED
      BY <2>2, <2>3, <3>1, Zenon DEF DriftSeen, Held
  <2> QED
    BY <2>1, <2>4, <2>5, <2>6
<1> QED
  BY <1>2, <1>3, <1>4, <1>5
---------------------------------------------------------------------------
(* The theorems. *)

(* FeedInv holds at the start. *)
LEMMA FeedInvInit == ASSUME FeedInit PROVE FeedInv
<1>1. /\ channel \in {"market", "user", "rtds"} /\ truth = [t \in Tokens |-> {}] /\ made = 0
      /\ taken = FALSE /\ up = TRUE /\ sock = <<>> /\ phase = "read" /\ events = <<>>
      /\ view = [t \in Tokens |-> NoView] /\ trusted = [t \in Tokens |-> TRUE]
      /\ said = <<>> /\ learned = <<>> /\ dropped = {} /\ lost = {} /\ missed = {}
  BY FeedAssumption DEF FeedInit
<1>2. /\ IsSeq(sock) /\ IsSeq(events) /\ ToSet(sock) = {} /\ ToSet(events) = {}
      /\ DOMAIN sock = {} /\ DOMAIN learned = {} /\ ToSet(learned) = {} /\ ToSet(said) = {}
  BY <1>1, EmptyIs
<1>3. Coming = {} /\ Learned = {} /\ Events = {} /\ Sock = {}
  BY <1>1, <1>2 DEF Coming, Learned, Events, Sock
<1>4. Books = {} /\ Got = {} /\ lost = {} /\ \A t \in Tokens : ~Held(t)
  BY <1>1, <1>3 DEF Books, Got, Held
<1>5. FeedTypeOK
  <2>1. truth \in [Tokens -> SUBSET ChangeType]
    BY <1>1
  <2>2. view \in [Tokens -> {NoView} \cup [changes : SUBSET ChangeType]]
    BY <1>1
  <2>3. trusted \in [Tokens -> BOOLEAN] /\ taken \in BOOLEAN /\ up \in BOOLEAN
    BY <1>1
  <2>4. said \in Seq(Nat) /\ learned \in Seq(Nat)
    BY <1>1
  <2> QED
    BY <1>1, <1>2, <2>1, <2>2, <2>3, <2>4 DEF FeedTypeOK
<1>6. Made
  BY <1>1, <1>4 DEF Made
<1>7. WellFormed
  BY <1>1, <1>2 DEF WellFormed
<1>8. InFlow
  BY <1>2, <1>3, <1>4 DEF InFlow
<1>9. BooksFirst
  BY <1>1, <1>2, <1>3, <1>4 DEF BooksFirst
<1>10. Complete
  BY <1>1, <1>3, <1>4 DEF Complete, Whole, Has
<1>11. DriftSeen
  BY <1>4 DEF DriftSeen
<1> QED
  BY <1>5, <1>6, <1>7, <1>8, <1>9, <1>10, <1>11 DEF FeedInv

(* FeedInv is an invariant. *)
THEOREM FeedInvariant == FeedSpec => []FeedInv
<1>1. FeedInit => FeedInv
  BY FeedInvInit
<1>2. FeedInv /\ [FeedNext]_feedVars => FeedInv'
  <2> SUFFICES ASSUME FeedInv, [FeedNext]_feedVars PROVE FeedInv'
    OBVIOUS
  <2>1. FeedTypeOK /\ Made /\ WellFormed /\ InFlow /\ BooksFirst /\ Complete /\ DriftSeen
    BY DEF FeedInv
  <2>2. FeedTypeOK' /\ Made' /\ WellFormed'
    BY <2>1, TypeKept, MadeKept, WellFormedKept
  <2>3. InFlow' /\ BooksFirst'
    BY <2>1, InFlowKept, FreshKept
  <2>4. Complete' /\ DriftSeen'
    BY <2>1, CompleteKept, DriftSeenKept
  <2> QED
    BY <2>2, <2>3, <2>4 DEF FeedInv
<1> QED
  BY <1>1, <1>2, PTL DEF FeedSpec

(* The caller hears of the changes on a socket once, in order and without *)
(* a gap but for the frames that were dropped.                             *)
THEOREM NoGap == FeedSpec => []InOrder
<1>1. FeedInv => InOrder
  <2> SUFFICES ASSUME FeedInv, phase # "announce"
               PROVE  /\ ToSet(learned) \subseteq ToSet(said) \ lost
                      /\ \A i, j \in DOMAIN learned : i < j => learned[i] < learned[j]
                      /\ \A m \in ToSet(said) \ lost, n \in ToSet(learned) :
                           m < n => m \in ToSet(learned)
    BY DEF InOrder
  <2>1. FeedTypeOK /\ InFlow /\ Learned = ToSet(learned)
    BY DEF FeedInv, Learned
  <2>2. ToSet(learned) \subseteq ToSet(said) \ lost
    BY <2>1 DEF InFlow, Got
  <2>3. \A i, j \in DOMAIN learned : i < j => learned[i] < learned[j]
    BY <2>1 DEF InFlow
  <2>4. ASSUME NEW m \in ToSet(said) \ lost, NEW n \in ToSet(learned), m < n
        PROVE  m \in ToSet(learned)
    <3>1. n \in Got /\ m \in Got \cup Events \cup Sock
      BY <2>1, <2>4 DEF InFlow, Got
    <3>2. m \in Nat /\ n \in Nat
      BY <2>1, <3>1, FlowIs
    <3>3. m \in Events \cup Sock => n < m
      BY <2>1, <3>1 DEF InFlow
    <3>4. m \notin Events \cup Sock
      BY <2>4, <3>2, <3>3
    <3> QED
      BY <2>1, <2>4, <3>1, <3>4 DEF Got
  <2> QED
    BY <2>2, <2>3, <2>4
<1> QED
  BY <1>1, FeedInvariant, PTL

(* A caller that has read everything has the server's state. *)
THEOREM NothingMissing == FeedSpec => []CaughtUp
<1>1. FeedInv => CaughtUp
  <2> SUFFICES ASSUME FeedInv, Quiet, channel \in {"market", "user"}, NEW t \in Tokens \ dropped
               PROVE  /\ channel = "market" /\ InitialDump => Held(t)
                      /\ Held(t) => {c \in truth[t] : c.n \notin missed}
                                      = {c \in view[t].changes : c.n \notin missed}
    BY DEF CaughtUp
  <2>1. FeedTypeOK /\ Made /\ up /\ taken /\ sock = <<>> /\ phase = "read" /\ events = <<>>
    BY DEF FeedInv, Quiet, FeedTypeOK
  <2>2. Coming = {}
    BY <2>1, EmptyIs DEF Coming
  <2>3. Books = {} /\ Told(t) = {} /\ (Has(t) <=> Held(t))
    BY <2>1, <2>2 DEF Books, Told, Has
  <2>4. Whole(t)
    BY <2>1 DEF FeedInv, Complete
  <2>5. channel = "market" /\ InitialDump => Held(t)
    BY <2>1, <2>3, <2>4 DEF Whole
  <2>6. Held(t) => Wanted(t) \subseteq view[t].changes /\ view[t].changes \subseteq truth[t]
    BY <2>1, <2>3, <2>4 DEF Whole, Made
  <2> QED
    BY <2>5, <2>6 DEF Wanted
<1> QED
  BY <1>1, FeedInvariant, PTL

(* A comparison that came out right had every change of the book. *)
THEOREM NoDrift == FeedSpec => []DriftSeen
<1>1. FeedInv => DriftSeen
  BY DEF FeedInv
<1> QED
  BY <1>1, FeedInvariant, PTL
====
