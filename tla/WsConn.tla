---- MODULE WsConn ----
(***************************************************************************)
(* One streaming connection (ws/conn.go): the goroutine that dials, reads  *)
(* and reconnects, the keepalive goroutine, callers of Subscribe and       *)
(* Unsubscribe, the caller of Read, Close, and a network that breaks       *)
(* sockets and refuses dials.                                              *)
(*                                                                         *)
(* A frame written to a live socket takes effect at the server at once: a  *)
(* socket delivers in order, and one that breaks takes what is in flight   *)
(* with it.  A caller loads the current socket and writes to it in one     *)
(* step: a socket that has been replaced is closed, so that a write to it  *)
(* does what a write just before the replacement does.  Timers are steps   *)
(* that may come at any moment.                                            *)
(***************************************************************************)
EXTENDS Integers, Sequences, FiniteSets

CONSTANTS
  Channel,       \* "market" or "user"
  Ids,           \* token or condition ids
  InitialIds,    \* the ids given to the Dial constructor
  Callers,       \* goroutines calling Subscribe and Unsubscribe
  PingInterval,  \* the keepalive interval asked for
  DialAttempts,  \* maxInitialDialAttempts
  MaxEvents,     \* bound: events decoded from one frame
  MaxFaults,     \* bound: sockets broken and dials refused
  MaxChanges     \* bound: calls of Subscribe and Unsubscribe

ASSUME ConnAssumption ==
  /\ Channel \in {"market", "user"}
  /\ InitialIds \subseteq Ids
  /\ PingInterval \in Int
  /\ DialAttempts \in Nat \ {0}
  /\ {MaxEvents, MaxFaults, MaxChanges} \subseteq Nat

VARIABLES
  desired,     \* subscription's desired ids
  current,     \* c.current: the socket callers write to
  dialed,      \* the socket a connect in progress has opened
  frame,       \* the ids of the subscribe frame it is about to write
  loop,        \* where the dialing and reading goroutine is
  attempt,     \* its attempt counter
  pending,     \* events it has decoded and not yet handed over
  reconnects,  \* c.reconnects
  pinger,      \* where the keepalive goroutine is
  ctxDone,     \* c.ctx is cancelled
  closer,      \* the caller of Close
  caller,      \* each caller of Subscribe and Unsubscribe
  reader,      \* the caller of Read
  heard,       \* history: what Read returned last
  touched,     \* history: ids changed, or being changed, since the last resubscribe
  faults,      \* bound's bookkeeping
  changes      \* bound's bookkeeping

socket   == <<current, dialed, frame>>
reading  == <<loop, attempt, pending, reconnects>>
calling  == <<desired, caller, touched, changes>>
client   == <<reader, heard>>
vars == <<socket, reading, calling, client, pinger, ctxDone, closer, faults>>

(* A socket: its peer answers, its descriptor is held, and the ids the     *)
(* server streams on it.                                                   *)
NoSocket == [up |-> FALSE, open |-> FALSE, subs |-> {}]
Opened   == [up |-> TRUE, open |-> TRUE, subs |-> {}]
CloseNow(s) == [s EXCEPT !.up = FALSE, !.open = FALSE]

(* What the server makes of a subscribe frame.  The user channel's frame   *)
(* leaves an empty list out, which asks for every market.                  *)
Streamed(ids) == IF Channel = "user" /\ ids = {} THEN Ids ELSE ids

Idle == [step |-> "idle"]
Heard(kind, epoch) == [kind |-> kind, epoch |-> epoch]

(* The Dial constructor has returned a Conn. *)
Launched == pinger # "none"

Init ==
  /\ desired = InitialIds
  /\ current = NoSocket
  /\ dialed = NoSocket
  /\ frame = {}
  /\ loop = "dial"
  /\ attempt = 1
  /\ pending = <<>>
  /\ reconnects = 0
  /\ pinger = "none"
  /\ ctxDone = FALSE
  /\ closer = "open"
  /\ caller = [c \in Callers |-> Idle]
  /\ reader = "idle"
  /\ heard = Heard("none", 0)
  /\ touched = {}
  /\ faults = 0
  /\ changes = 0
---------------------------------------------------------------------------
(* connectAndSubscribeOnce, reconnect, newConn *)

InFlight == {c \in Callers : caller[c].step = "send"}

(* Mutant of Snapshot: the subscription as it was when the Conn was made. *)
SnapshotStale == InitialIds

(* initial: the subscription's current desired state. *)
Snapshot == desired

(* The dial succeeds and the subscribe frame is rendered. *)
Dial ==
  /\ loop = "dial"
  /\ ~ctxDone
  /\ dialed' = Opened
  /\ frame' = Snapshot
  /\ touched' = {caller[c].id : c \in InFlight}
  /\ loop' = "resubscribe"
  /\ UNCHANGED <<current, attempt, pending, reconnects, desired, caller, changes,
                 client, pinger, ctxDone, closer, faults>>

(* Mutant of Failed: a reconnect that fails is not tried again. *)
FailedOnce ==
  IF Launched \/ attempt = DialAttempts
  THEN loop' = (IF Launched THEN "exit" ELSE "failed") /\ UNCHANGED attempt
  ELSE loop' = "backoff" /\ attempt' = attempt + 1

(* After an attempt that failed, newConn gives up at its limit and         *)
(* reconnect never does.                                                   *)
Failed ==
  IF ~Launched /\ attempt = DialAttempts
  THEN loop' = "failed" /\ UNCHANGED attempt
  ELSE loop' = "backoff" /\ attempt' = attempt + 1

DialFails ==
  /\ loop = "dial"
  /\ ctxDone \/ faults < MaxFaults
  /\ faults' = IF ctxDone THEN faults ELSE faults + 1
  /\ Failed
  /\ UNCHANGED <<socket, pending, reconnects, calling, client, pinger, ctxDone, closer>>

(* Writing the subscribe frame.  One that fails closes the socket. *)
Resubscribe ==
  /\ loop = "resubscribe"
  /\ frame' = {}
  /\ \/ /\ dialed.up /\ ~ctxDone
        /\ dialed' = [dialed EXCEPT !.subs = Streamed(frame)]
        /\ loop' = "store"
        /\ UNCHANGED attempt
     \/ /\ ~dialed.up \/ ctxDone
        /\ dialed' = NoSocket
        /\ Failed
  /\ UNCHANGED <<current, pending, reconnects, calling, client, pinger, ctxDone, closer, faults>>

(* sleepBackoff.  (A timer that fires as the context ends may as well have *)
(* fired before it.)                                                       *)
SleepOver ==
  /\ loop = "backoff"
  /\ ~ctxDone
  /\ loop' = "dial"
  /\ UNCHANGED <<socket, attempt, pending, reconnects, calling, client, pinger,
                 ctxDone, closer, faults>>

SleepCut ==
  /\ loop = "backoff"
  /\ ctxDone
  /\ loop' = IF Launched THEN "exit" ELSE "failed"
  /\ UNCHANGED <<socket, attempt, pending, reconnects, calling, client, pinger,
                 ctxDone, closer, faults>>

(* newConn stores the socket and starts both loops. *)
Launch ==
  /\ loop = "store"
  /\ ~Launched
  /\ current' = dialed
  /\ dialed' = NoSocket
  /\ loop' = "read"
  /\ attempt' = 0
  /\ pinger' = "start"
  /\ UNCHANGED <<frame, pending, reconnects, calling, client, ctxDone, closer, faults>>

(* Mutant of Replace: the caller of Read is not told. *)
ReplaceSilently ==
  /\ loop = "store"
  /\ Launched
  /\ current' = dialed
  /\ dialed' = NoSocket
  /\ reconnects' = reconnects + 1
  /\ loop' = "read"
  /\ UNCHANGED <<frame, attempt, pending, calling, client, pinger, ctxDone, closer, faults>>

(* readLoop stores the replacement and has a ReconnectEvent to hand over. *)
Replace ==
  /\ loop = "store"
  /\ Launched
  /\ current' = dialed
  /\ dialed' = NoSocket
  /\ reconnects' = reconnects + 1
  /\ loop' = "announce"
  /\ UNCHANGED <<frame, attempt, pending, calling, client, pinger, ctxDone, closer, faults>>
---------------------------------------------------------------------------
(* readLoop *)

(* A frame arrives and decodes into events, or into none.  (One that races *)
(* the end of the context may as well have come before it.)                *)
ReadFrame ==
  /\ loop = "read"
  /\ current.up /\ ~ctxDone
  /\ \E n \in 0..MaxEvents :
       /\ pending' = [i \in 1..n |-> Heard("stream", reconnects)]
       /\ loop' = IF n = 0 THEN "read" ELSE "deliver"
  /\ UNCHANGED <<socket, attempt, reconnects, calling, client, pinger, ctxDone, closer, faults>>

(* Mutant of ReadFails: the dead socket's descriptor is kept. *)
ReadFailsLeaking ==
  /\ loop = "read"
  /\ ~current.up \/ ctxDone
  /\ IF ctxDone
     THEN loop' = "exit" /\ UNCHANGED <<current, attempt>>
     ELSE loop' = "backoff" /\ attempt' = attempt + 1 /\ UNCHANGED current
  /\ UNCHANGED <<dialed, frame, pending, reconnects, calling, client, pinger,
                 ctxDone, closer, faults>>

(* Read fails: the loop ends with the context, and else reconnects. *)
ReadFails ==
  /\ loop = "read"
  /\ ~current.up \/ ctxDone
  /\ IF ctxDone
     THEN loop' = "exit" /\ UNCHANGED <<current, attempt>>
     ELSE loop' = "backoff" /\ attempt' = attempt + 1 /\ current' = CloseNow(current)
  /\ UNCHANGED <<dialed, frame, pending, reconnects, calling, client, pinger,
                 ctxDone, closer, faults>>

(* The unbuffered events channel: an event changes hands while Read waits. *)
HandOver(event) ==
  /\ reader = "reading"
  /\ reader' = "idle"
  /\ heard' = event

Announce ==
  /\ loop = "announce"
  /\ HandOver(Heard("reconnect", reconnects))
  /\ loop' = "read"
  /\ attempt' = 0
  /\ UNCHANGED <<socket, pending, reconnects, calling, pinger, ctxDone, closer, faults>>

Deliver ==
  /\ loop = "deliver"
  /\ HandOver(Head(pending))
  /\ pending' = Tail(pending)
  /\ loop' = IF Tail(pending) = <<>> THEN "read" ELSE "deliver"
  /\ UNCHANGED <<socket, attempt, reconnects, calling, pinger, ctxDone, closer, faults>>

(* Mutant of Abandon: an announcement waits for Read whatever happens. *)
AbandonDeliveries ==
  /\ loop = "deliver"
  /\ ctxDone
  /\ loop' = "exit"
  /\ UNCHANGED <<socket, attempt, pending, reconnects, calling, client, pinger,
                 ctxDone, closer, faults>>

(* Nobody takes the event and the context ends. *)
Abandon ==
  /\ loop \in {"announce", "deliver"}
  /\ ctxDone
  /\ loop' = "exit"
  /\ UNCHANGED <<socket, attempt, pending, reconnects, calling, client, pinger,
                 ctxDone, closer, faults>>

(* readLoop's deferred calls: CloseNow, close(events), wg.Done. *)
Exit ==
  /\ loop = "exit"
  /\ loop' = "done"
  /\ current' = CloseNow(current)
  /\ UNCHANGED <<dialed, frame, attempt, pending, reconnects, calling, client, pinger,
                 ctxDone, closer, faults>>
---------------------------------------------------------------------------
(* pingLoop *)

others == <<socket, reading, calling, client, ctxDone, closer, faults>>

(* NewTicker panics on an interval that is not positive. *)
StartPing ==
  /\ pinger = "start"
  /\ pinger' = IF PingInterval <= 0 THEN "panicked" ELSE "wait"
  /\ UNCHANGED others

Ping ==
  /\ pinger = "wait"
  /\ pinger' = "write"
  /\ UNCHANGED others

(* The write's outcome is dropped; one that times out breaks the socket. *)
PingEnds ==
  /\ pinger = "write"
  /\ pinger' = "wait"
  /\ UNCHANGED others

PingTimesOut ==
  /\ pinger = "write"
  /\ faults < MaxFaults
  /\ current.up
  /\ pinger' = "wait"
  /\ current' = [current EXCEPT !.up = FALSE]
  /\ faults' = faults + 1
  /\ UNCHANGED <<dialed, frame, reading, calling, client, ctxDone, closer>>

StopPing ==
  /\ pinger = "wait"
  /\ ctxDone
  /\ pinger' = "done"
  /\ UNCHANGED others
---------------------------------------------------------------------------
(* change: Subscribe and Unsubscribe *)

(* The desired state is changed under the subscription's lock. *)
Change(c, add, id) ==
  /\ Launched
  /\ changes < MaxChanges
  /\ caller[c] = Idle
  /\ desired' = IF add THEN desired \cup {id} ELSE desired \ {id}
  /\ caller' = [caller EXCEPT ![c] = [step |-> "send", add |-> add, id |-> id]]
  /\ touched' = touched \cup {id}
  /\ changes' = changes + 1
  /\ UNCHANGED <<socket, reading, client, pinger, ctxDone, closer, faults>>

(* Then its frame is written to the current socket, dead or alive. *)
Send(c) ==
  /\ caller[c].step = "send"
  /\ caller' = [caller EXCEPT ![c] = Idle]
  /\ current' = IF ~current.up THEN current
                ELSE IF caller[c].add
                     THEN [current EXCEPT !.subs = @ \cup {caller[c].id}]
                     ELSE [current EXCEPT !.subs = @ \ {caller[c].id}]
  /\ UNCHANGED <<dialed, frame, reading, desired, touched, changes, client, pinger,
                 ctxDone, closer, faults>>

(* The caller's own context ends the write, and the socket with it. *)
SendCut(c) ==
  /\ caller[c].step = "send"
  /\ faults < MaxFaults
  /\ current.up
  /\ caller' = [caller EXCEPT ![c] = Idle]
  /\ current' = [current EXCEPT !.up = FALSE]
  /\ faults' = faults + 1
  /\ UNCHANGED <<dialed, frame, reading, desired, touched, changes, client, pinger,
                 ctxDone, closer>>
---------------------------------------------------------------------------
(* Read and Close *)

StartRead ==
  /\ Launched
  /\ reader = "idle"
  /\ reader' = "reading"
  /\ UNCHANGED <<socket, reading, calling, heard, pinger, ctxDone, closer, faults>>

(* The context given to Read ends first. *)
ReadCut ==
  /\ reader = "reading"
  /\ reader' = "idle"
  /\ UNCHANGED <<socket, reading, calling, heard, pinger, ctxDone, closer, faults>>

(* Mutant of ReadClosed: Close closes the events channel, not readLoop. *)
ReadClosedByClose ==
  /\ reader = "reading"
  /\ closer = "closed"
  /\ reader' = "idle"
  /\ heard' = Heard("closed", reconnects)
  /\ UNCHANGED <<socket, reading, calling, pinger, ctxDone, closer, faults>>

(* The events channel is closed. *)
ReadClosed ==
  /\ reader = "reading"
  /\ loop = "done"
  /\ reader' = "idle"
  /\ heard' = Heard("closed", reconnects)
  /\ UNCHANGED <<socket, reading, calling, pinger, ctxDone, closer, faults>>

Close ==
  /\ Launched
  /\ closer = "open"
  /\ ctxDone' = TRUE
  /\ closer' = "waiting"
  /\ UNCHANGED <<socket, reading, calling, client, pinger, faults>>

(* wg.Wait *)
CloseReturns ==
  /\ closer = "waiting"
  /\ loop = "done" /\ pinger = "done"
  /\ closer' = "closed"
  /\ UNCHANGED <<socket, reading, calling, client, pinger, ctxDone, faults>>

(* The context given to the Dial constructor ends. *)
ParentEnds ==
  /\ ~ctxDone
  /\ ctxDone' = TRUE
  /\ UNCHANGED <<socket, reading, calling, client, pinger, closer, faults>>

(* The network breaks a socket. *)
Break ==
  /\ faults < MaxFaults
  /\ faults' = faults + 1
  /\ \/ current.up /\ current' = [current EXCEPT !.up = FALSE] /\ UNCHANGED dialed
     \/ dialed.up /\ dialed' = [dialed EXCEPT !.up = FALSE] /\ UNCHANGED current
  /\ UNCHANGED <<frame, reading, calling, client, pinger, ctxDone, closer>>
---------------------------------------------------------------------------
Connect == Dial \/ DialFails \/ Resubscribe \/ SleepOver \/ SleepCut \/ Launch \/ Replace
ReadLoop == ReadFails \/ Announce \/ Deliver \/ Abandon \/ Exit
PingLoop == StartPing \/ Ping \/ PingEnds \/ StopPing

Next ==
  \/ Connect \/ ReadLoop \/ ReadFrame
  \/ PingLoop \/ PingTimesOut
  \/ \E c \in Callers :
       \/ \E add \in BOOLEAN, id \in Ids : Change(c, add, id)
       \/ Send(c)
       \/ SendCut(c)
  \/ StartRead \/ ReadCut \/ ReadClosed
  \/ Close \/ CloseReturns \/ ParentEnds
  \/ Break

(* The goroutines run, timers fire, and a select that finds the context    *)
(* ended does not for ever choose its other case.  Nothing is assumed of   *)
(* the network, of the caller of Read, or of anyone calling Close.         *)
Fairness ==
  /\ WF_vars(Connect) /\ WF_vars(ReadLoop)
  /\ WF_vars(PingLoop) /\ SF_vars(StopPing)
  /\ WF_vars(ReadClosed) /\ WF_vars(CloseReturns)

Spec == Init /\ [][Next]_vars /\ Fairness

---------------------------------------------------------------------------
(* readLoop: releasing the dead socket before dialing its replacement, a   *)
(* Conn never holds two descriptors, whatever fails in between; and once   *)
(* Close has returned it holds none, both goroutines have ended, and no    *)
(* connect that was under way brings a socket back.                        *)
OneDescriptor ==
  /\ ~(current.open /\ dialed.open)
  /\ closer = "closed" =>
       loop = "done" /\ pinger = "done" /\ ~current.open /\ ~dialed.open

(* Every successful reconnect "is reported to the caller as a              *)
(* ReconnectEvent from Read, so the caller can tell a resubscribe          *)
(* happened": Read never returns an event of a socket whose reconnect it   *)
(* has not announced, nor skips or repeats a number, nor goes back.        *)
Announced ==
  [][heard'.kind # "closed" /\ heard' # heard =>
       heard'.epoch = heard.epoch + (IF heard'.kind = "reconnect" THEN 1 ELSE 0)]_heard

(* "Every successful reconnect resends the connection's full current       *)
(* subscription": on a live socket every id nobody has changed since its   *)
(* subscribe frame was rendered, or was changing just then, is streamed    *)
(* if and only if it is desired, however earlier changes were lost.        *)
Resubscribed ==
  current.up =>
    \A id \in Ids \ touched : id \in current.subs <=> id \in desired

(* Close returns: no blocked hand-over, dial, write or sleep of either     *)
(* goroutine outlives the context, though nobody calls Read again.         *)
CloseEnds == closer = "waiting" ~> closer = "closed"

(* A Read that is pending when the Conn is closed returns.                 *)
PendingReadEnds == reader = "reading" /\ ctxDone ~> reader = "idle"

(* A caller that keeps calling Read: a Read that finds an event on offer   *)
(* takes it, so not every one of them is cut short.                        *)
KeepsReading == WF_vars(StartRead) /\ SF_vars(Announce) /\ SF_vars(Deliver)

(* A Conn whose socket broke reads from a new one, as long as its caller   *)
(* reads and dialing does not fail for ever: reconnect has no limit.       *)
Recovers ==
  KeepsReading =>
    ((Launched /\ ~current.up) ~> (ctxDone \/ (current.up /\ loop = "read")))
---------------------------------------------------------------------------
(* A statement of the source that a run refutes. *)

(* conn.go:297-301 and 314, a change is in force once its call is over     *)
(* and the socket is live: the server streams what is desired.             *)
InStep ==
  loop = "read" /\ current.up /\ InFlight = {} => current.subs = desired
====
