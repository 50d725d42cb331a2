---- MODULE Feed ----
(***************************************************************************)
(* What a stream tells its caller: the server's frames, readLoop and the   *)
(* decoders of ws (decode.go, market.go, user.go, rtds.go), and a caller   *)
(* that keeps its own copy of the server's state the way the package's     *)
(* documentation says (doc.go): a book from a BookEvent and the changes    *)
(* after it, or the account's orders from REST and the events after that.  *)
(*                                                                         *)
(* Dialing, the descriptors, Close and changes of the subscription are     *)
(* module WsConn's, from which the names here differ so that one module    *)
(* may extend both; here the subscription stays and the loop is as long as *)
(* the stream.  A state is the set of the changes that made it.            *)
(***************************************************************************)
EXTENDS Naturals, Sequences, FiniteSets, SequencesExt

CONSTANTS
  Channels,    \* the channels to look at
  Tokens,      \* tokens subscribed to, of one market
  InitialDump, \* WithInitialDump
  MaxMoves,    \* bound: changes of the server's state
  MaxNoise,    \* bound: frames without a change
  MaxBad,      \* bound: malformed frames
  MaxBreaks    \* bound: sockets broken

ASSUME FeedAssumption ==
  /\ Channels \subseteq {"market", "user", "rtds"}
  /\ IsFiniteSet(Tokens)
  /\ InitialDump \in BOOLEAN
  /\ {MaxMoves, MaxNoise, MaxBad, MaxBreaks} \subseteq Nat

VARIABLES
  channel,   \* the channel dialed
  truth,     \* server: the changes of each token's state
  made,      \* server: how many changes there have been
  taken,     \* server: it has acted on the live socket's subscribe frame
  up,        \* the socket is live
  sock,      \* frames on it that have not been read
  phase,     \* where readLoop is
  events,    \* those it has decoded and not handed over
  view,      \* the caller's copy of each token's state
  trusted,   \* the caller's last hash check of each book came out right
  said,      \* history: changes the server has streamed on this socket
  learned,   \* history: changes heard since the last ReconnectEvent
  dropped,   \* history: tokens a frame about which was dropped, and not made good
  lost,      \* history: changes in frames of this socket that were dropped
  missed,    \* history: changes made between REST's answer and the subscription
  noise, bad, breaks \* bounds' bookkeeping

server == <<channel, truth, made, taken>>
bounds == <<noise, bad, breaks>>
history == <<said, learned, dropped, lost, missed>>
feedVars == <<server, up, sock, phase, events, view, trusted, history, bounds>>

NoView == [view |-> "none"]
View(changes) == [changes |-> changes]
Held(t) == view[t] # NoView

(* The kinds of change each channel streams, and those of no consequence   *)
(* for the caller's copy.                                                  *)
MarketKinds == {"price_change", "tick_size_change", "last_trade_price"}
UserKinds == {"order", "trade"}
TopicKinds == {"update", "comment_created", "reaction_removed"}

Kinds(ch) ==
  IF ch = "market" THEN MarketKinds ELSE IF ch = "user" THEN UserKinds ELSE TopicKinds

Asides(ch) ==
  IF ch = "market" THEN {"best_bid_ask", "new_market", "market_resolved", "new kind"}
  ELSE IF ch = "user" THEN {"new kind"}
  ELSE {"new kind", "rejection", "untitled"}
---------------------------------------------------------------------------
(* book.go *)

(* Mutant of BookHash: it covers the levels and not the rest of the book. *)
BookHashLevels(changes) == {c \in changes : c.kind = "price_change"}

(* The hash covers the whole book, tick size and last trade included, and  *)
(* is another for every other book.                                        *)
BookHash(changes) == changes
---------------------------------------------------------------------------
(* Decoding *)

(* An event's object: of each token it is about, the book it gives or the  *)
(* change it tells of.  A change has a number.                             *)
Object(type, changes, good) == [type |-> type, changes |-> changes, good |-> good]
Frame(form, objects) == [form |-> form, objects |-> objects]

Numbers(o) == IF o.type = "book" THEN {} ELSE {o.changes[t].change.n : t \in DOMAIN o.changes}

Failure == [error |-> TRUE]
Decoded(es) == [error |-> FALSE, events |-> es]

(* decodeMarketObject and decodeUserObject: an event_type either does not  *)
(* know becomes an UnknownEvent.                                           *)
Known(ch) ==
  IF ch = "market" THEN Kinds(ch) \cup {"book", "best_bid_ask", "new_market", "market_resolved"}
  ELSE Kinds(ch)

DecodeObject(ch, o) == IF o.type \in Known(ch) THEN o ELSE [o EXCEPT !.type = "unknown"]

(* Mutant of splitFrame: an array is taken for its first object. *)
splitFrameFirst(f) == IF Len(f.objects) > 1 THEN <<f.objects[1]>> ELSE f.objects

(* splitFrame: the objects of an array, or the frame's one. *)
splitFrame(f) == f.objects

(* decodeMarket and decodeUser: keepalive replies and empty frames decode  *)
(* to nothing, and one object that does not decode fails its whole frame.  *)
DecodeClob(ch, f) ==
  IF f.form \in {"pong", "empty"} THEN Decoded(<<>>)
  ELSE IF f.form = "garbage" \/ \E i \in DOMAIN splitFrame(f) : ~splitFrame(f)[i].good THEN Failure
  ELSE Decoded([i \in DOMAIN splitFrame(f) |-> DecodeObject(ch, splitFrame(f)[i])])

(* decodeRTDS: one envelope to a frame.  A message without a topic tells   *)
(* of a rejection, an envelope with neither is unknown, and any topic's    *)
(* other than a comment or a reaction is taken for a price's.              *)
DecodeRTDS(f) ==
  IF f.form \in {"pong", "empty"} THEN Decoded(<<>>)
  ELSE IF f.form \in {"garbage", "array"} \/ ~f.objects[1].good THEN Failure
  ELSE Decoded(<<[f.objects[1] EXCEPT !.type =
                    IF @ \in {"comment_created", "reaction_removed", "rejection"} THEN @
                    ELSE IF @ = "untitled" THEN "unknown" ELSE "update"]>>)

decode(f) == IF channel = "rtds" THEN DecodeRTDS(f) ELSE DecodeClob(channel, f)
---------------------------------------------------------------------------
FeedInit ==
  /\ channel \in Channels
  /\ truth = [t \in Tokens |-> {}]
  /\ made = 0
  /\ taken = FALSE /\ up = TRUE
  /\ sock = <<>>
  /\ phase = "read" /\ events = <<>>
  /\ view = [t \in Tokens |-> NoView]
  /\ trusted = [t \in Tokens |-> TRUE]
  /\ said = <<>> /\ learned = <<>> /\ dropped = {} /\ lost = {} /\ missed = {}
  /\ noise = 0 /\ bad = 0 /\ breaks = 0

(* The server *)

(* A frame goes out whole, or with an object the client cannot decode. *)
Sends(f) ==
  \/ sock' = Append(sock, f) /\ UNCHANGED bad
  \/ /\ bad < MaxBad /\ bad' = bad + 1
     /\ \E i \in DOMAIN f.objects : sock' = Append(sock, [f EXCEPT !.objects[i].good = FALSE])

(* A change to tokens: [token |-> changes after it, and their hash]. *)
Tells(kind, ts) ==
  [token \in ts |-> [change |-> [n |-> made + 1, kind |-> kind], hash |-> BookHash(truth'[token])]]

(* It acts on the subscribe frame.  On the market channel it answers with  *)
(* an array of the books.                                                  *)
Accept ==
  /\ up /\ ~taken
  /\ taken' = TRUE
  /\ IF channel = "market" /\ InitialDump
     THEN LET order == SetToSeq(Tokens)
          IN  Sends(Frame("array", [i \in DOMAIN order |->
                      Object("book", [token \in {order[i]} |-> View(truth[order[i]])], TRUE)]))
     ELSE UNCHANGED <<sock, bad>>
  /\ UNCHANGED <<channel, truth, made, up, phase, events, view, trusted, history, noise, breaks>>

(* Its state changes: both tokens' books at once by a price change. *)
Move ==
  /\ made < MaxMoves
  /\ made' = made + 1
  /\ \E kind \in Kinds(channel), one \in Tokens :
       LET ts == IF kind = "price_change" THEN Tokens ELSE {one}
       IN  /\ truth' = [t \in Tokens |->
                          IF t \in ts THEN truth[t] \cup {[n |-> made + 1, kind |-> kind]}
                          ELSE truth[t]]
           /\ IF up /\ taken
              THEN /\ Sends(Frame("object", <<Object(kind, Tells(kind, ts), TRUE)>>))
                   /\ said' = Append(said, made + 1)
                   /\ UNCHANGED missed
              ELSE /\ missed' = IF channel = "user" THEN missed \cup {made + 1} ELSE missed
                   /\ UNCHANGED <<sock, bad, said>>
  /\ UNCHANGED <<channel, taken, up, phase, events, view, trusted, learned, dropped, lost, noise, breaks>>

(* A frame that changes nothing: a keepalive's reply, one that no decoder  *)
(* can read, or an event of another kind.                                  *)
Noise ==
  /\ up /\ taken /\ noise < MaxNoise
  /\ noise' = noise + 1
  /\ \E f \in {Frame(form, <<>>) : form \in {"pong", "empty", "binary", "garbage"}}
              \cup {Frame("object", <<Object(type, <<>>, TRUE)>>) : type \in Asides(channel)} :
       sock' = Append(sock, f)
  /\ UNCHANGED <<server, up, phase, events, view, trusted, history, bad, breaks>>

(* The socket breaks.  Some of its frames may already have arrived. *)
SocketBreaks ==
  /\ up /\ breaks < MaxBreaks
  /\ breaks' = breaks + 1
  /\ up' = FALSE /\ taken' = FALSE
  /\ \E k \in 0 .. Len(sock) : sock' = SubSeq(sock, 1, k)
  /\ UNCHANGED <<channel, truth, made, phase, events, view, trusted, history, noise, bad>>
---------------------------------------------------------------------------
(* readLoop *)

(* A frame that is not text or does not decode is dropped. *)
ReadNext ==
  /\ phase = "read" /\ sock # <<>>
  /\ sock' = Tail(sock)
  /\ LET f == Head(sock)
     IN  IF f.form = "binary" \/ decode(f).error
         THEN /\ dropped' = dropped \cup UNION {DOMAIN f.objects[i].changes : i \in DOMAIN f.objects}
              /\ lost' = lost \cup UNION {Numbers(f.objects[i]) : i \in DOMAIN f.objects}
              /\ UNCHANGED <<events, phase>>
         ELSE /\ events' = decode(f).events
              /\ phase' = IF decode(f).events = <<>> THEN "read" ELSE "deliver"
              /\ UNCHANGED <<dropped, lost>>
  /\ UNCHANGED <<server, up, view, trusted, said, learned, missed, bounds>>

(* Mutant of Reconnect: only the first break is mended. *)
ReconnectOnce ==
  /\ phase = "read" /\ ~up /\ sock = <<>> /\ breaks < 2
  /\ up' = TRUE
  /\ phase' = "announce"
  /\ said' = <<>> /\ lost' = {} /\ dropped' = {}
  /\ UNCHANGED <<server, sock, events, view, trusted, learned, missed, bounds>>

(* Mutant of Reconnect: the loop goes on reading and says nothing. *)
ReconnectSilently ==
  /\ phase = "read" /\ ~up /\ sock = <<>>
  /\ up' = TRUE
  /\ said' = <<>> /\ lost' = {} /\ dropped' = {}
  /\ UNCHANGED <<server, sock, phase, events, view, trusted, learned, missed, bounds>>

(* The read fails: a new socket is dialed, the subscribe frame written,    *)
(* and a ReconnectEvent to be handed over.                                 *)
Reconnect ==
  /\ phase = "read" /\ ~up /\ sock = <<>>
  /\ up' = TRUE
  /\ phase' = "announce"
  /\ said' = <<>> /\ lost' = {} /\ dropped' = {}
  /\ UNCHANGED <<server, sock, events, view, trusted, learned, missed, bounds>>

(* The caller takes the ReconnectEvent: what it has is out of date. *)
TakeReconnect ==
  /\ phase = "announce"
  /\ phase' = "read"
  /\ view' = [t \in Tokens |-> NoView]
  /\ trusted' = [t \in Tokens |-> TRUE]
  /\ learned' = <<>>
  /\ UNCHANGED <<server, up, sock, events, said, dropped, lost, missed, bounds>>

(* The caller applies an event: a book replaces its copy, a change adds to *)
(* it, and a price change's hash tells whether it still has the server's.  *)
Apply(e) ==
  /\ view' = [t \in Tokens |->
                IF t \notin DOMAIN e.changes THEN view[t]
                ELSE IF e.type = "book" THEN e.changes[t]
                ELSE IF Held(t) THEN View(view[t].changes \cup {e.changes[t].change})
                ELSE NoView]
  /\ trusted' = [t \in Tokens |->
                   IF t \notin DOMAIN e.changes THEN trusted[t]
                   ELSE IF e.type = "book" THEN TRUE
                   ELSE IF e.type = "price_change" /\ Held(t)
                        THEN e.changes[t].hash = BookHash(view'[t].changes)
                   ELSE trusted[t]]
  /\ dropped' = IF e.type = "book" THEN dropped \ DOMAIN e.changes ELSE dropped
  /\ learned' = learned \o SetToSeq(Numbers(e))

TakeEvent ==
  /\ phase = "deliver"
  /\ Apply(Head(events))
  /\ events' = Tail(events)
  /\ phase' = IF Tail(events) = <<>> THEN "read" ELSE "deliver"
  /\ UNCHANGED <<server, up, sock, said, lost, missed, bounds>>

(* "After a ReconnectEvent from a user-channel Conn, re-fetch open orders  *)
(* and recent trades over REST before trusting new stream events", and     *)
(* after dialing.                                                          *)
Refetch ==
  /\ channel = "user"
  /\ \E t \in Tokens : ~Held(t)
  /\ phase # "announce"
  /\ view' = [t \in Tokens |-> View(truth[t])]
  /\ missed' = {} /\ dropped' = {}
  /\ UNCHANGED <<server, up, sock, phase, events, trusted, said, learned, lost, bounds>>
---------------------------------------------------------------------------
FeedNext == \/ Accept \/ Move \/ Noise \/ SocketBreaks
            \/ ReadNext \/ Reconnect \/ TakeReconnect \/ TakeEvent \/ Refetch

(* readLoop runs and dials until it succeeds, the server answers, and the  *)
(* caller keeps reading.                                                   *)
FeedFairness ==
  /\ WF_feedVars(ReadNext) /\ WF_feedVars(Reconnect)
  /\ WF_feedVars(TakeReconnect) /\ WF_feedVars(TakeEvent)
  /\ WF_feedVars(Accept) /\ WF_feedVars(Refetch)

FeedSpec == FeedInit /\ [][FeedNext]_feedVars /\ FeedFairness
---------------------------------------------------------------------------
(* Between two ReconnectEvents the caller hears of the changes the server  *)
(* streamed on one socket, each once, in the order they were made and from *)
(* the first, but for those in a frame that was dropped: no other gap goes *)
(* unannounced.                                                            *)
InOrder ==
  phase # "announce" =>
    /\ ToSet(learned) \subseteq ToSet(said) \ lost
    /\ \A i, j \in DOMAIN learned : i < j => learned[i] < learned[j]
    /\ \A m \in ToSet(said) \ lost, n \in ToSet(learned) : m < n => m \in ToSet(learned)

(* The caller has read all the live socket brought. *)
Quiet == up /\ taken /\ sock = <<>> /\ phase = "read"

(* A caller that has read everything and follows the documentation has the *)
(* server's state, whatever was lost with earlier sockets: of each token   *)
(* no frame of which was dropped since, and but for what changed between   *)
(* REST's answer and the server's acting on the subscription.              *)
CaughtUp ==
  Quiet /\ channel \in {"market", "user"} =>
    \A t \in Tokens \ dropped :
      /\ channel = "market" /\ InitialDump => Held(t)
      /\ Held(t) => {c \in truth[t] : c.n \notin missed} = {c \in view[t].changes : c.n \notin missed}

(* "Letting a client detect local order-book drift": a caller whose last   *)
(* comparison came out right had every change of that book, a tick size's  *)
(* or a trade's too, up to the price change that carried the hash.         *)
DriftSeen ==
  channel = "market" =>
    \A t \in Tokens : Held(t) /\ trusted[t] =>
      \A p \in view[t].changes :
        p.kind = "price_change" /\ p.n \in ToSet(learned) =>
          {c \in truth[t] : c.n <= p.n} \subseteq view[t].changes

(* A caller that keeps reading catches up, though sockets break, once the  *)
(* network leaves one alone: of every token it has a book, or its orders,  *)
(* unless the frame that brought it was dropped.                           *)
KeepsUp ==
  <>[](Quiet /\ (channel # "rtds" => \A t \in Tokens : Held(t) \/ t \in dropped))
====
