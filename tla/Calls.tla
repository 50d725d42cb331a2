---- MODULE Calls ----
(***************************************************************************)
(* What the clients ask of the exchange and the relayer, and how each      *)
(* request proves who asks: processes of one wallet that call any method   *)
(* of Endpoints, walk listings with clob.Pages (clob/market.go), and get,  *)
(* recover and revoke their level-2 keys (clob/trading.go), over a network *)
(* that delays and loses requests and answers.  A process may crash, and   *)
(* with it go the credentials it held.                                     *)
(*                                                                         *)
(* Methods that send requests of one shape differ only in their path, so a *)
(* shape stands for all of them.  The sign-in, whose requests are proved   *)
(* by a cookie, is module SignIn.                                          *)
(***************************************************************************)
EXTENDS Endpoints, Naturals, FiniteSets

CONSTANTS
  Clients,   \* processes of one wallet, each with its own session
  Starters,  \* bound: those that only ever start up, once
  Nonces,    \* nonces the wallet's keys are asked for by
  Default,   \* the nonce CreateOrDeriveAPIKey asks by, 0
  Retries,   \* extra attempts of a read
  PageSize,  \* rows the exchange serves at a time
  MaxRows,   \* bound: rows a listing grows to
  MaxCalls   \* bound: calls of each process

ASSUME CallsAssumption ==
  /\ Default \in Nonces
  /\ Starters \subseteq Clients
  /\ Retries \in Nat /\ MaxRows \in Nat /\ MaxCalls \in Nat
  /\ PageSize \in Nat \ {0}

VARIABLES
  keys,      \* exchange: the nonces whose key is live
  rows,      \* exchange: how many rows the listing each walks has
  wire,      \* requests on their way
  creds,     \* s.creds and s.l2: the nonce whose key each process holds
  call,      \* the call each process is in
  calls,     \* how many calls each has made
  out,       \* the request each has sent last
  reply,     \* the answer each has been sent and not read
  seen,      \* rows the walk of each has yielded
  took,      \* history: calls that have had an effect not to be had twice
  twice,     \* history: some call has taken effect twice
  again,     \* history: processes whose walk yielded a row again
  asked,     \* history: the nonce each process last got a key for
  excused    \* history: processes whose start-up may fail

exchange == <<keys, rows, wire>>
history == <<took, twice, again, asked, excused>>
vars == <<exchange, creds, call, calls, out, reply, seen, history>>

NoKey == "no key"
NoRequest == [shape |-> "none"]
NoReply == [status |-> "none"]
NoBody == [owner |-> "nobody"]

(* Cursors: none yet, or an offset, or the mark of the end. *)
NoCursor == [cursor |-> "none"]
Offset(n) == [offset |-> n]
Start == Offset(0)
End == [cursor |-> "end"]

Shape(e) == [method |-> e.method, auth |-> e.auth, effect |-> e.effect, paged |-> e.paged]
Shapes == {Shape(e) : e \in {x \in Endpoints : x.auth \notin {"bearer", "cookie"}}}

Create == Shape(ClobKeys.CreateAPIKey)
Derive == Shape(ClobKeys.DeriveAPIKey)

(* Effects that are the same once or twice. *)
Repeatable == {"none", "key", "revoke", "dismiss", "cancel", "refresh", "alive"}

Idle == [task |-> "idle"]
Ended(task, result) == [task |-> task, step |-> "ended", result |-> result]
Begun(task, shape, nonce, from) ==
  [task |-> task, step |-> "ready", shape |-> shape, nonce |-> nonce, cursor |-> NoCursor,
   attempt |-> 0, from |-> from]

InCall(c) == call[c].task # "idle" /\ call[c].step # "ended"
At(c, step) == call[c].task # "idle" /\ call[c].step = step
---------------------------------------------------------------------------
(* Proofs of identity.  A hash or a signature is the secret with what it   *)
(* covers: nobody else can make it, and it fits nothing else.              *)

Sign(secret, message) == [secret |-> secret, covers |-> message]

(* SignHMAC: the verb, the path alone and the body. *)
Message(method, path, body) == <<method, path, body>>

(* BuildL1Headers: the wallet signs a struct of its address and the nonce. *)
BuildL1Headers(nonce) == [nonce |-> nonce, signature |-> Sign("wallet", <<"ClobAuth", nonce>>)]

(* BuildL2Headers, with the key in hand. *)
BuildL2Headers(key, method, path, body) ==
  [key |-> key, signature |-> Sign(<<"key", key>>, Message(method, path, body))]

(* builderHeaders and BuildBuilderHeaders: the same over their own key.    *)
(* The relayer's other scheme, a key sent as it is, covers nothing.        *)
BuildBuilderHeaders(method, path, body) ==
  [builder |-> TRUE, signature |-> Sign("builder", Message(method, path, body))]

(* Mutant of Headers: the level-2 signature covers the query too. *)
HeadersOfQuery(shape, key, nonce, query, body) ==
  IF shape.auth = "L2" THEN BuildL2Headers(key, shape.method, <<shape, query>>, body)
  ELSE IF shape.auth = "L1" THEN BuildL1Headers(nonce)
  ELSE IF shape.auth \in {"builder", "relayer"} THEN BuildBuilderHeaders(shape.method, shape, body)
  ELSE [public |-> TRUE]

(* authHeaders, and the headers RevokeBuilderAPIKey and the relayer's      *)
(* client add of their own; the query is in none of them.                  *)
Headers(shape, key, nonce, query, body) ==
  IF shape.auth = "L2" THEN BuildL2Headers(key, shape.method, shape, body)
  ELSE IF shape.auth = "L1" THEN BuildL1Headers(nonce)
  ELSE IF shape.auth \in {"builder", "relayer"} THEN BuildBuilderHeaders(shape.method, shape, body)
  ELSE [public |-> TRUE]

(* The server makes the signature again from the request it was sent, and  *)
(* attributes an order to the key that signed for it.                      *)
Genuine(r) ==
  LET message == Message(r.shape.method, r.shape, r.body)
  IN  \/ r.shape.auth = "none"
      \/ r.shape.auth = "L1" /\ r.headers = BuildL1Headers(r.headers.nonce)
      \/ /\ r.shape.auth = "L2"
         /\ r.headers.signature = Sign(<<"key", r.headers.key>>, message)
         /\ r.body # NoBody => r.body.owner = r.headers.key
      \/ /\ r.shape.auth \in {"builder", "relayer"}
         /\ r.headers.signature = Sign("builder", message)

Revoked(r) == r.shape.auth = "L2" /\ r.headers.key \notin keys
---------------------------------------------------------------------------
(* The exchange *)

(* What the exchange answers a genuine request it accepts: a key, a page,  *)
(* a refusal or its consent.  A key that exists is given again, refused or *)
(* left out.  The last page says so by the end mark, no cursor, or a       *)
(* cursor that stays (the start's own, which Pages asks for again, never). *)
Page(c, cursor) ==
  LET to == IF cursor.offset + PageSize < rows[c] THEN cursor.offset + PageSize ELSE rows[c]
  IN  [status : {"page"}, rows : {cursor.offset + 1 .. to},
       next : IF to < rows[c] THEN {Offset(to)} ELSE {End, NoCursor} \cup ({cursor} \ {Start})]

Answers(r) ==
  IF r.shape = Create
  THEN [status : {"key"}, nonce : {r.headers.nonce}]
       \cup (IF r.headers.nonce \in keys THEN [status : {"refused", "empty"}] ELSE {})
  ELSE IF r.shape = Derive
  THEN IF r.headers.nonce \in keys THEN [status : {"key"}, nonce : {r.headers.nonce}]
       ELSE [status : {"refused"}]
  ELSE IF r.shape.paged THEN Page(r.client, r.query)
  ELSE [status : {"ok"}]

Effect(r) ==
  keys' = IF r.shape = Create THEN keys \cup {r.headers.nonce}
          ELSE IF r.shape.effect = "revoke" THEN keys \ {r.headers.key}
          ELSE keys

Answer(r, a) ==
  reply' = IF out[r.client] = r THEN [reply EXCEPT ![r.client] = a] ELSE reply

(* A request whose signature is too old, whose key is gone or which is not *)
(* what was signed is turned away; the others take effect.                 *)
Serve(r) ==
  /\ wire' = wire \ {r}
  /\ \/ /\ r.aged \/ Revoked(r) \/ ~Genuine(r)
        /\ Answer(r, [status |-> "unauthorized"])
        /\ UNCHANGED <<keys, took, twice, excused>>
     \/ /\ ~r.aged /\ ~Revoked(r) /\ Genuine(r)
        /\ \E a \in Answers(r) : Answer(r, a)
        /\ Effect(r)
        /\ LET what == <<r.client, r.call>>
           IN  /\ took' = IF r.shape.effect \in Repeatable THEN took ELSE took \cup {what}
               /\ twice' = (twice \/ what \in took)
        /\ excused' = IF r.shape.effect = "revoke" THEN Clients ELSE excused
  /\ UNCHANGED <<rows, creds, call, calls, out, seen, again, asked>>

Grow(c) ==
  /\ InCall(c) /\ call[c].task = "walk" /\ rows[c] < MaxRows
  /\ rows' = [rows EXCEPT ![c] = @ + 1]
  /\ UNCHANGED <<keys, wire, creds, call, calls, out, reply, seen, history>>
---------------------------------------------------------------------------
(* A process *)

Init ==
  /\ keys = {} /\ wire = {}
  /\ rows = [c \in Clients |-> 0]
  /\ creds = [c \in Clients |-> NoKey]
  /\ call = [c \in Clients |-> Idle]
  /\ calls = [c \in Clients |-> 0]
  /\ out = [c \in Clients |-> NoRequest]
  /\ reply = [c \in Clients |-> NoReply]
  /\ seen = [c \in Clients |-> {}]
  /\ took = {} /\ twice = FALSE /\ again = {}
  /\ asked = [c \in Clients |-> NoKey]
  /\ excused = {}

Begin(c, begun) ==
  /\ ~InCall(c)
  /\ calls[c] < IF c \in Starters THEN 1 ELSE MaxCalls
  /\ call' = [call EXCEPT ![c] = begun]
  /\ calls' = [calls EXCEPT ![c] = @ + 1]
  /\ rows' = [rows EXCEPT ![c] = begun.from]
  /\ seen' = [seen EXCEPT ![c] = {}]
  /\ again' = again \ {c}
  /\ excused' = excused \ {c}
  /\ UNCHANGED <<keys, wire, creds, out, reply, took, twice, asked>>

(* A method that sends one request. *)
CallOne(c) ==
  \E s \in Shapes : \E n \in (IF s.auth = "L1" THEN Nonces ELSE {Default}) :
    /\ ~s.paged /\ c \notin Starters
    /\ Begin(c, Begun("one", s, n, 0))

(* CreateOrDeriveAPIKey: its first half. *)
StartUp(c) == Begin(c, Begun("startup", Create, Default, 0))

(* Pages, over a method that lists by cursor. *)
Walk(c) ==
  /\ c \notin Starters
  /\ \E s \in {x \in Shapes : x.paged}, n \in 0 .. MaxRows :
       Begin(c, Begun("walk", s, Default, n))

(* Mutant of cursorOrStart: the first page is left out. *)
cursorOrNext(cursor) == IF cursor = NoCursor THEN Offset(1) ELSE cursor

cursorOrStart(cursor) == IF cursor = NoCursor THEN Start ELSE cursor

(* Mutant of SignedNonce: it is sent in the query alone. *)
SignedNonceLost(c) == Default

(* apiKeyRequest: the nonce goes into what is signed. *)
SignedNonce(c) == call[c].nonce

(* submissionBody: an order names the key it is attributed to. *)
Body(c) == IF call[c].shape.effect = "trade" THEN [owner |-> creds[c]] ELSE NoBody

Request(c) ==
  LET s == call[c].shape
      query == IF s.paged THEN cursorOrStart(call[c].cursor) ELSE NoCursor
  IN  [client |-> c, call |-> calls[c], shape |-> s, query |-> query, body |-> Body(c),
       headers |-> Headers(s, creds[c], SignedNonce(c), query, Body(c)),
       attempt |-> 0, aged |-> FALSE]

(* A request whose signature may have grown old by the time it is sent. *)
Aging(r) == {r} \cup (IF r.shape.auth = "none" THEN {} ELSE {[r EXCEPT !.aged = TRUE]})

(* A request nobody waits for stays on its way, unless serving it would    *)
(* change nothing.                                                         *)
Abandoned(r) == IF r.shape.effect = "none" \/ r.aged THEN wire \ {r} ELSE wire

Finish(c, result) ==
  call' = [call EXCEPT ![c] = IF call[c].task = "one" THEN Idle ELSE Ended(call[c].task, result)]

(* Mutant of Failed: a refused creation ends the start-up. *)
FailedForGood(c) == Finish(c, "failed")

(* A hop ends with an error: CreateOrDeriveAPIKey goes on to derive. *)
Failed(c) ==
  IF call[c].task = "startup" /\ call[c].shape = Create
  THEN call' = [call EXCEPT ![c] = Begun("startup", Derive, Default, 0)]
  ELSE Finish(c, "failed")

(* What excuses a start-up whose hop had no answer: an unanswered          *)
(* derivation, or a creation that came to nothing.                         *)
ExcusedIfVoid(c) ==
  excused' = IF call[c].shape # Create \/ call[c].nonce \notin keys
             THEN excused \cup {c} ELSE excused

(* Do finds no credentials to sign with. *)
Unsigned(c) ==
  /\ At(c, "ready")
  /\ call[c].shape.auth = "L2" /\ creds[c] = NoKey
  /\ Finish(c, "failed")
  /\ UNCHANGED <<exchange, creds, calls, out, reply, seen, history>>

(* Do signs, waits for the limiter, in which time the signature may have   *)
(* grown too old, and sends.                                               *)
Send(c) ==
  /\ At(c, "ready")
  /\ call[c].shape.auth = "L2" => creds[c] # NoKey
  /\ call' = [call EXCEPT ![c].step = "sent"]
  /\ \E r \in Aging(Request(c)) :
       out' = [out EXCEPT ![c] = r] /\ wire' = wire \cup {r}
  /\ UNCHANGED <<keys, rows, creds, calls, reply, seen, history>>

(* The caller's context ends in the wait. *)
PaceCut(c) ==
  /\ At(c, "ready")
  /\ Failed(c)
  /\ ExcusedIfVoid(c)
  /\ UNCHANGED <<exchange, creds, calls, out, reply, seen, took, twice, again, asked>>

(* Mutant of ExtraAttempts: any request is sent again. *)
ExtraAttemptsAlways(r) == Retries

ExtraAttempts(r) == IF r.shape.method = "GET" THEN Retries ELSE 0

(* No answer comes: the attempt is repeated as it was signed, or is the    *)
(* last.                                                                   *)
Broken(c) ==
  /\ At(c, "sent")
  /\ reply' = [reply EXCEPT ![c] = NoReply]
  /\ IF call[c].attempt < ExtraAttempts(out[c])
     THEN /\ call' = [call EXCEPT ![c].attempt = @ + 1]
          /\ \E r \in Aging([out[c] EXCEPT !.attempt = call[c].attempt + 1]) :
               out' = [out EXCEPT ![c] = r] /\ wire' = Abandoned(out[c]) \cup {r}
          /\ UNCHANGED excused
     ELSE /\ Failed(c)
          /\ ExcusedIfVoid(c)
          /\ out' = [out EXCEPT ![c] = NoRequest]
          /\ wire' = Abandoned(out[c])
  /\ UNCHANGED <<keys, rows, creds, calls, seen, took, twice, again, asked>>

(* Mutant of SetCredentials: an answer without a key is taken for one. *)
SetCredentialsAnyway(c, a) ==
  IF a.status \in {"key", "empty"} /\ call[c].shape.auth = "L1"
  THEN /\ creds' = [creds EXCEPT ![c] = IF a.status = "key" THEN a.nonce ELSE NoKey]
       /\ asked' = [asked EXCEPT ![c] = call[c].nonce]
  ELSE UNCHANGED <<creds, asked>>

(* apiKeyRequest adopts a key that is there. *)
SetCredentials(c, a) ==
  IF a.status = "key" /\ call[c].shape.auth = "L1"
  THEN /\ creds' = [creds EXCEPT ![c] = a.nonce]
       /\ asked' = [asked EXCEPT ![c] = call[c].nonce]
  ELSE UNCHANGED <<creds, asked>>

Read(c) ==
  /\ reply' = [reply EXCEPT ![c] = NoReply]
  /\ out' = [out EXCEPT ![c] = NoRequest]

(* A method of one request, or a half of the start-up, has its answer. *)
Receive(c) ==
  /\ At(c, "sent") /\ call[c].task # "walk"
  /\ reply[c] # NoReply
  /\ Read(c)
  /\ SetCredentials(c, reply[c])
  /\ IF reply[c].status = "key" \/ (reply[c].status \in {"ok", "empty"} /\ call[c].task = "one")
     THEN Finish(c, "done") ELSE Failed(c)
  /\ excused' = IF reply[c].status = "unauthorized" THEN excused \cup {c} ELSE excused
  /\ UNCHANGED <<exchange, calls, seen, took, twice, again>>

(* Mutant of LastPage: a cursor that stays where it is goes unnoticed. *)
LastPageByMark(next, cursor) == next \in {End, NoCursor}

LastPage(next, cursor) == next \in {End, NoCursor, cursor}

(* Mutant of Turn: the last page ends the walk before its rows are out. *)
TurnEarly(c) ==
  /\ At(c, "sent") /\ call[c].task = "walk"
  /\ reply[c].status = "page"
  /\ Read(c)
  /\ IF LastPage(reply[c].next, call[c].cursor)
     THEN Finish(c, "done") /\ UNCHANGED <<seen, again>>
     ELSE /\ call' = [call EXCEPT ![c].step = "ready", ![c].attempt = 0,
                                  ![c].cursor = reply[c].next]
          /\ seen' = [seen EXCEPT ![c] = @ \cup reply[c].rows]
          /\ again' = IF seen[c] \cap reply[c].rows = {} THEN again ELSE again \cup {c}
  /\ UNCHANGED <<exchange, creds, calls, took, twice, asked, excused>>

(* Pages yields the rows of a page and asks for the next, unless that was  *)
(* the last: the loop compares with the cursor it was called with.         *)
Turn(c) ==
  /\ At(c, "sent") /\ call[c].task = "walk"
  /\ reply[c].status = "page"
  /\ Read(c)
  /\ seen' = [seen EXCEPT ![c] = @ \cup reply[c].rows]
  /\ again' = IF seen[c] \cap reply[c].rows = {} THEN again ELSE again \cup {c}
  /\ IF LastPage(reply[c].next, call[c].cursor)
     THEN Finish(c, "done")
     ELSE call' = [call EXCEPT ![c].step = "ready", ![c].attempt = 0,
                               ![c].cursor = reply[c].next]
  /\ UNCHANGED <<exchange, creds, calls, took, twice, asked, excused>>

(* A page is refused: Pages yields the error and stops. *)
TurnFails(c) ==
  /\ At(c, "sent") /\ call[c].task = "walk"
  /\ reply[c] # NoReply /\ reply[c].status # "page"
  /\ Read(c)
  /\ Finish(c, "failed")
  /\ UNCHANGED <<exchange, creds, calls, seen, history>>

(* The process dies and starts anew, its requests still on their way. *)
Crash(c) ==
  /\ call[c] # Idle
  /\ call' = [call EXCEPT ![c] = Idle]
  /\ creds' = [creds EXCEPT ![c] = NoKey]
  /\ asked' = [asked EXCEPT ![c] = NoKey]
  /\ out' = [out EXCEPT ![c] = NoRequest]
  /\ wire' = IF out[c] = NoRequest THEN wire ELSE Abandoned(out[c])
  /\ reply' = [reply EXCEPT ![c] = NoReply]
  /\ seen' = [seen EXCEPT ![c] = {}]
  /\ rows' = [rows EXCEPT ![c] = 0]
  /\ UNCHANGED <<keys, calls, took, twice, again, excused>>

Step(c) == Unsigned(c) \/ Send(c) \/ PaceCut(c) \/ Broken(c) \/ Receive(c)
           \/ Turn(c) \/ TurnFails(c)

Next ==
  \/ \E c \in Clients : CallOne(c) \/ StartUp(c) \/ Walk(c) \/ Step(c)
                          \/ Crash(c) \/ Grow(c)
  \/ \E r \in wire : Serve(r)
  
(* A call under way goes on: the limiter lets it go, and the http.Client   *)
(* ends an attempt that is not answered.                                   *)
Fairness == \A c \in Clients : WF_vars(Step(c))

Spec == Init /\ [][Next]_vars /\ Fairness
---------------------------------------------------------------------------
(* A start-up that ends without a key was left without an answer, or the   *)
(* key was revoked under it: a creation whose answer was lost, in this     *)
(* process or in one that died, is found by the derivation.                *)
StartsUp ==
  \A c \in Clients :
    call[c] = Ended("startup", "failed") => c \in excused

(* A process holds the key of the nonce its caller named, never the        *)
(* default nonce's "while believing it asked for another" (session.go).    *)
HoldsAskedKey == \A c \in Clients : creds[c] = asked[c]

(* Whatever waits, retries and crashes do to it, a request the server      *)
(* turns away has outlived its signature or its key: the server always     *)
(* makes the same signature from what it was sent, page after page, and an *)
(* order is attributed to the key that signs for it.                       *)
Authentic == \A r \in wire : r.aged \/ Revoked(r) \/ Genuine(r)

(* No method of any client trades, moves funds or issues a credential      *)
(* twice in one call: what is sent again when no answer came only reads.   *)
OnceOnly == ~twice

(* A walk yields the rows of the listing from the first on, each once, and *)
(* when it ends well all that were there when it began.                    *)
WalkWhole ==
  \A c \in Clients :
    /\ c \notin again
    /\ seen[c] = 1 .. Cardinality(seen[c])

WalkComplete ==
  [][\A c \in Clients : InCall(c) /\ call'[c] = Ended("walk", "done") =>
       1 .. call[c].from \subseteq seen'[c]]_vars

(* Every walk ends, though pages are lost and the listing grows meanwhile. *)
WalkEnds == \A c \in Clients : (InCall(c) /\ call[c].task = "walk") ~> ~InCall(c)
====
