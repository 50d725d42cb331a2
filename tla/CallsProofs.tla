---- MODULE CallsProofs ----
(***************************************************************************)
(* Theorems about Calls: for any processes of a wallet, any nonces,        *)
(* retries, pages and listings, and every method of the table in           *)
(* Endpoints.                                                              *)
(***************************************************************************)
EXTENDS Calls, FiniteSetTheorems, TLAPS

Tasks == {"one", "startup", "walk"}

Cursors == {NoCursor, End} \cup [offset : Nat]

(* A call under way, and one that has ended. *)
Calling == [task : Tasks, step : {"ready", "sent"}, shape : Shapes, nonce : Nonces,
            cursor : Cursors, attempt : Nat, from : Nat]
Over == [task : Tasks, step : {"ended"}, result : {"done", "failed"}] \cup {Idle}

PerClient(f) == f = [c \in Clients |-> f[c]]

(* The state keeps its shape. *)
TypeOK ==
  /\ call \in [Clients -> Calling \cup Over]
  /\ calls \in [Clients -> Nat] /\ rows \in [Clients -> Nat]
  /\ PerClient(creds) /\ PerClient(asked)
  /\ PerClient(out) /\ PerClient(reply) /\ PerClient(seen)

Shaped(r) ==
  r \in [client : {r.client}, call : {r.call}, shape : {r.shape}, query : {r.query},
         body : {r.body}, headers : {r.headers}, attempt : {r.attempt}, aged : BOOLEAN]

(* A request some process made. *)
Made(r) ==
  /\ Shaped(r) /\ Genuine(r)
  /\ r.client \in Clients /\ r.call \in Nat /\ r.call <= calls[r.client] /\ r.shape \in Shapes

Is(c, step) == call[c] \in Calling /\ call[c].step = step

(* Its request is that of the call a process is in, and so is the answer.  *)
OwnRequest(c) ==
  IF Is(c, "sent")
  THEN /\ Made(out[c])
       /\ out[c].client = c /\ out[c].call = calls[c] /\ out[c].shape = call[c].shape
       /\ out[c].shape.paged => out[c].query = cursorOrStart(call[c].cursor)
       /\ out[c].shape.auth = "L1" => out[c].headers.nonce = call[c].nonce
  ELSE out[c] = NoRequest /\ reply[c] = NoReply

(* A call whose effect is not to be had twice has at most one request,     *)
(* until that has had its effect; the other calls have none that has such. *)
OwnEffect(c) ==
  LET mine == {r \in wire : r.client = c /\ r.call = calls[c]}
  IN  /\ Is(c, "ready") /\ call[c].shape.effect \notin Repeatable =>
           mine = {} /\ <<c, calls[c]>> \notin took
      /\ call[c] \in Calling /\ call[c].shape.effect \in Repeatable =>
           <<c, calls[c]>> \notin took /\ \A r \in mine : r.shape.effect \in Repeatable

Effects ==
  /\ ~twice
  /\ \A w \in took : \E c \in Clients, n \in Nat : w = <<c, n>> /\ n <= calls[c]
  /\ \A r \in wire : <<r.client, r.call>> \notin took
  /\ \A r, q \in wire :
       r.client = q.client /\ r.call = q.call => r = q \/ r.shape.effect \in Repeatable

(* A key that is answered is the one asked for; and of a start-up not      *)
(* excused, once its creation was refused the key is there to be derived.  *)
OwnKey(c) ==
  /\ creds[c] = asked[c]
  /\ reply[c].status = "key" => reply[c].nonce = call[c].nonce
  /\ call[c] \in Calling /\ call[c].task = "startup" =>
       /\ call[c].shape \in {Create, Derive} /\ call[c].nonce = Default
       /\ call[c].shape = Derive /\ c \notin excused =>
            Default \in keys /\ (reply[c] = NoReply \/ reply[c].status \in {"unauthorized", "key"})
       /\ call[c].shape = Create =>
            \/ reply[c] = NoReply \/ reply[c].status \in {"unauthorized", "key"}
            \/ reply[c].status \in {"refused", "empty"} /\ (c \notin excused => Default \in keys)
  /\ call[c] \in Over /\ call[c].task = "startup" /\ call[c].result = "failed" => c \in excused

(* The rows a walk has yielded are those before its cursor, and the page   *)
(* it is answered goes on from there.                                      *)
Have(c) == IF call[c].cursor = NoCursor THEN 0 ELSE call[c].cursor.offset

Onward(c, to) ==
  /\ reply[c].rows = Have(c) + 1 .. to /\ Have(c) <= to
  /\ \/ reply[c].next = Offset(to) /\ Have(c) < to
     \/ reply[c].next \in {End, NoCursor, call[c].cursor} /\ call[c].from <= to

OwnPages(c) ==
  /\ c \notin again
  /\ \E k \in Nat : seen[c] = 1 .. k
  /\ call[c] \in Calling => (call[c].shape.paged <=> call[c].task = "walk")
  /\ call[c] \in Calling /\ call[c].task = "walk" =>
       /\ call[c].cursor \in {NoCursor} \cup [offset : Nat \ {0}]
       /\ seen[c] = 1 .. Have(c) /\ Have(c) <= rows[c] /\ call[c].from <= rows[c]
       /\ reply[c].status = "page" => \E to \in Nat : to <= rows[c] /\ Onward(c, to)

Own(c) == OwnRequest(c) /\ OwnEffect(c) /\ OwnKey(c) /\ OwnPages(c)

IInv ==
  /\ TypeOK /\ Effects
  /\ \A r \in wire : Made(r)
  /\ \A c \in Clients : Own(c)
---------------------------------------------------------------------------
(* The table of requests *)

(* What is not to be had twice is neither asked for by a GET nor listed by *)
(* cursor.                                                                 *)
Ways == {"none", "L1", "L2", "builder", "relayer"}
Safe(e) ==
  e.auth \notin {"bearer", "cookie"} =>
    e.auth \in Ways /\ (e.effect \notin Repeatable => e.method # "GET" /\ ~e.paged)
AllSafe(t) == \A m \in DOMAIN t : Safe(t[m])

LEMMA HelpersSafe ==
  \A path :
    /\ Safe(Get(path)) /\ Safe(GetL2(path)) /\ Safe(Ask(path))
    /\ Safe(ByCursor(Get(path))) /\ Safe(ByCursor(GetL2(path)))
    /\ \A effect : Safe(PostL2(path, effect)) /\ Safe(DeleteL2(path, effect))
    /\ \A method, auth, effect :
         \/ auth \in {"bearer", "cookie"}
         \/ auth \in Ways /\ (effect \in Repeatable \/ method \in {"POST", "DELETE"})
         => Safe(Endpoint(method, path, auth, effect))
BY DEF Safe, Ways, Repeatable, Endpoint, Get, GetL2, Ask, PostL2, DeleteL2, ByCursor

LEMMA ClobSafe ==
  /\ AllSafe(ClobService) /\ AllSafe(ClobMarkets) /\ AllSafe(ClobSummaries)
  /\ AllSafe(ClobPrices) /\ AllSafe(ClobHistory) /\ AllSafe(ClobMarketFacts)
  /\ AllSafe(ClobKeys) /\ AllSafe(ClobAccount) /\ AllSafe(ClobBuilderKeys)
  /\ AllSafe(ClobOrders) /\ AllSafe(ClobCancels) /\ AllSafe(ClobHoldings)
  /\ AllSafe(ClobScoring) /\ AllSafe(ClobBalances) /\ AllSafe(ClobVersion)
  /\ AllSafe(ClobRewards) /\ AllSafe(ClobRewardMarkets)
  /\ AllSafe(ClobBuilderFees) /\ AllSafe(ClobBuilderTrades)
<1>1. AllSafe(ClobService)
  BY HelpersSafe DEF AllSafe, Ways, Repeatable, ClobService
<1>2. AllSafe(ClobMarkets)
  BY HelpersSafe DEF AllSafe, Ways, Repeatable, ClobMarkets
<1>3. AllSafe(ClobSummaries)
  BY HelpersSafe DEF AllSafe, Ways, Repeatable, ClobSummaries
<1>4. AllSafe(ClobPrices)
  BY HelpersSafe DEF AllSafe, Ways, Repeatable, ClobPrices
<1>5. AllSafe(ClobHistory)
  BY HelpersSafe DEF AllSafe, Ways, Repeatable, ClobHistory
<1>6. AllSafe(ClobMarketFacts)
  BY HelpersSafe DEF AllSafe, Ways, Repeatable, ClobMarketFacts
<1>7. AllSafe(ClobKeys)
  BY HelpersSafe DEF AllSafe, Safe, Ways, Repeatable, Endpoint, ClobKeys
<1>8. AllSafe(ClobAccount)
  BY HelpersSafe DEF AllSafe, Ways, Repeatable, ClobAccount
<1>9. AllSafe(ClobBuilderKeys)
  BY HelpersSafe DEF AllSafe, Ways, Repeatable, ClobBuilderKeys
<1>10. AllSafe(ClobOrders)
  BY HelpersSafe DEF AllSafe, Ways, Repeatable, ClobOrders
<1>11. AllSafe(ClobCancels)
  BY HelpersSafe DEF AllSafe, Ways, Repeatable, ClobCancels
<1>12. AllSafe(ClobHoldings)
  BY HelpersSafe DEF AllSafe, Ways, Repeatable, ClobHoldings
<1>13. AllSafe(ClobScoring)
  BY HelpersSafe DEF AllSafe, Ways, Repeatable, ClobScoring
<1>14. AllSafe(ClobBalances)
  BY HelpersSafe DEF AllSafe, Safe, Ways, Repeatable, Endpoint, ClobBalances
<1>15. AllSafe(ClobVersion)
  BY HelpersSafe DEF AllSafe, Ways, Repeatable, ClobVersion
<1>16. AllSafe(ClobRewards)
  BY HelpersSafe DEF AllSafe, Ways, Repeatable, ClobRewards
<1>17. AllSafe(ClobRewardMarkets)
  BY HelpersSafe DEF AllSafe, Ways, Repeatable, ClobRewardMarkets
<1>18. AllSafe(ClobBuilderFees)
  BY HelpersSafe DEF AllSafe, Ways, Repeatable, ClobBuilderFees
<1>19. AllSafe(ClobBuilderTrades)
  BY HelpersSafe DEF AllSafe, Ways, Repeatable, ClobBuilderTrades
<1> QED BY <1>1, <1>2, <1>3, <1>4, <1>5, <1>6, <1>7, <1>8, <1>9, <1>10,
           <1>11, <1>12, <1>13, <1>14, <1>15, <1>16, <1>17, <1>18, <1>19

LEMMA GammaSafe ==
  /\ AllSafe(GammaEvents) /\ AllSafe(GammaEventLookups)
  /\ AllSafe(GammaMarkets) /\ AllSafe(GammaSeries) /\ AllSafe(GammaTags)
  /\ AllSafe(GammaComments) /\ AllSafe(GammaSearch) /\ AllSafe(GammaProfiles)
  /\ AllSafe(GammaSports) /\ AllSafe(GammaSignIn)
<1>1. AllSafe(GammaEvents)
  BY HelpersSafe DEF AllSafe, Ways, Repeatable, GammaEvents
<1>2. AllSafe(GammaEventLookups)
  BY HelpersSafe DEF AllSafe, Ways, Repeatable, GammaEventLookups
<1>3. AllSafe(GammaMarkets)
  BY HelpersSafe DEF AllSafe, Ways, Repeatable, GammaMarkets
<1>4. AllSafe(GammaSeries)
  BY HelpersSafe DEF AllSafe, Ways, Repeatable, GammaSeries
<1>5. AllSafe(GammaTags)
  BY HelpersSafe DEF AllSafe, Ways, Repeatable, GammaTags
<1>6. AllSafe(GammaComments)
  BY HelpersSafe DEF AllSafe, Ways, Repeatable, GammaComments
<1>7. AllSafe(GammaSearch)
  BY HelpersSafe DEF AllSafe, Ways, Repeatable, GammaSearch
<1>8. AllSafe(GammaProfiles)
  BY HelpersSafe DEF AllSafe, Ways, Repeatable, GammaProfiles
<1>9. AllSafe(GammaSports)
  BY HelpersSafe DEF AllSafe, Ways, Repeatable, GammaSports
<1>10. AllSafe(GammaSignIn)
  BY HelpersSafe DEF AllSafe, Safe, Ways, Repeatable, Endpoint, GammaSignIn
<1> QED BY <1>1, <1>2, <1>3, <1>4, <1>5, <1>6, <1>7, <1>8, <1>9, <1>10

LEMMA OthersSafe ==
  /\ AllSafe(DataService) /\ AllSafe(DataPositions) /\ AllSafe(DataClosed)
  /\ AllSafe(DataFills) /\ AllSafe(DataActivity) /\ AllSafe(DataHolders)
  /\ AllSafe(DataMarketPositions) /\ AllSafe(DataTotals)
  /\ AllSafe(DataLeaders) /\ AllSafe(Bridge) /\ AllSafe(Relayer)
  /\ AllSafe(RelayerSubmit)
<1>1. AllSafe(DataService)
  BY HelpersSafe DEF AllSafe, Ways, Repeatable, DataService
<1>2. AllSafe(DataPositions)
  BY HelpersSafe DEF AllSafe, Ways, Repeatable, DataPositions
<1>3. AllSafe(DataClosed)
  BY HelpersSafe DEF AllSafe, Ways, Repeatable, DataClosed
<1>4. AllSafe(DataFills)
  BY HelpersSafe DEF AllSafe, Ways, Repeatable, DataFills
<1>5. AllSafe(DataActivity)
  BY HelpersSafe DEF AllSafe, Ways, Repeatable, DataActivity
<1>6. AllSafe(DataHolders)
  BY HelpersSafe DEF AllSafe, Ways, Repeatable, DataHolders
<1>7. AllSafe(DataMarketPositions)
  BY HelpersSafe DEF AllSafe, Ways, Repeatable, DataMarketPositions
<1>8. AllSafe(DataTotals)
  BY HelpersSafe DEF AllSafe, Ways, Repeatable, DataTotals
<1>9. AllSafe(DataLeaders)
  BY HelpersSafe DEF AllSafe, Ways, Repeatable, DataLeaders
<1>10. AllSafe(Bridge)
  BY HelpersSafe DEF AllSafe, Safe, Ways, Repeatable, Endpoint, Bridge
<1>11. AllSafe(Relayer)
  BY HelpersSafe DEF AllSafe, Safe, Ways, Repeatable, Endpoint, Relayer
<1>12. AllSafe(RelayerSubmit)
  BY HelpersSafe DEF AllSafe, Safe, Ways, Repeatable, Endpoint, RelayerSubmit
<1> QED BY <1>1, <1>2, <1>3, <1>4, <1>5, <1>6, <1>7, <1>8, <1>9, <1>10,
           <1>11, <1>12

LEMMA EndpointsSafe == \A e \in Endpoints : Safe(e)
<1> SUFFICES ASSUME NEW e \in Endpoints PROVE Safe(e)
  OBVIOUS
<1>1. PICK i \in DOMAIN Tables : \E m \in DOMAIN Tables[i] : e = Tables[i][m]
  BY DEF Endpoints
<1>2. AllSafe(Tables[i])
  BY ClobSafe, GammaSafe, OthersSafe DEF Tables
<1> QED BY <1>1, <1>2 DEF AllSafe

LEMMA ShapesSafe ==
  \A s \in Shapes : s.auth \in Ways /\ (s.effect \notin Repeatable => s.method # "GET" /\ ~s.paged)
BY EndpointsSafe DEF Shapes, Shape, Safe

LEMMA KeyShapes ==
  /\ Create \in Shapes /\ Derive \in Shapes /\ Create # Derive
  /\ ~Create.paged /\ ~Derive.paged /\ Create.auth = "L1" /\ Derive.auth = "L1"
  /\ Create.effect \in Repeatable /\ Derive.effect \in Repeatable
  /\ Create.effect # "revoke" /\ Derive.effect # "revoke"
<1>1. /\ ClobKeys.CreateAPIKey.auth = "L1" /\ ClobKeys.DeriveAPIKey.auth = "L1"
      /\ ClobKeys.CreateAPIKey.method = "POST" /\ ClobKeys.DeriveAPIKey.method = "GET"
      /\ ClobKeys.CreateAPIKey.effect = "key" /\ ClobKeys.DeriveAPIKey.effect = "none"
      /\ ~ClobKeys.CreateAPIKey.paged /\ ~ClobKeys.DeriveAPIKey.paged
  BY DEF ClobKeys, Endpoint
<1>2. ClobKeys.CreateAPIKey \in Endpoints /\ ClobKeys.DeriveAPIKey \in Endpoints
  <2>1. 7 \in DOMAIN Tables /\ Tables[7] = ClobKeys
    BY DEF Tables
  <2>2. {"CreateAPIKey", "DeriveAPIKey"} \subseteq DOMAIN ClobKeys
    BY DEF ClobKeys
  <2> QED BY <2>1, <2>2 DEF Endpoints
<1> QED BY <1>1, <1>2 DEF Create, Derive, Shapes, Shape, Repeatable
---------------------------------------------------------------------------
(* Calls, requests and answers *)

LEMMA Standing ==
  ASSUME TypeOK, NEW c \in Clients
  PROVE  /\ call[c] \in Calling \/ call[c] \in Over
         /\ InCall(c) <=> call[c] \in Calling
         /\ At(c, "ready") <=> Is(c, "ready")
         /\ At(c, "sent") <=> Is(c, "sent")
         /\ Is(c, "ready") => ~Is(c, "sent")
BY DEF TypeOK, InCall, At, Is, Calling, Over, Idle, Tasks

LEMMA CallingFields ==
  \A k \in Calling :
    /\ k.task \in Tasks /\ k.step \in {"ready", "sent"} /\ k.shape \in Shapes
    /\ k.nonce \in Nonces /\ k.cursor \in Cursors /\ k.attempt \in Nat /\ k.from \in Nat
    /\ k \notin Over
BY DEF Calling, Over, Idle, Tasks

LEMMA BegunCalling ==
  ASSUME NEW t \in Tasks, NEW s \in Shapes, NEW n \in Nonces, NEW m \in Nat
  PROVE  LET k == Begun(t, s, n, m)
         IN  /\ k \in Calling /\ k.task = t /\ k.step = "ready" /\ k.shape = s
             /\ k.nonce = n /\ k.cursor = NoCursor /\ k.from = m
BY DEF Begun, Calling, Cursors

LEMMA EndedOver ==
  /\ Idle \in Over /\ Idle.task = "idle"
  /\ \A t \in Tasks, x \in {"done", "failed"} :
       /\ Ended(t, x) \in Over /\ Ended(t, x) # Idle
       /\ Ended(t, x).task = t /\ Ended(t, x).result = x
BY DEF Ended, Over, Idle, Tasks

(* What a step makes of a call that goes on. *)
LEMMA SentCalling ==
  ASSUME NEW k \in Calling
  PROVE  LET s == [k EXCEPT !.step = "sent"]
         IN  /\ s \in Calling /\ s.task = k.task /\ s.step = "sent" /\ s.shape = k.shape
             /\ s.nonce = k.nonce /\ s.cursor = k.cursor /\ s.from = k.from
BY DEF Calling

LEMMA RetriedCalling ==
  ASSUME NEW k \in Calling
  PROVE  LET s == [k EXCEPT !.attempt = @ + 1]
         IN  /\ s \in Calling /\ s.task = k.task /\ s.step = k.step /\ s.shape = k.shape
             /\ s.nonce = k.nonce /\ s.cursor = k.cursor /\ s.from = k.from
BY DEF Calling

LEMMA TurnedCalling ==
  ASSUME NEW k \in Calling, NEW next \in Cursors
  PROVE  LET s == [k EXCEPT !.step = "ready", !.attempt = 0, !.cursor = next]
         IN  /\ s \in Calling /\ s.task = k.task /\ s.step = "ready" /\ s.shape = k.shape
             /\ s.nonce = k.nonce /\ s.cursor = next /\ s.from = k.from
BY DEF Calling

LEMMA Nothing ==
  /\ NoReply.status = "none"
  /\ \A r : Shaped(r) => r # NoRequest
<1>1. NoReply.status = "none"
  BY DEF NoReply
<1>2. ASSUME NEW r, Shaped(r), r = NoRequest PROVE FALSE
  <2>1. DOMAIN r = {"shape"}
    BY <1>2 DEF NoRequest
  <2>2. "client" \in DOMAIN r
    BY <1>2 DEF Shaped
  <2> QED BY <2>1, <2>2
<1> QED BY <1>1, <1>2
---------------------------------------------------------------------------
(* A request when it is made, and when it is sent again *)

LEMMA HeadersGenuine ==
  ASSUME NEW s \in Shapes, NEW key, NEW n, NEW q, NEW b, NEW r,
         b = NoBody \/ b.owner = key,
         r.shape = s, r.body = b, r.headers = Headers(s, key, n, q, b)
  PROVE  Genuine(r) /\ (s.auth = "L1" => r.headers.nonce = n)
<1>1. s.auth \in Ways
  BY ShapesSafe
<1>2. CASE s.auth = "none"
  BY <1>2 DEF Genuine
<1>3. CASE s.auth = "L1"
  BY <1>3 DEF Genuine, Headers, BuildL1Headers
<1>4. CASE s.auth = "L2"
  BY <1>4 DEF Genuine, Headers, BuildL2Headers
<1>5. CASE s.auth \in {"builder", "relayer"}
  BY <1>5 DEF Genuine, Headers, BuildBuilderHeaders
<1> QED BY <1>1, <1>2, <1>3, <1>4, <1>5 DEF Ways

(* What of a request does not change when it is sent again. *)
SameRequest(r, q) ==
  /\ Shaped(r) /\ Shaped(q)
  /\ q.client = r.client /\ q.call = r.call /\ q.shape = r.shape
  /\ q.query = r.query /\ q.body = r.body /\ q.headers = r.headers

LEMMA SameMade ==
  ASSUME NEW r, NEW q, SameRequest(r, q), Made(r)
  PROVE  Made(q)
<1>1. Genuine(q)
  BY DEF SameRequest, Made, Genuine
<1> QED BY <1>1 DEF SameRequest, Made

LEMMA AgingSame ==
  ASSUME NEW r, Shaped(r)
  PROVE  \A q \in Aging(r) : SameRequest(r, q)
<1>1. SameRequest(r, r)
  BY DEF SameRequest
<1>2. SameRequest(r, [r EXCEPT !.aged = TRUE])
  <2> DEFINE q == [r EXCEPT !.aged = TRUE]
  <2>1. /\ q.client = r.client /\ q.call = r.call /\ q.shape = r.shape /\ q.query = r.query
        /\ q.body = r.body /\ q.headers = r.headers /\ q.attempt = r.attempt
    BY DEF Shaped
  <2>2. q \in [client : {r.client}, call : {r.call}, shape : {r.shape}, query : {r.query},
               body : {r.body}, headers : {r.headers}, attempt : {r.attempt}, aged : BOOLEAN]
    BY Zenon DEF Shaped
  <2> HIDE DEF q
  <2> QED BY <2>1, <2>2 DEF SameRequest, Shaped
<1> QED BY <1>1, <1>2 DEF Aging

LEMMA ResentSame ==
  ASSUME NEW r, Shaped(r), NEW n
  PROVE  \A q \in Aging([r EXCEPT !.attempt = n]) : SameRequest(r, q)
<1> DEFINE t == [r EXCEPT !.attempt = n]
<1>1. SameRequest(r, t)
  BY DEF SameRequest, Shaped
<1>2. SUFFICES ASSUME NEW q \in Aging(t) PROVE SameRequest(r, q)
  OBVIOUS
<1>3. SameRequest(t, q)
  BY <1>1, <1>2, AgingSame DEF SameRequest
<1> QED BY <1>1, <1>3 DEF SameRequest

LEMMA RequestMade ==
  ASSUME TypeOK, NEW c \in Clients, call[c] \in Calling
  PROVE  LET r == Request(c)
         IN  /\ Made(r) /\ r.client = c /\ r.call = calls[c] /\ r.shape = call[c].shape
             /\ r.shape.paged => r.query = cursorOrStart(call[c].cursor)
             /\ r.shape.auth = "L1" => r.headers.nonce = call[c].nonce
<1> DEFINE r == Request(c)
           s == call[c].shape
           query == IF s.paged THEN cursorOrStart(call[c].cursor) ELSE NoCursor
<1>1. s \in Shapes
  BY CallingFields
<1>2. /\ Shaped(r) /\ r.client = c /\ r.call = calls[c] /\ r.shape = s
      /\ r.query = query /\ r.body = Body(c)
      /\ r.headers = Headers(s, creds[c], SignedNonce(c), query, Body(c))
  BY DEF Request, Shaped
<1>3. Body(c) = NoBody \/ Body(c).owner = creds[c]
  BY DEF Body
<1>4. Genuine(r) /\ (s.auth = "L1" => r.headers.nonce = SignedNonce(c))
  <2> HIDE DEF r, s, query
  <2> QED BY <1>1, <1>2, <1>3, HeadersGenuine
<1>5. calls[c] \in Nat
  BY DEF TypeOK
<1> HIDE DEF r
<1> QED BY <1>1, <1>2, <1>4, <1>5 DEF Made, SignedNonce, r
---------------------------------------------------------------------------
(* What a step of one process leaves to the others *)

(* g is f but for c. *)
Only(f, g, c) == PerClient(g) /\ \A d \in Clients \ {c} : g[d] = f[d]

LEMMA Updates ==
  \A f : PerClient(f) =>
    \A c \in Clients :
      /\ Only(f, f, c)
      /\ \A v : Only(f, [f EXCEPT ![c] = v], c) /\ [f EXCEPT ![c] = v][c] = v
BY Zenon DEF Only, PerClient

Moves(c) ==
  /\ Only(call, call', c) /\ Only(calls, calls', c) /\ Only(rows, rows', c)
  /\ Only(creds, creds', c) /\ Only(asked, asked', c) /\ Only(out, out', c)
  /\ Only(reply, reply', c) /\ Only(seen, seen', c)
  /\ again' \ {c} = again \ {c} /\ excused' \ {c} = excused \ {c}
  /\ keys' = keys /\ took' = took /\ twice' = twice

LEMMA PerClients ==
  ASSUME TypeOK
  PROVE  /\ PerClient(call) /\ PerClient(calls) /\ PerClient(rows) /\ PerClient(creds)
         /\ PerClient(asked) /\ PerClient(out) /\ PerClient(reply) /\ PerClient(seen)
BY Zenon DEF TypeOK, PerClient

LEMMA BeginMoves ==
  ASSUME TypeOK, NEW c \in Clients, NEW k, Begin(c, k)
  PROVE  /\ Moves(c) /\ call[c] \notin Calling
         /\ call'[c] = k /\ calls'[c] = calls[c] + 1 /\ rows'[c] = k.from /\ seen'[c] = {}
         /\ c \notin again' /\ c \notin excused'
         /\ UNCHANGED <<keys, wire, creds, out, reply, took, twice, asked>>
<1>1. /\ call' = [call EXCEPT ![c] = k] /\ calls' = [calls EXCEPT ![c] = calls[c] + 1]
      /\ rows' = [rows EXCEPT ![c] = k.from] /\ seen' = [seen EXCEPT ![c] = {}]
      /\ again' = again \ {c} /\ excused' = excused \ {c}
      /\ UNCHANGED <<keys, wire, creds, out, reply, took, twice, asked>>
  BY DEF Begin
<1>2. Moves(c)
  BY <1>1, PerClients, Updates DEF Moves
<1>3. call[c] \notin Calling
  BY Standing DEF Begin
<1> QED BY <1>1, <1>2, <1>3, PerClients, Updates

(* Finish and Failed set the call of c, and nothing else. *)
LEMMA FinishEnds ==
  ASSUME TypeOK, NEW c \in Clients, call[c] \in Calling, NEW x \in {"done", "failed"},
         Finish(c, x)
  PROVE  /\ Only(call, call', c) /\ call'[c] \in Over
         /\ call[c].task # "one" => call'[c] = Ended(call[c].task, x)
         /\ call[c].task = "one" => call'[c] = Idle
<1> DEFINE k == IF call[c].task = "one" THEN Idle ELSE Ended(call[c].task, x)
<1>1. call' = [call EXCEPT ![c] = k]
  BY DEF Finish
<1>2. call[c].task \in Tasks
  BY CallingFields
<1>3. Only(call, call', c) /\ call'[c] = k
  <2> HIDE DEF k
  <2> QED BY <1>1, PerClients, Updates
<1> QED BY <1>2, <1>3, EndedOver

LEMMA FailedEnds ==
  ASSUME TypeOK, NEW c \in Clients, call[c] \in Calling, Failed(c)
  PROVE  /\ Only(call, call', c)
         /\ \/ /\ call[c].task = "startup" /\ call[c].shape = Create
               /\ call'[c] = Begun("startup", Derive, Default, 0)
            \/ /\ call'[c] \in Over /\ ~(call[c].task = "startup" /\ call[c].shape = Create)
               /\ call[c].task # "one" => call'[c] = Ended(call[c].task, "failed")
               /\ call[c].task = "one" => call'[c] = Idle
<1>1. CASE call[c].task = "startup" /\ call[c].shape = Create
  <2>1. call' = [call EXCEPT ![c] = Begun("startup", Derive, Default, 0)]
    BY <1>1 DEF Failed
  <2> QED BY <1>1, <2>1, PerClients, Updates
<1>2. CASE ~(call[c].task = "startup" /\ call[c].shape = Create)
  <2>1. Finish(c, "failed")
    BY <1>2 DEF Failed
  <2> QED BY <1>2, <2>1, FinishEnds
<1> QED BY <1>1, <1>2

(* The call of c ends, or its start-up goes on to the derivation. *)
Stops(c) ==
  /\ \/ call'[c] \in Over
     \/ /\ call[c] \in Calling /\ call[c].task = "startup" /\ call[c].shape = Create
        /\ call'[c] = Begun("startup", Derive, Default, 0)
  /\ out'[c] = NoRequest /\ reply'[c] = NoReply
  /\ wire' \subseteq wire /\ calls' = calls

LEMMA UnsignedMoves ==
  ASSUME TypeOK, NEW c \in Clients, OwnRequest(c), Unsigned(c)
  PROVE  /\ Moves(c) /\ Stops(c) /\ Is(c, "ready") /\ call[c].shape.auth = "L2"
         /\ call[c].task # "one" => call'[c] = Ended(call[c].task, "failed")
         /\ call[c].task = "one" => call'[c] = Idle
         /\ UNCHANGED <<creds, asked, seen, again, rows, excused>>
<1>1. /\ Finish(c, "failed")
      /\ UNCHANGED <<keys, rows, wire, creds, calls, out, reply, seen, took, twice, again, asked, excused>>
      /\ Is(c, "ready") /\ call[c].shape.auth = "L2"
  BY Standing DEF Unsigned, exchange, history
<1>2. out[c] = NoRequest /\ reply[c] = NoReply
  BY <1>1, Standing DEF OwnRequest
<1>3. /\ Only(call, call', c) /\ call'[c] \in Over
      /\ call[c].task # "one" => call'[c] = Ended(call[c].task, "failed")
      /\ call[c].task = "one" => call'[c] = Idle
  BY <1>1, FinishEnds DEF Is
<1>4. Moves(c)
  BY <1>1, <1>3, PerClients, Updates DEF Moves
<1> QED BY <1>1, <1>2, <1>3, <1>4 DEF Stops

LEMMA SendMoves ==
  ASSUME TypeOK, NEW c \in Clients, Send(c)
  PROVE  /\ Moves(c) /\ Is(c, "ready")
         /\ call'[c] = [call[c] EXCEPT !.step = "sent"]
         /\ \E r : SameRequest(Request(c), r) /\ out'[c] = r /\ wire' = wire \cup {r}
         /\ UNCHANGED <<keys, rows, creds, calls, reply, seen, took, twice, again, asked, excused>>
<1>1. /\ call' = [call EXCEPT ![c] = [call[c] EXCEPT !.step = "sent"]]
      /\ UNCHANGED <<keys, rows, creds, calls, reply, seen, took, twice, again, asked, excused>>
      /\ Is(c, "ready")
  BY Standing DEF Send, history
<1>2. PICK r \in Aging(Request(c)) : out' = [out EXCEPT ![c] = r] /\ wire' = wire \cup {r}
  BY DEF Send
<1>3. SameRequest(Request(c), r)
  BY <1>1, RequestMade, AgingSame DEF Made, Is
<1>4. Moves(c)
  BY <1>1, <1>2, PerClients, Updates DEF Moves
<1>5. out'[c] = r /\ call'[c] = [call[c] EXCEPT !.step = "sent"]
  BY <1>1, <1>2, PerClients, Updates
<1> QED BY <1>1, <1>2, <1>3, <1>4, <1>5

LEMMA PaceCutMoves ==
  ASSUME TypeOK, NEW c \in Clients, OwnRequest(c), PaceCut(c)
  PROVE  /\ Moves(c) /\ Stops(c) /\ Is(c, "ready") /\ Failed(c) /\ ExcusedIfVoid(c)
         /\ UNCHANGED <<creds, asked, seen, again, rows>>
<1>1. /\ Failed(c) /\ ExcusedIfVoid(c)
      /\ UNCHANGED <<keys, rows, wire, creds, calls, out, reply, seen, took, twice, again, asked>>
      /\ Is(c, "ready") /\ call[c] \in Calling
  BY Standing DEF PaceCut, exchange, Is
<1>2. out[c] = NoRequest /\ reply[c] = NoReply
  BY <1>1, Standing DEF OwnRequest
<1>3. excused' \ {c} = excused \ {c}
  BY <1>1 DEF ExcusedIfVoid
<1>4. Moves(c)
  BY <1>1, <1>3, FailedEnds, PerClients, Updates DEF Moves
<1> QED BY <1>1, <1>2, <1>4, FailedEnds DEF Stops

LEMMA ResendMoves ==
  ASSUME TypeOK, NEW c \in Clients, OwnRequest(c), Broken(c),
         call[c].attempt < ExtraAttempts(out[c])
  PROVE  /\ Moves(c) /\ Is(c, "sent") /\ out[c].shape.method = "GET"
         /\ call'[c] = [call[c] EXCEPT !.attempt = @ + 1] /\ reply'[c] = NoReply
         /\ \E r : SameRequest(out[c], r) /\ out'[c] = r /\ wire' = Abandoned(out[c]) \cup {r}
         /\ UNCHANGED <<keys, rows, creds, calls, seen, took, twice, again, asked, excused>>
<1>1. /\ call' = [call EXCEPT ![c] = [call[c] EXCEPT !.attempt = @ + 1]]
      /\ reply' = [reply EXCEPT ![c] = NoReply]
      /\ UNCHANGED <<keys, rows, creds, calls, seen, took, twice, again, asked, excused>>
      /\ Is(c, "sent") /\ call[c] \in Calling
  BY Standing DEF Broken, Is
<1>2. PICK r \in Aging([out[c] EXCEPT !.attempt = call[c].attempt + 1]) :
        out' = [out EXCEPT ![c] = r] /\ wire' = Abandoned(out[c]) \cup {r}
  BY DEF Broken
<1>3. SameRequest(out[c], r)
  BY <1>1, ResentSame DEF OwnRequest, Made
<1>4. out[c].shape.method = "GET"
  BY <1>1, CallingFields DEF ExtraAttempts
<1>5. Moves(c)
  BY <1>1, <1>2, PerClients, Updates DEF Moves
<1>6. /\ out'[c] = r /\ call'[c] = [call[c] EXCEPT !.attempt = @ + 1]
      /\ reply'[c] = NoReply
  BY <1>1, <1>2, PerClients, Updates
<1> QED BY <1>1, <1>2, <1>3, <1>4, <1>5, <1>6

LEMMA GiveUpMoves ==
  ASSUME TypeOK, NEW c \in Clients, Broken(c), ~(call[c].attempt < ExtraAttempts(out[c]))
  PROVE  /\ Moves(c) /\ Stops(c) /\ Is(c, "sent") /\ Failed(c) /\ ExcusedIfVoid(c)
         /\ UNCHANGED <<creds, asked, seen, again, rows>>
<1>1. /\ Failed(c) /\ ExcusedIfVoid(c)
      /\ reply' = [reply EXCEPT ![c] = NoReply] /\ out' = [out EXCEPT ![c] = NoRequest]
      /\ wire' = Abandoned(out[c])
      /\ UNCHANGED <<keys, rows, creds, calls, seen, took, twice, again, asked>>
      /\ Is(c, "sent") /\ call[c] \in Calling
  BY Standing DEF Broken, Is
<1>2. excused' \ {c} = excused \ {c}
  BY <1>1 DEF ExcusedIfVoid
<1>3. Moves(c) /\ out'[c] = NoRequest /\ reply'[c] = NoReply
  BY <1>1, <1>2, FailedEnds, PerClients, Updates DEF Moves
<1>4. wire' \subseteq wire
  BY <1>1 DEF Abandoned
<1> QED BY <1>1, <1>3, <1>4, FailedEnds DEF Stops

LEMMA ReceiveMoves ==
  ASSUME TypeOK, NEW c \in Clients, Receive(c)
  PROVE  /\ Moves(c) /\ Stops(c) /\ Is(c, "sent") /\ call[c].task # "walk" /\ reply[c] # NoReply
         /\ IF reply[c].status = "key" \/ (reply[c].status \in {"ok", "empty"} /\ call[c].task = "one")
            THEN Finish(c, "done") ELSE Failed(c)
         /\ excused' = IF reply[c].status = "unauthorized" THEN excused \cup {c} ELSE excused
         /\ IF reply[c].status = "key" /\ call[c].shape.auth = "L1"
            THEN creds'[c] = reply[c].nonce /\ asked'[c] = call[c].nonce
            ELSE creds'[c] = creds[c] /\ asked'[c] = asked[c]
         /\ UNCHANGED <<seen, again, rows>>
<1>1. /\ reply' = [reply EXCEPT ![c] = NoReply] /\ out' = [out EXCEPT ![c] = NoRequest]
      /\ IF reply[c].status = "key" \/ (reply[c].status \in {"ok", "empty"} /\ call[c].task = "one")
         THEN Finish(c, "done") ELSE Failed(c)
      /\ excused' = IF reply[c].status = "unauthorized" THEN excused \cup {c} ELSE excused
      /\ SetCredentials(c, reply[c])
      /\ UNCHANGED <<keys, rows, wire, calls, seen, took, twice, again>>
      /\ Is(c, "sent") /\ call[c] \in Calling /\ call[c].task # "walk" /\ reply[c] # NoReply
  BY Standing DEF Receive, Read, exchange, Is
<1>2. /\ Only(creds, creds', c) /\ Only(asked, asked', c)
      /\ IF reply[c].status = "key" /\ call[c].shape.auth = "L1"
         THEN creds'[c] = reply[c].nonce /\ asked'[c] = call[c].nonce
         ELSE creds'[c] = creds[c] /\ asked'[c] = asked[c]
  <2>1. CASE reply[c].status = "key" /\ call[c].shape.auth = "L1"
    <3>1. /\ creds' = [creds EXCEPT ![c] = reply[c].nonce]
          /\ asked' = [asked EXCEPT ![c] = call[c].nonce]
      BY <1>1, <2>1 DEF SetCredentials
    <3> QED BY <2>1, <3>1, PerClients, Updates
  <2>2. CASE ~(reply[c].status = "key" /\ call[c].shape.auth = "L1")
    <3>1. UNCHANGED <<creds, asked>>
      BY <1>1, <2>2 DEF SetCredentials
    <3> QED BY <2>2, <3>1, PerClients, Updates
  <2> QED BY <2>1, <2>2
<1>3. /\ Only(call, call', c)
      /\ \/ call'[c] \in Over
         \/ /\ call[c].task = "startup" /\ call[c].shape = Create
            /\ call'[c] = Begun("startup", Derive, Default, 0)
  BY <1>1, FinishEnds, FailedEnds
<1>4. Moves(c) /\ out'[c] = NoRequest /\ reply'[c] = NoReply
  BY <1>1, <1>2, <1>3, PerClients, Updates DEF Moves
<1> QED BY <1>1, <1>2, <1>3, <1>4 DEF Stops

(* Pages has a page, and it was not the last. *)
LEMMA TurnMoves ==
  ASSUME TypeOK, NEW c \in Clients, Turn(c), ~LastPage(reply[c].next, call[c].cursor)
  PROVE  /\ Moves(c) /\ Is(c, "sent") /\ call[c].task = "walk" /\ reply[c].status = "page"
         /\ call'[c] = [call[c] EXCEPT !.step = "ready", !.attempt = 0, !.cursor = reply[c].next]
         /\ out'[c] = NoRequest /\ reply'[c] = NoReply
         /\ seen'[c] = seen[c] \cup reply[c].rows
         /\ seen[c] \cap reply[c].rows = {} => again' = again
         /\ UNCHANGED <<keys, rows, wire, creds, calls, asked, took, twice, excused>>
<1> DEFINE k == [call[c] EXCEPT !.step = "ready", !.attempt = 0, !.cursor = reply[c].next]
<1>1. /\ call' = [call EXCEPT ![c] = k]
      /\ reply' = [reply EXCEPT ![c] = NoReply] /\ out' = [out EXCEPT ![c] = NoRequest]
      /\ seen' = [seen EXCEPT ![c] = seen[c] \cup reply[c].rows]
      /\ again' = IF seen[c] \cap reply[c].rows = {} THEN again ELSE again \cup {c}
      /\ UNCHANGED <<keys, rows, wire, creds, calls, asked, took, twice, excused>>
      /\ Is(c, "sent") /\ call[c].task = "walk" /\ reply[c].status = "page"
  BY Standing DEF Turn, Read, exchange
<1>2. Only(call, call', c) /\ call'[c] = k
  <2> HIDE DEF k
  <2> QED BY <1>1, PerClients, Updates
<1>3. /\ Only(out, out', c) /\ out'[c] = NoRequest
      /\ Only(reply, reply', c) /\ reply'[c] = NoReply
      /\ Only(seen, seen', c) /\ seen'[c] = seen[c] \cup reply[c].rows
  <2> HIDE DEF k
  <2>1. Only(seen, seen', c) /\ seen'[c] = seen[c] \cup reply[c].rows
    <3>1. seen' = [seen EXCEPT ![c] = seen[c] \cup reply[c].rows]
      BY <1>1
    <3> QED BY <3>1, PerClients, Updates
  <2>2. /\ Only(out, out', c) /\ out'[c] = NoRequest
        /\ Only(reply, reply', c) /\ reply'[c] = NoReply
    <3>1. reply' = [reply EXCEPT ![c] = NoReply] /\ out' = [out EXCEPT ![c] = NoRequest]
      BY <1>1
    <3> QED BY <3>1, PerClients, Updates
  <2> QED BY <2>1, <2>2
<1>4. Moves(c)
  <2> HIDE DEF k
  <2>1. again' \ {c} = again \ {c}
    BY <1>1
  <2> QED BY <1>1, <1>2, <1>3, <2>1, PerClients, Updates DEF Moves
<1> QED BY <1>1, <1>2, <1>3, <1>4

LEMMA LastTurnMoves ==
  ASSUME TypeOK, NEW c \in Clients, Turn(c), LastPage(reply[c].next, call[c].cursor)
  PROVE  /\ Moves(c) /\ Stops(c)
         /\ Is(c, "sent") /\ call[c].task = "walk" /\ reply[c].status = "page"
         /\ call'[c] = Ended("walk", "done")
         /\ seen'[c] = seen[c] \cup reply[c].rows
         /\ seen[c] \cap reply[c].rows = {} => again' = again
         /\ UNCHANGED <<rows, creds, asked, excused>>
<1>1. /\ Finish(c, "done")
      /\ reply' = [reply EXCEPT ![c] = NoReply] /\ out' = [out EXCEPT ![c] = NoRequest]
      /\ seen' = [seen EXCEPT ![c] = seen[c] \cup reply[c].rows]
      /\ again' = IF seen[c] \cap reply[c].rows = {} THEN again ELSE again \cup {c}
      /\ UNCHANGED <<keys, rows, wire, creds, calls, asked, took, twice, excused>>
      /\ Is(c, "sent") /\ call[c] \in Calling
      /\ call[c].task = "walk" /\ reply[c].status = "page"
  BY Standing DEF Turn, Read, exchange, Is
<1>2. Only(call, call', c) /\ call'[c] \in Over /\ call'[c] = Ended("walk", "done")
  BY <1>1, FinishEnds
<1>3. /\ Only(out, out', c) /\ out'[c] = NoRequest
      /\ Only(reply, reply', c) /\ reply'[c] = NoReply
      /\ Only(seen, seen', c) /\ seen'[c] = seen[c] \cup reply[c].rows
  <2>1. /\ reply' = [reply EXCEPT ![c] = NoReply] /\ out' = [out EXCEPT ![c] = NoRequest]
        /\ seen' = [seen EXCEPT ![c] = seen[c] \cup reply[c].rows]
    BY <1>1
  <2> QED BY <2>1, PerClients, Updates
<1>4. Moves(c)
  <2>1. again' \ {c} = again \ {c}
    BY <1>1
  <2> QED BY <1>1, <1>2, <1>3, <2>1, PerClients, Updates DEF Moves
<1> QED BY <1>1, <1>2, <1>3, <1>4 DEF Stops

LEMMA TurnFailsMoves ==
  ASSUME TypeOK, NEW c \in Clients, TurnFails(c)
  PROVE  /\ Moves(c) /\ Stops(c) /\ Is(c, "sent") /\ call'[c] = Ended("walk", "failed")
         /\ UNCHANGED <<rows, creds, asked, seen, again, excused>>
<1>1. /\ Finish(c, "failed")
      /\ reply' = [reply EXCEPT ![c] = NoReply] /\ out' = [out EXCEPT ![c] = NoRequest]
      /\ UNCHANGED <<keys, rows, wire, creds, calls, seen, asked, took, twice, again, excused>>
      /\ Is(c, "sent") /\ call[c] \in Calling /\ call[c].task = "walk"
  BY Standing DEF TurnFails, Read, exchange, history, Is
<1>2. Only(call, call', c) /\ call'[c] \in Over /\ call'[c] = Ended("walk", "failed")
  BY <1>1, FinishEnds
<1>3. out'[c] = NoRequest /\ reply'[c] = NoReply /\ Moves(c)
  BY <1>1, <1>2, PerClients, Updates DEF Moves
<1> QED BY <1>1, <1>2, <1>3 DEF Stops

LEMMA CrashMoves ==
  ASSUME TypeOK, NEW c \in Clients, Crash(c)
  PROVE  /\ Moves(c) /\ Stops(c) /\ call'[c] = Idle
         /\ rows'[c] = 0 /\ creds'[c] = NoKey /\ asked'[c] = NoKey /\ seen'[c] = {}
         /\ UNCHANGED <<again, excused>>
<1>1. /\ call' = [call EXCEPT ![c] = Idle] /\ creds' = [creds EXCEPT ![c] = NoKey]
      /\ asked' = [asked EXCEPT ![c] = NoKey] /\ out' = [out EXCEPT ![c] = NoRequest]
      /\ reply' = [reply EXCEPT ![c] = NoReply] /\ seen' = [seen EXCEPT ![c] = {}]
      /\ rows' = [rows EXCEPT ![c] = 0]
      /\ UNCHANGED <<keys, calls, took, twice, again, excused>>
      /\ wire' \subseteq wire
  BY DEF Crash, Abandoned
<1>2. /\ call'[c] = Idle /\ creds'[c] = NoKey /\ asked'[c] = NoKey /\ out'[c] = NoRequest
      /\ reply'[c] = NoReply /\ seen'[c] = {} /\ rows'[c] = 0
      /\ Moves(c)
  BY <1>1, PerClients, Updates DEF Moves
<1> QED BY <1>1, <1>2, EndedOver DEF Stops

LEMMA GrowMoves ==
  ASSUME TypeOK, NEW c \in Clients, Grow(c)
  PROVE  /\ Moves(c) /\ rows'[c] = rows[c] + 1
         /\ UNCHANGED <<keys, wire, creds, call, calls, out, reply, seen,
                        took, twice, again, asked, excused>>
<1>1. /\ rows' = [rows EXCEPT ![c] = rows[c] + 1]
      /\ UNCHANGED <<keys, wire, creds, call, calls, out, reply, seen,
                     took, twice, again, asked, excused>>
  BY DEF Grow, history
<1>2. Moves(c) /\ rows'[c] = rows[c] + 1
  BY <1>1, PerClients, Updates DEF Moves
<1> QED BY <1>1, <1>2

(* What serving a request does: to the process that waits for it, if one   *)
(* does, its answer.                                                       *)
LEMMA ServeMoves ==
  ASSUME TypeOK, NEW r \in wire, Made(r), Serve(r)
  PROVE  /\ Only(reply, reply', r.client) /\ wire' = wire \ {r}
         /\ out[r.client] # r => reply' = reply
         /\ \/ /\ out[r.client] = r => reply'[r.client].status = "unauthorized"
               /\ UNCHANGED <<keys, took, twice, excused>>
            \/ /\ out[r.client] = r => reply'[r.client] \in Answers(r)
               /\ Effect(r)
               /\ took' = IF r.shape.effect \in Repeatable THEN took ELSE took \cup {<<r.client, r.call>>}
               /\ twice' = (twice \/ <<r.client, r.call>> \in took)
               /\ excused' = IF r.shape.effect = "revoke" THEN Clients ELSE excused
         /\ UNCHANGED <<rows, creds, call, calls, out, seen, again, asked>>
<1>1. r.client \in Clients
  BY DEF Made
<1>2. ASSUME NEW a, Answer(r, a)
      PROVE  /\ Only(reply, reply', r.client)
             /\ out[r.client] # r => reply' = reply
             /\ out[r.client] = r => reply'[r.client] = a
  <2>1. CASE out[r.client] = r
    <3>1. reply' = [reply EXCEPT ![r.client] = a]
      BY <1>2, <2>1 DEF Answer
    <3> QED BY <1>1, <2>1, <3>1, PerClients, Updates
  <2>2. CASE out[r.client] # r
    <3>1. reply' = reply
      BY <1>2, <2>2 DEF Answer
    <3> QED BY <1>1, <2>2, <3>1, PerClients, Updates
  <2> QED BY <2>1, <2>2
<1>3. wire' = wire \ {r} /\ UNCHANGED <<rows, creds, call, calls, out, seen, again, asked>>
  BY DEF Serve
<1>4. CASE /\ Answer(r, [status |-> "unauthorized"])
           /\ UNCHANGED <<keys, took, twice, excused>>
  BY <1>2, <1>3, <1>4
<1>5. CASE /\ \E a \in Answers(r) : Answer(r, a)
           /\ Effect(r)
           /\ took' = IF r.shape.effect \in Repeatable THEN took ELSE took \cup {<<r.client, r.call>>}
           /\ twice' = (twice \/ <<r.client, r.call>> \in took)
           /\ excused' = IF r.shape.effect = "revoke" THEN Clients ELSE excused
  BY <1>2, <1>3, <1>5
<1> QED BY <1>4, <1>5 DEF Serve
---------------------------------------------------------------------------
(* What holds of the other processes and of the requests on their way *)

LEMMA TypedNext ==
  ASSUME TypeOK, NEW c \in Clients, Moves(c), call'[c] \in Calling \cup Over,
         calls'[c] \in Nat, rows'[c] \in Nat
  PROVE  TypeOK'
<1>1. call' \in [Clients -> Calling \cup Over]
  <2>1. \A d \in Clients : call'[d] \in Calling \cup Over
    BY DEF TypeOK, Moves, Only
  <2> QED BY <2>1 DEF Moves, Only, PerClient
<1>2. calls' \in [Clients -> Nat]
  <2>1. \A d \in Clients : calls'[d] \in Nat
    BY DEF TypeOK, Moves, Only
  <2> QED BY <2>1 DEF Moves, Only, PerClient
<1>3. rows' \in [Clients -> Nat]
  <2>1. \A d \in Clients : rows'[d] \in Nat
    BY DEF TypeOK, Moves, Only
  <2> QED BY <2>1 DEF Moves, Only, PerClient
<1>4. /\ PerClient(creds)' /\ PerClient(asked)'
      /\ PerClient(out)' /\ PerClient(reply)' /\ PerClient(seen)'
  BY DEF Moves, Only, PerClient
<1> QED BY <1>1, <1>2, <1>3, <1>4 DEF TypeOK

(* No call of a process is undone. *)
Later == \A d \in Clients : calls'[d] \in Nat /\ calls[d] <= calls'[d]

LEMMA LaterMade ==
  ASSUME TypeOK, Later, NEW r, Made(r)
  PROVE  Made(r)'
BY DEF TypeOK, Later, Made, Genuine

LEMMA KeptRequest ==
  ASSUME TypeOK, NEW c \in Clients, Moves(c), Later, NEW d \in Clients \ {c}, OwnRequest(d)
  PROVE  OwnRequest(d)'
<1>1. /\ call'[d] = call[d] /\ calls'[d] = calls[d] /\ out'[d] = out[d] /\ reply'[d] = reply[d]
  BY DEF Moves, Only
<1>2. CASE Is(d, "sent")
  <2>1. Made(out[d])'
    <3>1. Made(out[d])
      BY <1>2 DEF OwnRequest
    <3> QED BY <1>1, <3>1, LaterMade DEF Made, Genuine
  <2> QED BY <1>1, <1>2, <2>1 DEF OwnRequest, Is
<1>3. CASE ~Is(d, "sent")
  BY <1>1, <1>3 DEF OwnRequest, Is
<1> QED BY <1>2, <1>3

(* Requests of c's only are added. *)
Adds(c) == \A r \in wire' : r \in wire \/ r.client = c

LEMMA KeptEffect ==
  ASSUME NEW c \in Clients, Moves(c), Adds(c), NEW d \in Clients \ {c}, OwnEffect(d)
  PROVE  OwnEffect(d)'
<1>1. call'[d] = call[d] /\ calls'[d] = calls[d] /\ took' = took
  BY DEF Moves, Only
<1>2. {r \in wire' : r.client = d /\ r.call = calls'[d]}
        \subseteq {r \in wire : r.client = d /\ r.call = calls[d]}
  BY <1>1 DEF Adds
<1> QED BY <1>1, <1>2 DEF OwnEffect, Is

LEMMA KeptKey ==
  ASSUME NEW c \in Clients, Moves(c), NEW d \in Clients \ {c}, OwnKey(d)
  PROVE  OwnKey(d)'
<1>1. /\ call'[d] = call[d] /\ creds'[d] = creds[d] /\ asked'[d] = asked[d]
      /\ reply'[d] = reply[d] /\ keys' = keys /\ (d \in excused' <=> d \in excused)
  BY DEF Moves, Only
<1> QED BY <1>1 DEF OwnKey

LEMMA KeptPages ==
  ASSUME NEW c \in Clients, Moves(c), NEW d \in Clients \ {c}, OwnPages(d)
  PROVE  OwnPages(d)'
<1>1. /\ call'[d] = call[d] /\ rows'[d] = rows[d] /\ reply'[d] = reply[d]
      /\ seen'[d] = seen[d] /\ (d \in again' <=> d \in again)
  BY DEF Moves, Only
<1> QED BY <1>1 DEF OwnPages, Have, Onward

(* A step that sends nothing. *)
LEMMA QuietEffects ==
  ASSUME TypeOK, Effects, Later, wire' \subseteq wire, took' = took, twice' = twice
  PROVE  Effects'
<1>1. \A w \in took' : \E c \in Clients, n \in Nat : w = <<c, n>> /\ n <= calls'[c]
  <2> SUFFICES ASSUME NEW w \in took
               PROVE  \E c \in Clients, n \in Nat : w = <<c, n>> /\ n <= calls'[c]
    OBVIOUS
  <2>1. PICK c \in Clients, n \in Nat : w = <<c, n>> /\ n <= calls[c]
    BY DEF Effects
  <2>2. n <= calls'[c]
    BY <2>1 DEF TypeOK, Later
  <2> QED BY <2>1, <2>2
<1> QED BY <1>1 DEF Effects

LEMMA QuietMade ==
  ASSUME TypeOK, Later, wire' \subseteq wire, \A r \in wire : Made(r)
  PROVE  \A r \in wire' : Made(r)'
BY LaterMade
---------------------------------------------------------------------------
(* The steps *)

LEMMA ProcessStep ==
  ASSUME IInv, NEW c \in Clients, Moves(c), Later, Adds(c),
         TypeOK', Effects', \A r \in wire' : Made(r)', Own(c)'
  PROVE  IInv'
<1>1. ASSUME NEW d \in Clients \ {c} PROVE Own(d)'
  <2>1. TypeOK /\ OwnRequest(d) /\ OwnEffect(d) /\ OwnKey(d) /\ OwnPages(d)
    BY DEF IInv, Own
  <2>2. OwnRequest(d)'
    BY <2>1, KeptRequest
  <2>3. OwnEffect(d)'
    BY <2>1, KeptEffect
  <2>4. OwnKey(d)'
    BY <2>1, KeptKey
  <2>5. OwnPages(d)'
    BY <2>1, KeptPages
  <2> QED BY <2>2, <2>3, <2>4, <2>5 DEF Own
<1>2. \A d \in Clients : Own(d)'
  BY <1>1
<1> QED BY <1>2 DEF IInv

LEMMA LaterOnly ==
  ASSUME TypeOK, NEW c \in Clients, Moves(c), calls'[c] \in Nat, calls[c] <= calls'[c]
  PROVE  Later
<1> SUFFICES ASSUME NEW d \in Clients PROVE calls'[d] \in Nat /\ calls[d] <= calls'[d]
  BY DEF Later
<1>1. CASE d = c
  BY <1>1
<1>2. CASE d # c
  <2>1. calls'[d] = calls[d] /\ calls[d] \in Nat
    BY <1>2 DEF Moves, Only, TypeOK
  <2> QED BY <2>1
<1> QED BY <1>1, <1>2

(* A call begins: nothing of it is on its way or has had an effect. *)
LEMMA BeginKeeps ==
  ASSUME IInv, NEW c \in Clients, NEW k \in Calling, Begin(c, k),
         k.step = "ready", k.cursor = NoCursor, k.shape.paged <=> k.task = "walk",
         k.task = "startup" => k.shape = Create /\ k.nonce = Default
  PROVE  IInv'
<1>1. /\ Moves(c) /\ call[c] \notin Calling
      /\ call'[c] = k /\ calls'[c] = calls[c] + 1 /\ rows'[c] = k.from /\ seen'[c] = {}
      /\ c \notin again' /\ c \notin excused'
      /\ UNCHANGED <<keys, wire, creds, out, reply, took, twice, asked>>
  BY BeginMoves DEF IInv
<1>2. /\ TypeOK /\ Effects /\ (\A r \in wire : Made(r)) /\ calls[c] \in Nat /\ k.from \in Nat
      /\ OwnRequest(c) /\ OwnKey(c)
  BY CallingFields DEF IInv, TypeOK, Own
<1>3. Later
  BY <1>1, <1>2, LaterOnly
<1>4. TypeOK'
  BY <1>1, <1>2, TypedNext
<1>5. Adds(c)
  BY <1>1 DEF Adds
<1>6. Effects'
  BY <1>1, <1>2, <1>3, QuietEffects
<1>7. \A r \in wire' : Made(r)'
  BY <1>1, <1>2, <1>3, QuietMade
<1>8. out'[c] = NoRequest /\ reply'[c] = NoReply
  BY <1>1, <1>2 DEF OwnRequest, Is
<1>9. OwnRequest(c)'
  BY <1>1, <1>8 DEF OwnRequest, Is
<1>10. OwnEffect(c)'
  <2>1. <<c, calls'[c]>> \notin took'
    BY <1>1, <1>2 DEF Effects
  <2>2. {r \in wire' : r.client = c /\ r.call = calls'[c]} = {}
    BY <1>1, <1>2 DEF Made
  <2> QED BY <2>1, <2>2 DEF OwnEffect
<1>11. OwnKey(c)'
  <2>1. creds'[c] = asked'[c] /\ reply'[c].status # "key"
    BY <1>1, <1>2, <1>8, Nothing DEF OwnKey
  <2> QED BY <1>1, <1>8, <2>1, KeyShapes, CallingFields DEF OwnKey
<1>12. OwnPages(c)'
  <2>1. seen'[c] = 1 .. 0 /\ Have(c)' = 0
    BY <1>1 DEF Have
  <2>2. reply'[c].status # "page"
    BY <1>8, Nothing
  <2> QED BY <1>1, <1>2, <2>1, <2>2 DEF OwnPages
<1> QED BY <1>1, <1>3, <1>4, <1>5, <1>6, <1>7, <1>9, <1>10, <1>11, <1>12, ProcessStep DEF Own

(* A call ends, or goes on to derive. *)
LEMMA StopsKeeps ==
  ASSUME IInv, NEW c \in Clients, Moves(c), Stops(c), rows'[c] \in Nat, OwnKey(c)',
         c \notin again', \E k \in Nat : seen'[c] = 1 .. k
  PROVE  IInv'
<1>1. /\ TypeOK /\ Effects /\ (\A r \in wire : Made(r)) /\ calls[c] \in Nat
      /\ OwnEffect(c)
  BY DEF IInv, TypeOK, Own
<1>2. /\ out'[c] = NoRequest /\ reply'[c] = NoReply
      /\ wire' \subseteq wire /\ calls' = calls /\ took' = took /\ twice' = twice
  BY DEF Stops, Moves
<1>3. \/ call'[c] \in Over
      \/ /\ call[c] \in Calling /\ call[c].task = "startup" /\ call[c].shape = Create
         /\ call'[c] \in Calling /\ call'[c].task = "startup" /\ call'[c].shape = Derive
         /\ call'[c].step = "ready"
  <2>1. Default \in Nonces /\ "startup" \in Tasks
    BY CallsAssumption DEF Tasks
  <2> QED BY <2>1, KeyShapes, BegunCalling DEF Stops
<1>4. Later
  BY <1>1, <1>2, LaterOnly
<1>5. TypeOK'
  BY <1>1, <1>2, <1>3, TypedNext
<1>6. Adds(c)
  BY <1>2 DEF Adds
<1>7. Effects'
  BY <1>1, <1>2, <1>4, QuietEffects
<1>8. \A r \in wire' : Made(r)'
  BY <1>1, <1>2, <1>4, QuietMade
<1>9. OwnRequest(c)'
  BY <1>2, <1>3, CallingFields DEF OwnRequest, Is
<1>10. OwnEffect(c)'
  <2>1. CASE call'[c] \in Over
    BY <2>1, CallingFields DEF OwnEffect, Is
  <2>2. CASE /\ call[c] \in Calling /\ call[c].shape = Create
             /\ call'[c] \in Calling /\ call'[c].shape = Derive
    <3>1. /\ <<c, calls[c]>> \notin took
          /\ \A r \in wire : r.client = c /\ r.call = calls[c] => r.shape.effect \in Repeatable
      BY <1>1, <2>2, KeyShapes DEF OwnEffect
    <3> QED BY <1>2, <2>2, <3>1, KeyShapes DEF OwnEffect
  <2> QED BY <1>3, <2>1, <2>2
<1>11. OwnPages(c)'
  <2>1. reply'[c].status # "page"
    BY <1>2, Nothing
  <2> QED BY <1>3, <2>1, KeyShapes, CallingFields DEF OwnPages
<1> QED BY <1>4, <1>5, <1>6, <1>7, <1>8, <1>9, <1>10, <1>11, ProcessStep DEF Own

(* What ends without a reply read, and without having been a start-up. *)
LEMMA KeyOver ==
  ASSUME NEW c \in Clients, call'[c] \in Over, creds'[c] = asked'[c], reply'[c] = NoReply,
         call'[c].task = "startup" /\ call'[c].result = "failed" => c \in excused'
  PROVE  OwnKey(c)'
BY CallingFields, Nothing DEF OwnKey

LEMMA KeyDeriving ==
  ASSUME NEW c \in Clients, call'[c] = Begun("startup", Derive, Default, 0),
         creds'[c] = asked'[c], reply'[c] = NoReply, c \notin excused' => Default \in keys'
  PROVE  OwnKey(c)'
<1>1. Default \in Nonces /\ "startup" \in Tasks
  BY CallsAssumption DEF Tasks
<1>2. /\ call'[c] \in Calling /\ call'[c].shape = Derive /\ call'[c].nonce = Default
  BY <1>1, KeyShapes, BegunCalling
<1> QED BY <1>2, KeyShapes, CallingFields, Nothing DEF OwnKey

(* Failed, where what is not excused is a refused creation. *)
LEMMA KeyFailed ==
  ASSUME IInv, NEW c \in Clients, Failed(c), call[c] \in Calling, Stops(c),
         creds'[c] = asked'[c], reply'[c] = NoReply, keys' = keys,
         call[c].task = "startup" /\ c \notin excused' => call[c].shape = Create /\ Default \in keys
  PROVE  OwnKey(c)'
<1>1. TypeOK
  BY DEF IInv
<1>2. CASE call[c].task = "startup" /\ call[c].shape = Create
  BY <1>1, <1>2, FailedEnds, KeyDeriving
<1>3. CASE ~(call[c].task = "startup" /\ call[c].shape = Create)
  <2>1. /\ call'[c] \in Over
        /\ call[c].task # "one" => call'[c] = Ended(call[c].task, "failed")
        /\ call[c].task = "one" => call'[c] = Idle
    BY <1>1, <1>3, FailedEnds
  <2>2. call'[c].task = "startup" => c \in excused'
    BY <1>3, <2>1, EndedOver, CallingFields DEF Tasks
  <2> QED BY <2>1, <2>2, KeyOver
<1> QED BY <1>2, <1>3

(* What excuses a start-up in Broken and PaceCut. *)
LEMMA VoidExcuses ==
  ASSUME NEW c \in Clients, OwnKey(c), call[c] \in Calling, ExcusedIfVoid(c)
  PROVE  call[c].task = "startup" /\ c \notin excused' => call[c].shape = Create /\ Default \in keys
BY DEF ExcusedIfVoid, OwnKey

(* The rows and the walk of a call that ends without another page. *)
LEMMA SameSeen ==
  ASSUME IInv, NEW c \in Clients, seen' = seen, again' = again, rows' = rows
  PROVE  rows'[c] \in Nat /\ c \notin again' /\ \E k \in Nat : seen'[c] = 1 .. k
BY DEF IInv, Own, OwnPages, TypeOK

LEMMA UnsignedKeeps ==
  ASSUME IInv, NEW c \in Clients, Unsigned(c)
  PROVE  IInv'
<1>1. TypeOK /\ OwnRequest(c) /\ OwnKey(c)
  BY DEF IInv, Own
<1>2. /\ Moves(c) /\ Stops(c) /\ Is(c, "ready") /\ call[c].shape.auth = "L2"
      /\ call[c].task # "one" => call'[c] = Ended(call[c].task, "failed")
      /\ call[c].task = "one" => call'[c] = Idle
      /\ UNCHANGED <<creds, asked, seen, again, rows, excused>>
  BY <1>1, UnsignedMoves
<1>3. call[c] \in Calling /\ call[c].task \in {"one", "walk"}
  BY <1>1, <1>2, KeyShapes, CallingFields DEF Is, OwnKey, Tasks
<1>4. call'[c] \in Over /\ call'[c].task # "startup"
  BY <1>2, <1>3, EndedOver DEF Tasks
<1>5. OwnKey(c)'
  BY <1>1, <1>2, <1>4, KeyOver DEF OwnKey, Stops
<1> QED BY <1>2, <1>5, SameSeen, StopsKeeps

LEMMA PaceCutKeeps ==
  ASSUME IInv, NEW c \in Clients, PaceCut(c)
  PROVE  IInv'
<1>1. TypeOK /\ OwnRequest(c) /\ OwnKey(c)
  BY DEF IInv, Own
<1>2. /\ Moves(c) /\ Stops(c) /\ call[c] \in Calling /\ Failed(c) /\ ExcusedIfVoid(c)
      /\ UNCHANGED <<creds, asked, seen, again, rows>>
  BY <1>1, PaceCutMoves DEF Is
<1>3. /\ creds'[c] = asked'[c] /\ reply'[c] = NoReply /\ keys' = keys
  BY <1>1, <1>2 DEF OwnKey, Stops, Moves
<1>4. OwnKey(c)'
  BY <1>1, <1>2, <1>3, VoidExcuses, KeyFailed
<1> QED BY <1>2, <1>4, SameSeen, StopsKeeps

LEMMA GiveUpKeeps ==
  ASSUME IInv, NEW c \in Clients, Broken(c), ~(call[c].attempt < ExtraAttempts(out[c]))
  PROVE  IInv'
<1>1. TypeOK /\ OwnKey(c)
  BY DEF IInv, Own
<1>2. /\ Moves(c) /\ Stops(c) /\ call[c] \in Calling /\ Failed(c) /\ ExcusedIfVoid(c)
      /\ UNCHANGED <<creds, asked, seen, again, rows>>
  BY <1>1, GiveUpMoves DEF Is
<1>3. /\ creds'[c] = asked'[c] /\ reply'[c] = NoReply /\ keys' = keys
  BY <1>1, <1>2 DEF OwnKey, Stops, Moves
<1>4. OwnKey(c)'
  BY <1>1, <1>2, <1>3, VoidExcuses, KeyFailed
<1> QED BY <1>2, <1>4, SameSeen, StopsKeeps

LEMMA ReceiveKeeps ==
  ASSUME IInv, NEW c \in Clients, Receive(c)
  PROVE  IInv'
<1>1. TypeOK /\ OwnRequest(c) /\ OwnKey(c)
  BY DEF IInv, Own
<1>2. /\ Moves(c) /\ Stops(c) /\ Is(c, "sent") /\ call[c] \in Calling
      /\ call[c].task # "walk" /\ reply[c] # NoReply
      /\ IF reply[c].status = "key" \/ (reply[c].status \in {"ok", "empty"} /\ call[c].task = "one")
         THEN Finish(c, "done") ELSE Failed(c)
      /\ excused' = IF reply[c].status = "unauthorized" THEN excused \cup {c} ELSE excused
      /\ IF reply[c].status = "key" /\ call[c].shape.auth = "L1"
         THEN creds'[c] = reply[c].nonce /\ asked'[c] = call[c].nonce
         ELSE creds'[c] = creds[c] /\ asked'[c] = asked[c]
      /\ UNCHANGED <<seen, again, rows>>
  BY <1>1, ReceiveMoves DEF Is
<1>3. /\ creds'[c] = asked'[c] /\ reply'[c] = NoReply /\ keys' = keys
  BY <1>1, <1>2 DEF OwnKey, Stops, Moves
<1>4. CASE reply[c].status = "key" \/ (reply[c].status \in {"ok", "empty"} /\ call[c].task = "one")
  <2>1. call'[c] \in Over /\ (call'[c] = Idle \/ call'[c].result = "done")
    BY <1>1, <1>2, <1>4, FinishEnds, EndedOver, CallingFields
  <2>2. OwnKey(c)'
    BY <1>3, <2>1, EndedOver, KeyOver
  <2> QED BY <1>2, <2>2, SameSeen, StopsKeeps
<1>5. CASE ~(reply[c].status = "key" \/ (reply[c].status \in {"ok", "empty"} /\ call[c].task = "one"))
  <2>1. Failed(c)
    BY <1>2, <1>5
  <2>2. call[c].task = "startup" /\ c \notin excused' => call[c].shape = Create /\ Default \in keys
    BY <1>1, <1>2, <1>5 DEF OwnKey
  <2>3. OwnKey(c)'
    BY <1>2, <1>3, <2>1, <2>2, KeyFailed
  <2> QED BY <1>2, <2>3, SameSeen, StopsKeeps
<1> QED BY <1>4, <1>5

LEMMA TurnFailsKeeps ==
  ASSUME IInv, NEW c \in Clients, TurnFails(c)
  PROVE  IInv'
<1>1. TypeOK /\ OwnKey(c)
  BY DEF IInv, Own
<1>2. /\ Moves(c) /\ Stops(c) /\ call'[c] = Ended("walk", "failed")
      /\ UNCHANGED <<rows, creds, asked, seen, again, excused>>
  BY <1>1, TurnFailsMoves
<1>3. call'[c] \in Over /\ call'[c].task # "startup"
  BY <1>2, EndedOver DEF Tasks
<1>4. OwnKey(c)'
  BY <1>1, <1>2, <1>3, KeyOver DEF OwnKey, Stops
<1> QED BY <1>2, <1>4, SameSeen, StopsKeeps

LEMMA CrashKeeps ==
  ASSUME IInv, NEW c \in Clients, Crash(c)
  PROVE  IInv'
<1>1. TypeOK /\ c \notin again
  BY DEF IInv, Own, OwnPages
<1>2. /\ Moves(c) /\ Stops(c) /\ call'[c] = Idle
      /\ rows'[c] = 0 /\ creds'[c] = NoKey /\ asked'[c] = NoKey /\ seen'[c] = {}
      /\ UNCHANGED <<again, excused>>
  BY <1>1, CrashMoves
<1>3. OwnKey(c)'
  BY <1>2, EndedOver, KeyOver DEF Stops
<1>4. seen'[c] = 1 .. 0
  BY <1>2
<1>5. rows'[c] \in Nat /\ c \notin again' /\ \E k \in Nat : seen'[c] = 1 .. k
  BY <1>1, <1>2, <1>4
<1> QED BY <1>2, <1>3, <1>5, StopsKeeps

(* A call sends a request beside none, or where all may be had twice. *)
LEMMA SendEffects ==
  ASSUME TypeOK, Effects, NEW c \in Clients, NEW r,
         wire' \subseteq wire \cup {r}, r.client = c, r.call = calls[c],
         calls' = calls, took' = took, twice' = twice, <<c, calls[c]>> \notin took,
         \A q \in wire : q.client = c /\ q.call = calls[c] =>
           q.shape.effect \in Repeatable /\ r.shape.effect \in Repeatable
  PROVE  Effects'
<1>1. ~twice' /\ \A w \in took' : \E d \in Clients, n \in Nat : w = <<d, n>> /\ n <= calls'[d]
  BY DEF Effects
<1>2. \A q \in wire' : <<q.client, q.call>> \notin took'
  BY DEF Effects
<1>3. \A p, q \in wire' :
        p.client = q.client /\ p.call = q.call => p = q \/ p.shape.effect \in Repeatable
  BY DEF Effects
<1> QED BY <1>1, <1>2, <1>3 DEF Effects

(* A call that goes on with what it was asked. *)
Continues(c) ==
  /\ call[c] \in Calling /\ call'[c] \in Calling
  /\ call'[c].task = call[c].task /\ call'[c].shape = call[c].shape
  /\ call'[c].nonce = call[c].nonce /\ call'[c].from = call[c].from
  /\ UNCHANGED <<keys, rows, creds, calls, took, twice, asked, excused>>

LEMMA ContinuesKey ==
  ASSUME NEW c \in Clients, Continues(c), OwnKey(c), reply'[c] = reply[c] \/ reply'[c] = NoReply
  PROVE  OwnKey(c)'
BY CallingFields, Nothing DEF Continues, OwnKey

LEMMA ContinuesPages ==
  ASSUME NEW c \in Clients, Continues(c), OwnPages(c), seen' = seen, again' = again,
         call'[c].cursor = call[c].cursor, reply'[c] = reply[c] \/ reply'[c] = NoReply
  PROVE  OwnPages(c)'
<1>1. Have(c)' = Have(c)
  BY DEF Have
<1>2. CASE reply'[c] = reply[c]
  BY <1>1, <1>2 DEF Continues, OwnPages, Onward
<1>3. CASE reply'[c] = NoReply
  BY <1>1, <1>3, Nothing DEF Continues, OwnPages
<1> QED BY <1>2, <1>3

LEMMA ContinuesRequest ==
  ASSUME TypeOK, Later, NEW c \in Clients, Continues(c), call'[c].step = "sent",
         call'[c].cursor = call[c].cursor, NEW q, NEW r, SameRequest(q, r), Made(q),
         q.client = c, q.call = calls[c], q.shape = call[c].shape,
         q.shape.paged => q.query = cursorOrStart(call[c].cursor),
         q.shape.auth = "L1" => q.headers.nonce = call[c].nonce,
         out'[c] = r
  PROVE  Made(r)' /\ OwnRequest(c)'
<1>1. Made(r)'
  BY SameMade, LaterMade
<1>2. Made(out[c])'
  BY <1>1 DEF Made
<1> QED BY <1>1, <1>2 DEF OwnRequest, Is, Continues, SameRequest

LEMMA SendKeeps ==
  ASSUME IInv, NEW c \in Clients, Send(c)
  PROVE  IInv'
<1>1. /\ TypeOK /\ Effects /\ (\A q \in wire : Made(q)) /\ calls[c] \in Nat /\ rows[c] \in Nat
      /\ OwnRequest(c) /\ OwnEffect(c) /\ OwnKey(c) /\ OwnPages(c)
  BY DEF IInv, TypeOK, Own
<1>2. /\ Moves(c) /\ Is(c, "ready") /\ call[c] \in Calling
      /\ call'[c] = [call[c] EXCEPT !.step = "sent"]
      /\ \E r : SameRequest(Request(c), r) /\ out'[c] = r /\ wire' = wire \cup {r}
      /\ UNCHANGED <<keys, rows, creds, calls, reply, seen, took, twice, again, asked, excused>>
  BY <1>1, SendMoves DEF Is
<1>3. /\ call'[c] \in Calling /\ call'[c].task = call[c].task /\ call'[c].step = "sent"
      /\ call'[c].shape = call[c].shape /\ call'[c].nonce = call[c].nonce
      /\ call'[c].cursor = call[c].cursor /\ call'[c].from = call[c].from
  BY <1>2, SentCalling
<1>4. PICK r : SameRequest(Request(c), r) /\ out'[c] = r /\ wire' = wire \cup {r}
  BY <1>2
<1>5. /\ Made(Request(c)) /\ Request(c).client = c /\ Request(c).call = calls[c]
      /\ Request(c).shape = call[c].shape
      /\ Request(c).shape.paged => Request(c).query = cursorOrStart(call[c].cursor)
      /\ Request(c).shape.auth = "L1" => Request(c).headers.nonce = call[c].nonce
  BY <1>1, <1>2, RequestMade
<1>6. r.client = c /\ r.call = calls[c] /\ r.shape = call[c].shape
  BY <1>4, <1>5 DEF SameRequest
<1>7. Continues(c)
  BY <1>2, <1>3 DEF Continues
<1>8. Later
  BY <1>1, <1>2, LaterOnly
<1>9. TypeOK'
  BY <1>1, <1>2, <1>3, TypedNext
<1>10. Made(r)' /\ OwnRequest(c)'
  BY <1>1, <1>3, <1>4, <1>5, <1>7, <1>8, ContinuesRequest
<1>11. \A q \in wire' : Made(q)'
  BY <1>1, <1>4, <1>8, <1>10, LaterMade
<1>12. <<c, calls[c]>> \notin took
  BY <1>1, <1>2 DEF OwnEffect
<1>13. \A q \in wire : q.client = c /\ q.call = calls[c] =>
         q.shape.effect \in Repeatable /\ r.shape.effect \in Repeatable
  BY <1>1, <1>2, <1>6 DEF OwnEffect
<1>14. Effects'
  BY <1>1, <1>2, <1>4, <1>6, <1>12, <1>13, SendEffects
<1>15. OwnEffect(c)'
  BY <1>1, <1>2, <1>3, <1>4, <1>6 DEF OwnEffect, Is
<1>16. Adds(c)
  BY <1>4, <1>6 DEF Adds
<1>17. OwnKey(c)' /\ OwnPages(c)'
  BY <1>1, <1>2, <1>3, <1>7, ContinuesKey, ContinuesPages
<1> QED BY <1>2, <1>8, <1>9, <1>10, <1>11, <1>14, <1>15, <1>16, <1>17, ProcessStep DEF Own

LEMMA ResendKeeps ==
  ASSUME IInv, NEW c \in Clients, Broken(c), call[c].attempt < ExtraAttempts(out[c])
  PROVE  IInv'
<1>1. /\ TypeOK /\ Effects /\ (\A q \in wire : Made(q)) /\ calls[c] \in Nat /\ rows[c] \in Nat
      /\ OwnRequest(c) /\ OwnEffect(c) /\ OwnKey(c) /\ OwnPages(c)
  BY DEF IInv, TypeOK, Own
<1>2. /\ Moves(c) /\ Is(c, "sent") /\ call[c] \in Calling /\ out[c].shape.method = "GET"
      /\ call'[c] = [call[c] EXCEPT !.attempt = @ + 1] /\ reply'[c] = NoReply
      /\ \E r : SameRequest(out[c], r) /\ out'[c] = r /\ wire' = Abandoned(out[c]) \cup {r}
      /\ UNCHANGED <<keys, rows, creds, calls, seen, took, twice, again, asked, excused>>
  BY <1>1, ResendMoves DEF Is
<1>3. /\ call'[c] \in Calling /\ call'[c].task = call[c].task /\ call'[c].step = "sent"
      /\ call'[c].shape = call[c].shape /\ call'[c].nonce = call[c].nonce
      /\ call'[c].cursor = call[c].cursor /\ call'[c].from = call[c].from
  BY <1>2, RetriedCalling DEF Is
<1>4. PICK r : SameRequest(out[c], r) /\ out'[c] = r /\ wire' = Abandoned(out[c]) \cup {r}
  BY <1>2
<1>5. wire' \subseteq wire \cup {r}
  BY <1>4 DEF Abandoned
<1>6. /\ Made(out[c]) /\ out[c].client = c /\ out[c].call = calls[c]
      /\ out[c].shape = call[c].shape /\ out[c].shape \in Shapes
      /\ out[c].shape.paged => out[c].query = cursorOrStart(call[c].cursor)
      /\ out[c].shape.auth = "L1" => out[c].headers.nonce = call[c].nonce
  BY <1>1, <1>2 DEF OwnRequest, Made
<1>7. r.client = c /\ r.call = calls[c] /\ r.shape = call[c].shape
  BY <1>4, <1>6 DEF SameRequest
<1>8. call[c].shape.effect \in Repeatable
  BY <1>2, <1>6, ShapesSafe
<1>9. Continues(c)
  BY <1>2, <1>3 DEF Continues
<1>10. Later
  BY <1>1, <1>2, LaterOnly
<1>11. TypeOK'
  BY <1>1, <1>2, <1>3, TypedNext
<1>12. Made(r)' /\ OwnRequest(c)'
  BY <1>1, <1>3, <1>4, <1>6, <1>9, <1>10, ContinuesRequest
<1>13. \A q \in wire' : Made(q)'
  BY <1>1, <1>5, <1>10, <1>12, LaterMade
<1>14. /\ <<c, calls[c]>> \notin took
       /\ \A q \in wire : q.client = c /\ q.call = calls[c] => q.shape.effect \in Repeatable
  BY <1>1, <1>2, <1>8 DEF OwnEffect
<1>15. Effects'
  BY <1>1, <1>2, <1>5, <1>7, <1>8, <1>14, SendEffects
<1>16. OwnEffect(c)'
  BY <1>2, <1>3, <1>5, <1>7, <1>8, <1>14 DEF OwnEffect, Is
<1>17. Adds(c)
  BY <1>5, <1>7 DEF Adds
<1>18. OwnKey(c)' /\ OwnPages(c)'
  BY <1>1, <1>2, <1>3, <1>9, ContinuesKey, ContinuesPages
<1> QED BY <1>2, <1>10, <1>11, <1>12, <1>13, <1>15, <1>16, <1>17, <1>18, ProcessStep DEF Own

(* The page a walk has been answered goes on from the rows it has. *)
LEMMA PageRead ==
  ASSUME NEW c \in Clients, OwnPages(c), rows[c] \in Nat, call[c] \in Calling,
         call[c].task = "walk", reply[c].status = "page"
  PROVE  \E to \in Nat :
           /\ seen[c] \cap reply[c].rows = {} /\ seen[c] \cup reply[c].rows = 1 .. to
           /\ to <= rows[c] /\ call[c].from <= rows[c]
           /\ \/ reply[c].next = Offset(to) /\ Have(c) < to /\ Have(c) \in Nat
              \/ reply[c].next \in {End, NoCursor, call[c].cursor} /\ call[c].from <= to
<1>1. Have(c) \in Nat
  BY DEF OwnPages, Have, NoCursor
<1>2. PICK to \in Nat : to <= rows[c] /\ Onward(c, to)
  BY DEF OwnPages
<1>3. seen[c] = 1 .. Have(c) /\ call[c].from <= rows[c]
  BY DEF OwnPages
<1>4. seen[c] \cap reply[c].rows = {} /\ seen[c] \cup reply[c].rows = 1 .. to
  BY <1>1, <1>2, <1>3 DEF Onward
<1> QED BY <1>1, <1>2, <1>3, <1>4 DEF Onward

LEMMA Offsets ==
  \A n \in Nat : Offset(n) \in Cursors /\ Offset(n) # NoCursor /\ Offset(n) # End /\ Offset(n).offset = n
<1> SUFFICES ASSUME NEW n \in Nat
             PROVE  /\ Offset(n) \in Cursors /\ Offset(n) # NoCursor /\ Offset(n) # End
                    /\ Offset(n).offset = n
  OBVIOUS
<1>1. Offset(n) \in [offset : Nat] /\ Offset(n).offset = n
  BY DEF Offset
<1>2. Offset(n) # NoCursor /\ Offset(n) # End
  <2>1. DOMAIN Offset(n) = {"offset"} /\ DOMAIN NoCursor = {"cursor"} /\ DOMAIN End = {"cursor"}
    BY DEF Offset, NoCursor, End
  <2>2. "offset" # "cursor"
    OBVIOUS
  <2> QED BY <2>1, <2>2
<1> QED BY <1>1, <1>2 DEF Cursors

LEMMA TurnKeeps ==
  ASSUME IInv, NEW c \in Clients, Turn(c), ~LastPage(reply[c].next, call[c].cursor)
  PROVE  IInv'
<1>1. /\ TypeOK /\ Effects /\ (\A q \in wire : Made(q)) /\ calls[c] \in Nat /\ rows[c] \in Nat
      /\ OwnRequest(c) /\ OwnEffect(c) /\ OwnKey(c) /\ OwnPages(c)
  BY DEF IInv, TypeOK, Own
<1>2. /\ Moves(c) /\ Is(c, "sent") /\ call[c] \in Calling
      /\ call[c].task = "walk" /\ reply[c].status = "page"
      /\ call'[c] = [call[c] EXCEPT !.step = "ready", !.attempt = 0, !.cursor = reply[c].next]
      /\ out'[c] = NoRequest /\ reply'[c] = NoReply
      /\ seen'[c] = seen[c] \cup reply[c].rows
      /\ seen[c] \cap reply[c].rows = {} => again' = again
      /\ UNCHANGED <<keys, rows, wire, creds, calls, asked, took, twice, excused>>
  BY <1>1, TurnMoves DEF Is
<1>3. PICK to \in Nat :
        /\ seen[c] \cap reply[c].rows = {} /\ seen[c] \cup reply[c].rows = 1 .. to
        /\ to <= rows[c] /\ call[c].from <= rows[c]
        /\ reply[c].next = Offset(to) /\ Have(c) < to /\ Have(c) \in Nat
  BY <1>1, <1>2, PageRead DEF LastPage
<1>4. /\ call'[c] \in Calling /\ call'[c].task = call[c].task /\ call'[c].step = "ready"
      /\ call'[c].shape = call[c].shape /\ call'[c].nonce = call[c].nonce
      /\ call'[c].cursor = Offset(to) /\ call'[c].from = call[c].from
  <2> DEFINE k == [call[c] EXCEPT !.step = "ready", !.attempt = 0, !.cursor = Offset(to)]
  <2>1. Offset(to) \in Cursors /\ call[c] \in Calling
    BY <1>2, Offsets
  <2>2. call'[c] = k
    BY <1>2, <1>3
  <2>3. /\ k \in Calling /\ k.task = call[c].task /\ k.step = "ready" /\ k.shape = call[c].shape
        /\ k.nonce = call[c].nonce /\ k.cursor = Offset(to) /\ k.from = call[c].from
    BY <2>1, TurnedCalling
  <2> HIDE DEF k
  <2> QED BY <2>2, <2>3
<1>5. call[c].shape.paged /\ call[c].shape.effect \in Repeatable
  BY <1>1, <1>2, ShapesSafe, CallingFields DEF OwnPages
<1>6. Continues(c)
  BY <1>2, <1>4 DEF Continues
<1>7. Later
  BY <1>1, <1>2, LaterOnly
<1>8. TypeOK'
  BY <1>1, <1>2, <1>4, TypedNext
<1>9. Effects'
  BY <1>1, <1>2, <1>7, QuietEffects
<1>10. \A q \in wire' : Made(q)'
  BY <1>1, <1>2, <1>7, QuietMade
<1>11. OwnRequest(c)'
  BY <1>2, <1>4 DEF OwnRequest, Is
<1>12. OwnEffect(c)'
  BY <1>1, <1>2, <1>4, <1>5 DEF OwnEffect, Is
<1>13. OwnKey(c)'
  BY <1>1, <1>2, <1>6, ContinuesKey
<1>14. OwnPages(c)'
  <2>1. Have(c)' = to /\ to # 0
    BY <1>3, <1>4, Offsets DEF Have
  <2>2. Offset(to) \in [offset : Nat \ {0}]
    BY <2>1 DEF Offset
  <2>3. seen'[c] = 1 .. to /\ c \notin again' /\ reply'[c].status # "page"
    BY <1>1, <1>2, <1>3, Nothing DEF OwnPages
  <2> QED BY <1>2, <1>3, <1>4, <1>5, <2>1, <2>2, <2>3 DEF OwnPages
<1>15. Adds(c)
  BY <1>2 DEF Adds
<1> QED BY <1>2, <1>7, <1>8, <1>9, <1>10, <1>11, <1>12, <1>13, <1>14, <1>15, ProcessStep DEF Own

LEMMA LastTurnKeeps ==
  ASSUME IInv, NEW c \in Clients, Turn(c), LastPage(reply[c].next, call[c].cursor)
  PROVE  IInv'
<1>1. TypeOK /\ OwnKey(c) /\ OwnPages(c) /\ rows[c] \in Nat
  BY DEF IInv, Own, TypeOK
<1>2. /\ Moves(c) /\ Stops(c) /\ call[c] \in Calling
      /\ call[c].task = "walk" /\ reply[c].status = "page"
      /\ call'[c] = Ended("walk", "done")
      /\ seen'[c] = seen[c] \cup reply[c].rows
      /\ seen[c] \cap reply[c].rows = {} => again' = again
      /\ UNCHANGED <<rows, creds, asked, excused>>
  BY <1>1, LastTurnMoves DEF Is
<1>3. rows'[c] \in Nat /\ c \notin again' /\ \E k \in Nat : seen'[c] = 1 .. k
  BY <1>1, <1>2, PageRead DEF OwnPages
<1>4. call'[c] \in Over /\ call'[c].task # "startup"
  BY <1>2, EndedOver DEF Tasks
<1>5. OwnKey(c)'
  BY <1>1, <1>2, <1>4, KeyOver DEF OwnKey, Stops
<1> QED BY <1>2, <1>3, <1>5, StopsKeeps

LEMMA GrowKeeps ==
  ASSUME IInv, NEW c \in Clients, Grow(c)
  PROVE  IInv'
<1>1. /\ TypeOK /\ Effects /\ (\A q \in wire : Made(q)) /\ calls[c] \in Nat /\ rows[c] \in Nat
      /\ OwnRequest(c) /\ OwnEffect(c) /\ OwnKey(c) /\ OwnPages(c) /\ call[c] \in Calling \cup Over
  BY DEF IInv, TypeOK, Own
<1>2. /\ Moves(c) /\ rows'[c] = rows[c] + 1
      /\ UNCHANGED <<keys, wire, creds, call, calls, out, reply, seen,
                     took, twice, again, asked, excused>>
  BY <1>1, GrowMoves
<1>3. Later
  BY <1>1, <1>2, LaterOnly
<1>4. TypeOK'
  BY <1>1, <1>2, TypedNext
<1>5. Effects'
  BY <1>1, <1>2, <1>3, QuietEffects
<1>6. \A q \in wire' : Made(q)'
  BY <1>1, <1>2, <1>3, QuietMade
<1>7. OwnRequest(c)'
  <2>1. CASE Is(c, "sent")
    <3>1. Made(out[c])'
      <4>1. Made(out[c])
        BY <1>1, <2>1 DEF OwnRequest
      <4> QED BY <1>2, <4>1 DEF Made, Genuine
    <3> QED BY <1>1, <1>2, <2>1, <3>1 DEF OwnRequest, Is
  <2>2. CASE ~Is(c, "sent")
    BY <1>1, <1>2, <2>2 DEF OwnRequest, Is
  <2> QED BY <2>1, <2>2
<1>8. OwnEffect(c)' /\ OwnKey(c)'
  BY <1>1, <1>2 DEF OwnEffect, OwnKey, Is
<1>9. OwnPages(c)'
  <2>1. Have(c)' = Have(c)
    BY <1>2 DEF Have
  <2>2. \A to \in Nat : Onward(c, to)' <=> Onward(c, to)
    BY <1>2, <2>1 DEF Onward
  <2>3. \A n \in Nat : n <= rows[c] => n <= rows'[c]
    BY <1>1, <1>2
  <2>4. call[c] \in Calling /\ call[c].task = "walk" =>
          Have(c) \in Nat /\ call[c].from \in Nat
    BY <1>1, CallingFields DEF OwnPages, Have, NoCursor
  <2> QED BY <1>1, <1>2, <2>1, <2>2, <2>3, <2>4 DEF OwnPages
<1>10. Adds(c)
  BY <1>2 DEF Adds
<1> QED BY <1>2, <1>3, <1>4, <1>5, <1>6, <1>7, <1>8, <1>9, <1>10, ProcessStep DEF Own

(* What the exchange answers. *)
LEMMA AnswersRead ==
  ASSUME NEW r, NEW a \in Answers(r)
  PROVE  /\ a.status = "key" => r.shape \in {Create, Derive} /\ a.nonce = r.headers.nonce
         /\ a.status = "page" =>
              r.shape \notin {Create, Derive} /\ r.shape.paged /\ a \in Page(r.client, r.query)
         /\ r.shape = Create =>
              a.status = "key" \/ (a.status \in {"refused", "empty"} /\ r.headers.nonce \in keys)
         /\ r.shape = Derive /\ r.headers.nonce \in keys => a.status = "key"
<1>1. CASE r.shape = Create
  BY <1>1, KeyShapes DEF Answers
<1>2. CASE r.shape = Derive
  BY <1>2, KeyShapes DEF Answers
<1>3. CASE r.shape \notin {Create, Derive} /\ r.shape.paged
  <2>1. a \in Page(r.client, r.query)
    BY <1>3 DEF Answers
  <2>2. a.status = "page"
    BY <2>1 DEF Page
  <2> QED BY <1>3, <2>1, <2>2
<1>4. CASE r.shape \notin {Create, Derive} /\ ~r.shape.paged
  BY <1>4 DEF Answers
<1> QED BY <1>1, <1>2, <1>3, <1>4

LEMMA PageAnswered ==
  ASSUME CallsAssumption, NEW c \in Clients, NEW cursor, NEW a \in Page(c, cursor),
         cursor.offset \in Nat, rows[c] \in Nat, cursor.offset <= rows[c]
  PROVE  \E to \in Nat :
           /\ to <= rows[c] /\ cursor.offset <= to /\ a.rows = cursor.offset + 1 .. to
           /\ \/ a.next = Offset(to) /\ cursor.offset < to
              \/ a.next \in {End, NoCursor} \cup ({cursor} \ {Start}) /\ to = rows[c]
<1> DEFINE to == IF cursor.offset + PageSize < rows[c] THEN cursor.offset + PageSize ELSE rows[c]
<1>1. PageSize \in Nat \ {0}
  BY DEF CallsAssumption
<1>2. to \in Nat /\ to <= rows[c] /\ cursor.offset <= to /\ (to < rows[c] => cursor.offset < to)
  BY <1>1
<1>3. /\ a.rows = cursor.offset + 1 .. to
      /\ a.next \in IF to < rows[c] THEN {Offset(to)} ELSE {End, NoCursor} \cup ({cursor} \ {Start})
  BY DEF Page
<1> HIDE DEF to
<1>4. CASE to < rows[c]
  BY <1>2, <1>3, <1>4
<1>5. CASE ~(to < rows[c])
  <2>1. to = rows[c]
    BY <1>2, <1>5
  <2> QED BY <1>2, <1>3, <1>5, <2>1
<1> QED BY <1>4, <1>5

LEMMA ServeKeeps ==
  ASSUME IInv, NEW r \in wire, Serve(r)
  PROVE  IInv'
<1>1. /\ TypeOK /\ Effects /\ (\A q \in wire : Made(q)) /\ Made(r)
      /\ r.client \in Clients /\ r.call \in Nat /\ r.call <= calls[r.client] /\ r.shape \in Shapes
  BY DEF IInv, Made
<1>2. /\ Only(reply, reply', r.client) /\ wire' = wire \ {r}
      /\ out[r.client] # r => reply' = reply
      /\ \/ /\ out[r.client] = r => reply'[r.client].status = "unauthorized"
            /\ UNCHANGED <<keys, took, twice, excused>>
         \/ /\ out[r.client] = r => reply'[r.client] \in Answers(r)
            /\ Effect(r)
            /\ took' = IF r.shape.effect \in Repeatable THEN took ELSE took \cup {<<r.client, r.call>>}
            /\ twice' = (twice \/ <<r.client, r.call>> \in took)
            /\ excused' = IF r.shape.effect = "revoke" THEN Clients ELSE excused
      /\ UNCHANGED <<rows, creds, call, calls, out, seen, again, asked>>
  BY <1>1, ServeMoves
<1>3. TypeOK'
  BY <1>1, <1>2 DEF TypeOK, Only, PerClient
<1>4. \A q \in wire' : Made(q)'
  BY <1>1, <1>2 DEF Made, Genuine
<1>5. /\ took' \in {took, took \cup {<<r.client, r.call>>}}
      /\ r.shape.effect \in Repeatable => took' = took
      /\ ~twice'
  <2>1. ~twice /\ <<r.client, r.call>> \notin took
    BY <1>1 DEF Effects
  <2>2. ~twice'
    <3>1. twice' = twice \/ twice' = (twice \/ <<r.client, r.call>> \in took)
      BY <1>2
    <3> QED BY <2>1, <3>1, Zenon
  <2>3. /\ took' \in {took, took \cup {<<r.client, r.call>>}}
        /\ r.shape.effect \in Repeatable => took' = took
    BY <1>2
  <2> QED BY <2>2, <2>3
<1>6. Effects'
  <2>1. \A w \in took' : \E c \in Clients, n \in Nat : w = <<c, n>> /\ n <= calls'[c]
    BY <1>1, <1>2, <1>5 DEF Effects
  <2>2. \A q \in wire' : <<q.client, q.call>> \notin took'
    BY <1>1, <1>2, <1>5 DEF Effects
  <2>3. \A p, q \in wire' :
          p.client = q.client /\ p.call = q.call => p = q \/ p.shape.effect \in Repeatable
    BY <1>1, <1>2 DEF Effects
  <2> QED BY <1>5, <2>1, <2>2, <2>3 DEF Effects
<1>7. ASSUME NEW d \in Clients PROVE Own(d)'
  <2>1. /\ OwnRequest(d) /\ OwnEffect(d) /\ OwnKey(d) /\ OwnPages(d)
        /\ call[d] \in Calling \cup Over /\ rows[d] \in Nat
    BY <1>1 DEF IInv, Own, TypeOK
  <2>2. \/ reply'[d] = reply[d]
        \/ /\ d = r.client /\ out[d] = r /\ Is(d, "sent") /\ call[d] \in Calling
           /\ r.shape = call[d].shape
           /\ r.shape.auth = "L1" => r.headers.nonce = call[d].nonce
           /\ r.shape.paged => r.query = cursorOrStart(call[d].cursor)
    <3>1. reply'[d] # reply[d] => d = r.client /\ out[d] = r
      BY <1>2 DEF Only
    <3>2. out[d] = r => Is(d, "sent")
      BY <1>1, <2>1, Nothing DEF OwnRequest, Made
    <3> QED BY <2>1, <3>1, <3>2 DEF OwnRequest, Is
  <2>3. OwnRequest(d)'
    <3>1. CASE Is(d, "sent")
      <4>1. Made(out[d])'
        <5>1. Made(out[d])
          BY <2>1, <3>1 DEF OwnRequest
        <5> QED BY <1>2, <5>1 DEF Made, Genuine
      <4> QED BY <1>2, <2>1, <3>1, <4>1 DEF OwnRequest, Is
    <3>2. CASE ~Is(d, "sent")
      BY <1>2, <2>1, <2>2, <3>2 DEF OwnRequest, Is
    <3> QED BY <3>1, <3>2
  <2>4. OwnEffect(d)'
    <3>1. CASE r.client = d /\ r.call = calls[d]
      <4>1. took' = took \/ ~(call[d] \in Calling)
              \/ (call[d].step # "ready" /\ call[d].shape.effect \notin Repeatable)
        BY <1>5, <2>1, <3>1 DEF OwnEffect, Is
      <4> QED BY <1>2, <2>1, <4>1 DEF OwnEffect, Is
    <3>2. CASE ~(r.client = d /\ r.call = calls[d])
      <4>1. <<d, calls[d]>> \in took' => <<d, calls[d]>> \in took
        BY <1>5, <3>2
      <4> QED BY <1>2, <2>1, <4>1 DEF OwnEffect, Is
    <3> QED BY <3>1, <3>2
  <2>5. OwnKey(d)'
    <3>1. (Default \in keys => Default \in keys' \/ d \in excused') /\ (d \in excused => d \in excused')
      BY <1>2 DEF Effect
    <3>2. CASE reply'[d] = reply[d]
      BY <1>2, <2>1, <3>1, <3>2 DEF OwnKey
    <3>3. CASE reply'[d].status = "unauthorized"
      BY <1>2, <2>1, <3>1, <3>3 DEF OwnKey
    <3>4. CASE /\ d = r.client /\ out[d] = r /\ call[d] \in Calling
               /\ r.shape = call[d].shape
               /\ r.shape.auth = "L1" => r.headers.nonce = call[d].nonce
               /\ reply'[d] \in Answers(r)
      <4>1. /\ reply'[d].status = "key" =>
                 r.shape \in {Create, Derive} /\ reply'[d].nonce = r.headers.nonce
            /\ r.shape = Create => reply'[d].status = "key"
                 \/ (reply'[d].status \in {"refused", "empty"} /\ r.headers.nonce \in keys)
            /\ r.shape = Derive /\ r.headers.nonce \in keys => reply'[d].status = "key"
        BY <3>4, AnswersRead
      <4>2. r.shape \in {Create, Derive} => r.headers.nonce = call[d].nonce
        BY <3>4, KeyShapes
      <4>3. call[d].task = "startup" => r.shape \in {Create, Derive} /\ call[d].nonce = Default
        BY <2>1, <3>4 DEF OwnKey
      <4>4. r.shape = Create => keys \subseteq keys' \/ d \in excused'
        BY <1>2, KeyShapes DEF Effect
      <4>5. reply'[d].status = "key" => reply'[d].nonce = call'[d].nonce
        BY <1>2, <4>1, <4>2
      <4>6. /\ creds'[d] = asked'[d] /\ call'[d] = call[d] /\ call[d] \notin Over
        BY <1>2, <2>1, <3>4, CallingFields DEF OwnKey
      <4>7. call[d].task = "startup" /\ r.shape = Derive /\ d \notin excused' =>
              Default \in keys' /\ reply'[d].status = "key"
        BY <2>1, <3>1, <3>4, <4>1, <4>2, <4>3 DEF OwnKey
      <4>8. call[d].task = "startup" /\ r.shape = Create =>
              \/ reply'[d].status = "key"
              \/ reply'[d].status \in {"refused", "empty"} /\ (d \notin excused' => Default \in keys')
        BY <3>1, <4>1, <4>2, <4>3
      <4> QED BY <3>4, <4>3, <4>5, <4>6, <4>7, <4>8 DEF OwnKey
    <3> QED BY <1>2, <2>2, <3>2, <3>3, <3>4
  <2>6. OwnPages(d)'
    <3>1. Have(d)' = Have(d)
      BY <1>2 DEF Have
    <3>2. CASE reply'[d] = reply[d]
      <4>1. \A to \in Nat : Onward(d, to)' <=> Onward(d, to)
        BY <1>2, <3>1, <3>2 DEF Onward
      <4> QED BY <1>2, <2>1, <3>1, <3>2, <4>1 DEF OwnPages
    <3>3. CASE reply'[d].status # "page"
      BY <1>2, <2>1, <3>1, <3>3 DEF OwnPages
    <3>4. CASE /\ d = r.client /\ out[d] = r /\ call[d] \in Calling
               /\ r.shape = call[d].shape
               /\ r.shape.paged => r.query = cursorOrStart(call[d].cursor)
               /\ reply'[d] \in Answers(r) /\ reply'[d].status = "page"
      <4>1. r.shape.paged /\ reply'[d] \in Page(d, r.query)
        BY <3>4, AnswersRead
      <4>2. /\ call[d].task = "walk" /\ Have(d) <= rows[d] /\ call[d].from <= rows[d]
            /\ call[d].cursor \in {NoCursor} \cup [offset : Nat \ {0}]
        BY <2>1, <3>4, <4>1 DEF OwnPages
      <4>3. r.query.offset = Have(d) /\ Have(d) \in Nat /\ (r.query # Start => r.query = call[d].cursor)
        BY <3>4, <4>1, <4>2, Offsets DEF cursorOrStart, Have, Start
      <4>4. PICK to \in Nat :
              /\ to <= rows[d] /\ Have(d) <= to /\ reply'[d].rows = Have(d) + 1 .. to
              /\ \/ reply'[d].next = Offset(to) /\ Have(d) < to
                 \/ reply'[d].next \in {End, NoCursor} \cup ({r.query} \ {Start}) /\ to = rows[d]
        BY <2>1, <4>1, <4>2, <4>3, PageAnswered, CallsAssumption
      <4>5. \/ reply'[d].next = Offset(to) /\ Have(d) < to
            \/ reply'[d].next \in {End, NoCursor, call[d].cursor} /\ call[d].from <= to
        BY <4>2, <4>3, <4>4
      <4>6. Onward(d, to)' /\ to <= rows'[d]
        BY <1>2, <3>1, <4>4, <4>5 DEF Onward
      <4> QED BY <1>2, <2>1, <3>1, <4>2, <4>6 DEF OwnPages
    <3> QED BY <1>2, <2>2, <3>2, <3>3, <3>4
  <2> QED BY <2>3, <2>4, <2>5, <2>6 DEF Own
<1> QED BY <1>3, <1>4, <1>6, <1>7 DEF IInv

(* The calls that begin. *)
LEMMA BeginsKeep ==
  ASSUME IInv, NEW c \in Clients, CallOne(c) \/ StartUp(c) \/ Walk(c)
  PROVE  IInv'
<1>1. Default \in Nonces /\ MaxRows \in Nat /\ Tasks = {"one", "startup", "walk"}
  BY CallsAssumption DEF Tasks
<1>2. CASE CallOne(c)
  <2>1. PICK s \in Shapes : \E n \in Nonces : ~s.paged /\ Begin(c, Begun("one", s, n, 0))
    BY <1>1, <1>2 DEF CallOne
  <2>2. PICK n \in Nonces : ~s.paged /\ Begin(c, Begun("one", s, n, 0))
    BY <2>1
  <2> DEFINE k == Begun("one", s, n, 0)
  <2>3. k \in Calling /\ k.task = "one" /\ k.step = "ready" /\ k.shape = s /\ k.cursor = NoCursor
    BY <1>1, <2>2, BegunCalling
  <2> HIDE DEF k
  <2>4. Begin(c, k)
    BY <2>2 DEF k
  <2> QED BY <2>2, <2>3, <2>4, BeginKeeps
<1>3. CASE StartUp(c)
  <2> DEFINE k == Begun("startup", Create, Default, 0)
  <2>1. /\ k \in Calling /\ k.task = "startup" /\ k.step = "ready" /\ k.shape = Create
        /\ k.nonce = Default /\ k.cursor = NoCursor
    BY <1>1, KeyShapes, BegunCalling
  <2>2. Begin(c, k)
    BY <1>3 DEF StartUp
  <2> HIDE DEF k
  <2> QED BY <2>1, <2>2, KeyShapes, BeginKeeps
<1>4. CASE Walk(c)
  <2>1. PICK s \in {x \in Shapes : x.paged}, n \in 0 .. MaxRows :
          Begin(c, Begun("walk", s, Default, n))
    BY <1>4 DEF Walk
  <2> DEFINE k == Begun("walk", s, Default, n)
  <2>2. n \in Nat /\ s \in Shapes /\ s.paged
    BY <1>1, <2>1
  <2>3. k \in Calling /\ k.task = "walk" /\ k.step = "ready" /\ k.shape = s /\ k.cursor = NoCursor
    BY <1>1, <2>2, BegunCalling
  <2> HIDE DEF k
  <2>4. Begin(c, k)
    BY <2>1 DEF k
  <2> QED BY <2>2, <2>3, <2>4, BeginKeeps
<1> QED BY <1>2, <1>3, <1>4

LEMMA Initially == Init => IInv
<1> SUFFICES ASSUME Init PROVE IInv
  OBVIOUS
<1>1. TypeOK
  BY EndedOver DEF Init, TypeOK, PerClient
<1>2. Effects /\ \A r \in wire : Made(r)
  BY DEF Init, Effects
<1>3. ASSUME NEW c \in Clients PROVE Own(c)
  <2>1. /\ call[c] \in Over /\ call[c] \notin Calling /\ call[c].task = "idle"
        /\ out[c] = NoRequest /\ reply[c] = NoReply /\ creds[c] = asked[c]
        /\ c \notin again /\ seen[c] = 1 .. 0
    BY EndedOver, CallingFields DEF Init
  <2> QED BY <2>1, Nothing DEF Own, OwnRequest, OwnEffect, OwnKey, OwnPages, Is
<1> QED BY <1>1, <1>2, <1>3 DEF IInv

LEMMA Inductive == IInv /\ [Next]_vars => IInv'
<1> SUFFICES ASSUME IInv, [Next]_vars PROVE IInv'
  OBVIOUS
<1>1. ASSUME NEW c \in Clients, CallOne(c) \/ StartUp(c) \/ Walk(c) PROVE IInv'
  BY <1>1, BeginsKeep
<1>2. ASSUME NEW c \in Clients, Unsigned(c) PROVE IInv'
  BY <1>2, UnsignedKeeps
<1>3. ASSUME NEW c \in Clients, Send(c) PROVE IInv'
  BY <1>3, SendKeeps
<1>4. ASSUME NEW c \in Clients, PaceCut(c) PROVE IInv'
  BY <1>4, PaceCutKeeps
<1>5. ASSUME NEW c \in Clients, Broken(c) PROVE IInv'
  BY <1>5, ResendKeeps, GiveUpKeeps
<1>6. ASSUME NEW c \in Clients, Receive(c) PROVE IInv'
  BY <1>6, ReceiveKeeps
<1>7. ASSUME NEW c \in Clients, Turn(c) PROVE IInv'
  BY <1>7, TurnKeeps, LastTurnKeeps
<1>8. ASSUME NEW c \in Clients, TurnFails(c) PROVE IInv'
  BY <1>8, TurnFailsKeeps
<1>9. ASSUME NEW c \in Clients, Crash(c) PROVE IInv'
  BY <1>9, CrashKeeps
<1>10. ASSUME NEW c \in Clients, Grow(c) PROVE IInv'
  BY <1>10, GrowKeeps
<1>11. ASSUME NEW r \in wire, Serve(r) PROVE IInv'
  BY <1>11, ServeKeeps
<1>12. CASE UNCHANGED vars
  <2>1. UNCHANGED <<keys, rows, wire, creds, call, calls, out, reply, seen,
                    took, twice, again, asked, excused>>
    BY <1>12 DEF vars, exchange, history
  <2>2. TypeOK' /\ Effects'
    BY <2>1 DEF IInv, TypeOK, PerClient, Effects
  <2>3. \A r \in wire' : Made(r)'
    BY <2>1 DEF IInv, Made, Genuine
  <2>4. ASSUME NEW c \in Clients PROVE Own(c)'
    <3>1. OwnRequest(c)' /\ OwnEffect(c)'
      BY <2>1 DEF IInv, Own, OwnRequest, OwnEffect, Is, Made, Genuine
    <3>2. OwnKey(c)' /\ OwnPages(c)'
      BY <2>1 DEF IInv, Own, OwnKey, OwnPages, Have, Onward
    <3> QED BY <3>1, <3>2 DEF Own
  <2> QED BY <2>2, <2>3, <2>4 DEF IInv
<1> QED BY <1>1, <1>2, <1>3, <1>4, <1>5, <1>6, <1>7, <1>8, <1>9, <1>10, <1>11, <1>12
       DEF Next, Step

LEMMA ProcessMoves ==
  ASSUME IInv, NEW c \in Clients,
         CallOne(c) \/ StartUp(c) \/ Walk(c) \/ Step(c) \/ Crash(c) \/ Grow(c)
  PROVE  Moves(c)
<1>1. TypeOK /\ OwnRequest(c)
  BY DEF IInv, Own
<1>2. CASE CallOne(c) \/ StartUp(c) \/ Walk(c)
  <2>1. PICK k : Begin(c, k)
    BY <1>2 DEF CallOne, StartUp, Walk
  <2> QED BY <1>1, <2>1, BeginMoves
<1>3. CASE Broken(c)
  BY <1>1, <1>3, ResendMoves, GiveUpMoves
<1>4. CASE Turn(c)
  BY <1>1, <1>4, TurnMoves, LastTurnMoves
<1>5. CASE Unsigned(c) \/ Send(c) \/ PaceCut(c)
  BY <1>1, <1>5, UnsignedMoves, SendMoves, PaceCutMoves
<1>6. CASE Receive(c) \/ TurnFails(c) \/ Crash(c) \/ Grow(c)
  BY <1>1, <1>6, ReceiveMoves, TurnFailsMoves, CrashMoves, GrowMoves
<1> QED BY <1>2, <1>3, <1>4, <1>5, <1>6 DEF Step

(* Only its last page ends a walk well. *)
LEMMA WalkDone ==
  ASSUME IInv, Next, NEW d \in Clients, InCall(d), call'[d] = Ended("walk", "done")
  PROVE  Turn(d) /\ LastPage(reply[d].next, call[d].cursor)
<1>1. TypeOK /\ call[d] \in Calling /\ call[d].task \in Tasks /\ OwnRequest(d)
  BY Standing, CallingFields DEF IInv, Own
<1>2. call'[d] \in Over /\ call'[d] \notin Calling /\ call'[d].task = "walk"
  BY EndedOver, CallingFields DEF Tasks
<1>3. \A t \in Tasks : Ended(t, "failed") # call'[d] /\ Idle # call'[d]
  BY EndedOver DEF Tasks
<1>4. ASSUME NEW r \in wire, Serve(r) PROVE FALSE
  BY <1>1, <1>2, <1>4 DEF Serve
<1>5. ASSUME NEW c \in Clients \ {d}, Moves(c) PROVE FALSE
  BY <1>1, <1>2, <1>5 DEF Moves, Only
<1>6. ASSUME CallOne(d) \/ StartUp(d) \/ Walk(d) PROVE FALSE
  BY <1>1, <1>6 DEF CallOne, StartUp, Walk, Begin
<1>7. ASSUME Unsigned(d) \/ TurnFails(d) \/ Crash(d) PROVE FALSE
  BY <1>1, <1>3, <1>7, UnsignedMoves, TurnFailsMoves, CrashMoves DEF Tasks
<1>8. ASSUME Send(d) PROVE FALSE
  BY <1>1, <1>2, <1>8, SendMoves, SentCalling
<1>9. ASSUME Failed(d) PROVE FALSE
  <2>1. call'[d] # Begun("startup", Derive, Default, 0)
    BY <1>2 DEF Begun
  <2> QED BY <1>1, <1>3, <1>9, <2>1, FailedEnds
<1>10. ASSUME PaceCut(d) PROVE FALSE
  BY <1>9, <1>10 DEF PaceCut
<1>11. ASSUME Broken(d) PROVE FALSE
  <2>1. CASE call[d].attempt < ExtraAttempts(out[d])
    BY <1>1, <1>2, <1>11, <2>1, ResendMoves, RetriedCalling
  <2>2. CASE ~(call[d].attempt < ExtraAttempts(out[d]))
    BY <1>1, <1>9, <1>11, <2>2, GiveUpMoves
  <2> QED BY <2>1, <2>2
<1>12. ASSUME Receive(d) PROVE FALSE
  <2>1. call[d].task # "walk" /\ (Finish(d, "done") \/ Failed(d))
    BY <1>1, <1>12, ReceiveMoves
  <2>2. Finish(d, "done")
    BY <1>9, <2>1
  <2>3. call'[d] = Ended(call[d].task, "done") \/ call'[d] = Idle
    BY <1>1, <2>2, FinishEnds
  <2> QED BY <1>1, <1>2, <2>1, <2>3, EndedOver
<1>13. ASSUME Grow(d) PROVE FALSE
  BY <1>1, <1>2, <1>13, GrowMoves
<1>14. ASSUME Turn(d), ~LastPage(reply[d].next, call[d].cursor) PROVE FALSE
  <2>1. /\ call'[d] = [call[d] EXCEPT !.step = "ready", !.attempt = 0, !.cursor = reply[d].next]
    BY <1>1, <1>14, TurnMoves
  <2>2. call'[d].step = "ready"
    BY <1>1, <2>1 DEF Calling
  <2>3. call'[d].step = "ended"
    BY DEF Ended
  <2> QED BY <2>2, <2>3
<1>15. ASSUME NEW c \in Clients,
              CallOne(c) \/ StartUp(c) \/ Walk(c) \/ Step(c) \/ Crash(c) \/ Grow(c)
       PROVE  Moves(c)
  BY <1>15, ProcessMoves
<1> QED BY <1>4, <1>5, <1>6, <1>7, <1>8, <1>10, <1>11, <1>12, <1>13, <1>14, <1>15 DEF Next, Step

LEMMA LastTurnComplete ==
  ASSUME IInv, NEW c \in Clients, Turn(c), LastPage(reply[c].next, call[c].cursor)
  PROVE  1 .. call[c].from \subseteq seen'[c]
<1>1. TypeOK /\ OwnPages(c) /\ rows[c] \in Nat
  BY DEF IInv, Own, TypeOK
<1>2. /\ call[c] \in Calling /\ call[c].task = "walk" /\ reply[c].status = "page"
      /\ seen'[c] = seen[c] \cup reply[c].rows /\ call[c].from \in Nat
  BY <1>1, LastTurnMoves, CallingFields DEF Is
<1>3. PICK to \in Nat :
        /\ seen[c] \cup reply[c].rows = 1 .. to
        /\ \/ reply[c].next = Offset(to) /\ Have(c) < to /\ Have(c) \in Nat
           \/ call[c].from <= to
  BY <1>1, <1>2, PageRead
<1>4. ~(reply[c].next = Offset(to) /\ Have(c) < to /\ Have(c) \in Nat)
  BY <1>3, Offsets DEF LastPage, Have
<1> QED BY <1>2, <1>3, <1>4
---------------------------------------------------------------------------
(* The theorems *)

(* At every moment of every execution the state has its shape, what is on  *)
(* its way was made and signed by a call and asks again only for what may  *)
(* be had twice, a process holds the key it asked for, and a walk has the  *)
(* rows before its cursor (do and apiKeyRequest of session.go, clob/).     *)
THEOREM Invariant == Spec => []IInv
BY Initially, Inductive, PTL DEF Spec

(* Do and its retries: no method of any client trades, moves funds or      *)
(* issues a credential twice in one call, however often requests and       *)
(* answers are lost (session.go).                                          *)
THEOREM TakesEffectOnce == Spec => []OnceOnly
<1>1. IInv => OnceOnly
  BY DEF IInv, Effects, OnceOnly
<1> QED BY <1>1, Invariant, PTL

(* authHeaders, retries and Pages: a request the server turns away has     *)
(* outlived its signature or its key, for it always makes the signature    *)
(* that was sent (auth.go, session.go, clob/market.go).                    *)
THEOREM AlwaysAuthentic == Spec => []Authentic
<1>1. IInv => Authentic
  BY DEF IInv, Made, Authentic
<1> QED BY <1>1, Invariant, PTL

(* apiKeyRequest: a process holds the key of the nonce its caller named    *)
(* (clob/trading.go).                                                      *)
THEOREM HoldsKey == Spec => []HoldsAskedKey
<1>1. IInv => HoldsAskedKey
  BY DEF IInv, Own, OwnKey, HoldsAskedKey
<1> QED BY <1>1, Invariant, PTL

(* CreateOrDeriveAPIKey: a start-up that ends without a key was left       *)
(* without an answer, or the key was revoked under it (clob/trading.go).   *)
THEOREM StartUpFindsKey == Spec => []StartsUp
<1>1. IInv => StartsUp
  <2> SUFFICES ASSUME IInv, NEW c \in Clients, call[c] = Ended("startup", "failed")
               PROVE  c \in excused
    BY DEF StartsUp
  <2>1. /\ call[c] \in Over /\ call[c].task = "startup" /\ call[c].result = "failed"
    BY EndedOver DEF Tasks
  <2> QED BY <2>1 DEF IInv, Own, OwnKey
<1> QED BY <1>1, Invariant, PTL

(* Pages: a walk yields the rows of the listing from the first on, each    *)
(* once, for any pages, retries and growth (clob/market.go).               *)
THEOREM WalksWhole == Spec => []WalkWhole
<1>1. ASSUME NEW k \in Nat PROVE Cardinality(1 .. k) = k
  BY FS_Interval
<1>2. IInv => WalkWhole
  BY <1>1 DEF IInv, Own, OwnPages, WalkWhole
<1> QED BY <1>2, Invariant, PTL

(* And when it ends well, all the rows that were there when it began.      *)
THEOREM WalksComplete == Spec => WalkComplete
<1> DEFINE Complete == \A c \in Clients : InCall(c) /\ call'[c] = Ended("walk", "done") =>
                         1 .. call[c].from \subseteq seen'[c]
<1>1. ASSUME IInv, Next PROVE Complete
  <2> SUFFICES ASSUME NEW d \in Clients, InCall(d), call'[d] = Ended("walk", "done")
               PROVE  1 .. call[d].from \subseteq seen'[d]
    OBVIOUS
  <2>1. Turn(d) /\ LastPage(reply[d].next, call[d].cursor)
    BY <1>1, WalkDone
  <2> QED BY <1>1, <2>1, LastTurnComplete
<1>2. IInv /\ [Next]_vars => [Complete]_vars
  BY <1>1
<1> QED BY <1>2, Invariant, PTL DEF Spec, WalkComplete
====
