# A verification project for go-polymarket

TLA+ modules that model the parts of this library whose correctness depends on
the order things happen in, TLC configurations that check them on small
instances, and theorems about them that TLAPS checks for every value of the
constants. `PROJECT.json` is the index: components, runs, the lines each
definition stands for, findings, hazards and theorems.

Parse a module with SANY, check a run with `tlc -config <run>.cfg <MC module>`,
and check proofs with `tlapm <module>Proofs.tla`.

## The system

The library is a Go client of the Polymarket exchange. It keeps little state,
and what it keeps is shared by concurrent goroutines and fed by a network that
delays, loses and reorders.

| Part | State it keeps | Operations | Interacts with |
| --- | --- | --- | --- |
| Rate limiter (`ratelimit.go`) | a window of scheduled sends per rule, two token buckets, freezes, a warning count; one mutex | `Wait`, its cancellation, `Observe` | `Session.Do` calls `Wait` before and `Observe` after every request |
| Session (`session.go`, `errors.go`) | host, signer, credentials, cookie jar | `Do`, `send` with retries, `authHeaders`, `Indeterminate` | limiter, signer, every client package |
| Streaming connection (`ws/conn.go`, `ws/market.go`, `ws/user.go`) | current socket, desired subscription, reconnect count, two goroutines, an unbuffered event channel | dial, resubscribe, read, ping, `Subscribe`, `Unsubscribe`, `Read`, `Close` | the server, the caller's goroutines |
| Streaming events (`ws/decode.go`, `ws/event.go`, `ws/book.go`, `ws/rtds.go`) | none | decode a frame of one of three channels, hash a book | `readLoop` calls the decoder; the caller keeps a copy of what it follows |
| Amounts (`internal/amount`, `amount.go`) | none | rounding of prices, sizes and order amounts | orders |
| Orders (`order.go`, `erc7739.go`, `typeddata.go`) | none | build, check and sign an order | amounts, signer, `clob` |
| Authentication (`auth.go`, `signer.go`, `siwe.go`, `wallet.go`) | keys | level 1 and level 2 headers, signatures, login messages | session |
| CLOB client (`clob/`) | session, and through it a level-2 key | trading, market data, pages, API keys, fees, rewards | session |
| Gamma client (`gamma/`) | session and its cookies | market metadata, login | session; the relayer reads the same jar |
| Data and bridge clients (`data/`, `bridge/`) | session | one request per endpoint | session |
| On-chain client (`onchain/`) | session to a node | nonces, fees, sign and send, receipts, approvals | node, signer |
| Relayer client (`relayer/`) | session, keys | read a nonce, build and sign a request for one of three wallets, submit it, transaction state, mint keys | session, signer, encodings, the wallet contracts, gamma's cookies |
| Encodings (`internal/abi`, `internal/eip712`, `internal/rlp`) | none | ABI, EIP-712, RLP | orders, on-chain, relayer |

What is hard about it, and what makes each part correct:

* **Rate limiter.** Callers reserve under a lock and sleep outside it; they may
  be cancelled in any order and hand back what they reserved; refusals freeze
  windows and buckets at any moment; the exchange corrects balances. Correct
  means that no period of a window is given to more requests than its limit,
  that a refund forgets nothing that was sent, that a bucket spends no more
  than refills, and that no header stops the client for long.
* **Session.** A request may reach the exchange whatever error comes back.
  Correct means a caller can tell from the error whether resubmitting an order
  is safe, and that a write is never repeated.
* **Streaming connection.** Two goroutines, any number of callers and a network
  that breaks sockets between any two steps. Correct means one descriptor, a
  `Close` that ends everything, reconnects announced before their events, and a
  subscription that survives.
* **Relayer.** A wallet's owner signs what a contract must be able to recompute
  from a request that carries it in other fields; the calls travel in encodings
  written out by hand; and an answer may be lost after the transaction was
  queued. Correct means that the wallet accepts every request at its nonce, does
  exactly what was asked, and does it once.
* **Streaming events.** A frame that does not decode is dropped without a word, a
  broken socket loses what came after. Correct means that a caller who follows the
  documentation has the server's state again, and can tell when it has not.
* **API keys, requests and pages.** Processes of one wallet get, recover and revoke
  keys; every request is signed once and may be sent late or again. Correct means
  that the server makes the same signature from what it receives, that only reads
  are repeated, that a key created without an answer is found again, and that a
  walk over pages yields each row once and ends.
* **Login.** A nonce is bound to the cookie it came with, and the jar is shared.
  Correct means that the cookie sent is the nonce's, and that a key is minted for
  the account that signed in.
* **On-chain.** A multi-step exchange with a node, where an answer may be lost after
  its effect.
* **Amounts, orders, encodings.** Pure functions with sharp edges: rounding,
  decimals, lengths.

## Modules

| Module | What it is |
| --- | --- |
| `SlidingWindow` | the `slidingWindow` type: slots, `reserve`, `release`, `freeze`, as operators on a record |
| `TokenBucket` | the `tokenBucketState` type: `refill`, `reserve`, `release`, `adopt`, `freeze` |
| `RateWindow` | abstract: requests are admitted at instants, paced, go or are withdrawn |
| `WindowWait` | concurrent callers of `Wait` on one window, with freezes; implements `RateWindow` |
| `Limiter` | the whole `StandardLimiter`: rules, windows, both buckets, `Observe`; each of its windows implements `WindowWait` |
| `WsConn` | one `ws.Conn` with its goroutines, callers and network |
| `Session` | `Session.Do`, `send`, `authHeaders`' outcomes, and a caller that follows `Indeterminate` |
| `Onchain` | senders that fill, sign, broadcast and await transactions, and the node's pool and chain |
| `Feed` | the frames of a stream, `readLoop` and the decoders of its channel, and a caller that keeps a copy of the server's state |
| `Endpoints` | every request of the clients of the five hosts: verb, path, authentication, paging, effect |
| `Calls` | processes of one wallet that call them: headers and what they bind, level-2 keys, walks over pages, crashes |
| `SignIn` | callers that log in over one cookie jar and mint relayer keys, and the servers' cookies |
| `Amounts` | the arithmetic of `internal/amount` as operators: rounding, `converge`, limit and market amounts |
| `Orders` | one order from `CreateOrder` or `CreateMarketOrder` to its match, on a market that moves |
| `Abi` | the encoders of `internal/abi` on small words, and how a contract reads them |
| `Positions` | the calls of `onchain/ctf.go` and `onchain/token.go`, and what the token contracts understand of them |
| `Submission` | `relayer/transaction.go`: what is signed for a Safe, a proxy and a deposit wallet, and the request that carries it |
| `WalletContracts` | the three wallets on the chain: what each hashes and performs |
| `Relay` | callers that read a nonce, build, submit, poll and start over; the relayer and the chain |
| `WindowWaitProofs`, `RequestProofs` (`Limiter` and `Session`), `OnchainProofs`, `OrdersProofs`, `RelayProofs`, `SignInProofs`, `StreamProofs` (`WsConn` and `Feed`), `CallsProofs` | theorems |
| `MCWindowWait`, `MCLimiter`, `MCWsConn`, `MCSession`, `MCOnchain`, `MCOrders`, `MCRelay`, `MCCalls`, `MCSignIn`, `MCFeed` | constants for TLC |

`SlidingWindow` is used by `WindowWait` and `Limiter`, `TokenBucket` by `Limiter`;
`Abi`, `Positions`, `Submission`, `WalletContracts` and `Relay` extend each other in
this order, as do `Amounts` and `Orders`, and `Endpoints` and `Calls`. Two
abstract specifications are implemented: `RateWindow` by `WindowWait`, and
`WindowWait` by each window of `Limiter`; both are proved.

### How states and actions correspond to the code

**SlidingWindow, WindowWait, Limiter.** Time is a natural number that starts
at 1; 0 is the zero `time.Time` of a free slot and of "never frozen". `Wait` is
two steps, as in the code: the critical section up to `Unlock` (`Wait`, which
also returns when there is no delay), and the `select` that ends it (`Proceed`
on the timer, `GiveUp` on the context, which takes the lock again and releases
both layers). `Observe` is one critical section: warning, balance, and for a
429 the deadline of `retryAfter`. The exchange's answer is any of a small set
of responses whose headers are missing, unreadable, or carry a value.
`Unanswered` is a request that fails in the network: `Do` returns before
`Observe`. The history variables `gone`, `issued` and `told` are read by
properties only; they record the claims whose `Wait` returned nil, how many
calls reserved, and the balance last adopted.

A path is a sequence of pieces cut where a rule's prefix may end, so "starts
with" and "longer prefix" mean the same as for strings. The bucket counts in
units that refill one per instant, and a token is `TokenTicks` of them, which
makes the floating-point arithmetic of the code exact; nothing here speaks
about rounding of balances. `Windows(i)` is the refinement mapping of rule `i`: its
`WindowWait` sees the callers that sleep on a claim of the rule (`Sleepers`,
`Holdings`) and those of its claims that went (`Turns`), and takes what a bucket adds
to a wait for the part of the wait it does not determine (`hold`).

**WsConn.** `loop` is the program counter of the goroutine that dials and
reads; the Dial constructor and `reconnect` share its dialing states, and
`Launched` tells them apart. `connectAndSubscribeOnce` is two steps, because a
caller may change the subscription between the rendering of the subscribe frame
and its write, and storing the socket is a third. `Change` and `Send` are the
two halves of `Conn.change`. A socket records whether its peer answers, whether
its descriptor is held, and what the server streams on it. `touched` is history:
the ids changed, or being changed, since the last resubscribe was rendered.

**Session.** `step` is where each caller's `Do` is. `wire` holds requests that
the exchange will still get to, in any order, also after their sender gave up;
`Serve` is the exchange: it refuses without effect, succeeds with one, or fails
with or without one. `Call` after a failure happens only when `Indeterminate`
reports false, which is the use the comment of `Indeterminate` prescribes. The
module's specification is `DoSpec`, so that its theorems and `Limiter`'s fit in one
module.

**Onchain.** `Fill` is up to three requests, each a step of its own (`ReadNonce`,
`ReadBase`, `ReadTip`; the gas estimate only fails or not), because the pool and
the base fee move between them. `Broadcast` is `SignTransaction` and the request
that carries its result, with the fee check of `fields`. `wire`, `pool` and
`performed` belong to the node: it accepts, refuses with an RPC error, refuses
with an HTTP status, mines and starts blocks in any order, and may answer a
request after its sender stopped listening (`Broken`). A sender sends its intent
again only after an error that is not `Indeterminate` or a receipt that says
reverted. `after` is history: the transactions `Send` had returned before this
one was called.

**Orders, Amounts.** A decimal is an integer: prices count ten-thousandths, sizes
thousandths, amounts units of the tick size's own precision. `Create`,
`ResolveTick`, `ResolveNegRisk` and `FindPrice` are the requests of
`CreateMarketOrder`; `Build` is everything that contacts nobody, from the range
check to the signed amounts. The exchange's `Match` fills from the levels the
order's own amounts allow, and `Move` replaces the whole market between any two
steps, tick size included. An intent's `wellFormed` stands for the checks on
addresses, token ids and sizes that make `BuildOrder` return an error.

**Endpoints, Calls.** `Endpoints` is a table: for every exported method that sends a
request, the request. `Calls` lets each process call any of them, one at a time.
Methods whose requests have the same verb, authentication, effect and paging differ
only in a path, so one of each `Shape` is called. `Headers` is `authHeaders` with the
builders of `auth.go`; a signature or an HMAC is the secret and what it covers, and
the server (`Genuine`) makes it again from the request it receives. `StartUp` is
`CreateOrDeriveAPIKey`, whose creation (`Create`) and derivation are two requests;
`Walk` and `Turn` are `Pages`. What the server does with one request is `Serve`, in
any order and also after the sender gave up; it may create a key and its answer be
lost, turn away what has outlived its time, and end a listing in each of the ways
`LastPage` looks for. A `Crash` loses the credentials and leaves the requests.
`took`, `twice`, `again`, `asked` and `excused` are history. A listing grows at its
end while it is walked and its rows do not move.

**SignIn.** `Login` is three steps of the caller - the nonce, the signed message, the
login - and each request is prepared (`Prepare`, where `Do` reads the jar), then
waits for the limiter (`Send`), then is answered. The jar is shared by all callers;
`SetCookies` is what `http.CookieJar` does with an answer. `TakeNonce`, `TakeSession`
and `TakeKey` end a request that was answered, with a body that is whole or cut
short: the cookie is stored either way. The server binds a nonce to its cookie, may
accept a token twice or refuse it, and mints for the session it is sent. `crowded`
and `displaced` are history: whose login ran beside another's, and over whose session
another account's was stored.

**Feed.** A state of the server is the set of changes that made it, per token; the
hash of a book is that set, as `bookHash` covers every field. The server streams a
frame for a change, an array of books for a subscribe frame, and frames without
consequence; up to `MaxBad` objects do not decode. `decode` is the decoder of the
channel dialed, with what it does of unknown types, of arrays, and of binary, empty
and malformed frames. `ReadNext`, `TakeEvent`, `Reconnect` and `TakeReconnect`
are `readLoop`; an event is handed over one at a time. The caller (`Apply`, `Refetch`)
does what `ws/doc.go` and the events' comments tell it to: it discards its copies at
a `ReconnectEvent`, takes a book as it comes, adds changes to it, compares hashes,
and asks REST on the user channel. Dialing and closing are `WsConn`'s: the socket
here breaks and is replaced.

**Abi, Positions, Submission, WalletContracts, Relay.** A byte is a number below `Base`, a word has `WordSize` of
them and an address one; a selector is one number above all bytes. The encoders
produce the bytes of the code, with its offsets, lengths and padding, and `Read`,
`MultiSent` and `ProxyPerforms` are how the contracts take them apart. Keccak is an
injection, so a hash is represented by what is hashed: a digest is the structure of
domain fields, type and members. `ReadPayload` is `Client.Nonce` or
`RelayPayload`; `Build` is any of the three builders, which contact nobody; `Submit`
sends, `Answered`, `Broken` and `NotSent` are its returns, and `Poll` is
`Client.Transaction` in the states where polling ends. A transaction of the relayer
has the six states of `TransactionState`. A caller that fails may always submit the
same request again. It takes a new nonce only if no submission failed with an
`Indeterminate` error and the last ended as refused, invalid or failed; `doubt`
remembers that. An intent is a record that is zero where its kind has no use for a
field (`Needs`), so that one call means one intent. `Expressible` says what a form of
wallet can carry; it leaves out, too, a single call to the multisend contract itself,
which a Safe cannot tell from a batch.

## Runs

All of them finish within five minutes.

| Run | Shows |
| --- | --- |
| `WindowWait` | three callers on two slots, abandoning in any order, with freezes: at most `Requests` instants in any `Window`, no instant moved once promised; every `Wait` ends |
| `LimiterWindows` | overlapping rules: each request is paced by its most specific rule, and each window inside the limiter implements `WindowWait` |
| `LimiterBuckets` | what is spent is covered by a burst and what refilled; no adopted balance or refund takes the bucket out of its range |
| `WsConn` | one descriptor, and none after `Close`; reconnects announced in order, resubscribes complete; `Close` and a pending `Read` end; a broken Conn comes back as long as its caller reads |
| `Session` | an order is acted on at most once; a determinate error is final; every `Do` ends |
| `Calls` | any method of any client, over crashes and lost answers: a start-up finds the key; a process holds the key it asked for; the server makes the same signature; nothing but reads is repeated; a walk yields each row once, all there were, and ends |
| `SignIn` | two accounts over one jar: a login alone is not refused for its nonce, a key is minted for the account signed in last, every login ends |
| `Feed` | each channel: no gap goes unannounced but for dropped frames; a caller that follows the documentation catches up, again and again; a book's drift shows in its hash |
| `Onchain` | an intent is paid for once although it is sent again after refusals and reverts; a send gets a later nonce than those that returned before it; filled fees still pay their tip after as many full blocks as a doubled base fee covers (the run goes three blocks, the theorem `PriceLasts` covers five) |
| `Orders` | a fill-or-kill order priced by its own market is filled by it; no market order trades beyond its price however the market moves; rounding keeps limit orders in range |
| `Relay` | through each kind of wallet: what was signed is what the wallet hashes, what it performs is what was asked for, in order, and once however often it is submitted; the encodings written by hand agree with the general encoder |
| `WsLostChange` | refutes a statement of the source, below |

The type invariants and the inductive invariants (`TypeOK`, `IInv`) of the modules
with theorems hold by proof. TLC checked each before it was proved, and no run
repeats it.

One run refutes a statement of the source and is a finding: `ws/conn.go` says that a
change during a reconnect "takes effect on the next successful (re)connect", and
`WsLostChange` shows one whose frame was already rendered, which the server never
gets to know.

Other places where the source's words and its code part, met while modelling and
not made runs of their own:

* `ratelimit.go:550` "holds the window shut until t": requests already scheduled
  go during the freeze. `ratelimit.go:539`, the "effect of a send that never
  happened": two abandoned requests, one behind the other, leave one of them in
  the window. `ratelimit.go:33`: the limit is kept by scheduled instants, not by
  sends that a bucket delays further. `ratelimit.go:41`: requests queued by a
  freeze go together at its end. `ratelimit.go:29`: a later refund of an earlier
  reservation is added to the balance that "wins".
  `ratelimit.go:25` "a batch costs one token per entry": `PostOrders` and
  `CancelOrders` (`clob/trading.go:465`) never set the cost. `POST /orders-scoring`,
  which only asks, starts with the path of the rule for `POST /orders` and is paced
  by it.
* `errors.go:24`: `ErrNotSent` "wraps every failure that happens before a request
  leaves", but not those of a Signer or an L2Authenticator (`session.go:299`).
  `CreateAPIKey` and `DeriveAPIKey` call `SetCredentials`, which is documented as
  unsafe for concurrent use.
* `clob/market.go` says a walk stops once the cursor "stops advancing". `Pages`
  compares it with the one it was called with, which is empty for the first page: a
  server that answers the start cursor itself is asked for that page again, and its
  rows come twice. The server of `Calls` never answers so.
* `relayer/relayer.go:304` and the comment of `APIKeyCredentials` say that minting a
  key "is not implemented here"; `MintAPIKey` is. Two logins at once over one jar
  can refuse each other, which `gamma/auth.go` does not say; hence `crowded`.
* `ws/doc.go:62` "resends the connection's full current subscription": a user filter
  emptied by `Unsubscribe` is left out (`ws/user.go:47`) and means every market.
  `ws/event.go` promises an `UnknownEvent` for a topic the client does not know;
  `decodeRTDS` makes a price of every topic that is neither a comment's nor empty.
  On the user channel the `ReconnectEvent` comes when the subscribe frame is written,
  so what changes between REST's answer and the server's acting on that frame is
  told by neither (`missed`).
* `ws/conn.go:303`: concurrent `Subscribe` and `Unsubscribe` may be recorded in
  one order and written in the other. `ws/options.go:95` "a non-positive duration
  is ignored": it reaches the ticker of the keepalive goroutine.
* `onchain/rpc.go:206` "roughly six" full blocks: a doubled base fee covers five.
  `onchain/client.go:65` "safe for concurrent use": two overlapping sends read
  the same pending nonce, and one may replace the other's transaction, as
  `onchain/transaction.go:32` warns itself. `onchain/transaction.go:288` "Fill and
  SignTransaction, which contact no node": `Fill` makes up to four requests.
* `internal/amount/amount.go:84` "Both steps are load-bearing": for prices below
  one the first rounding never changes the result (lemma `ConvergeTruncates`).
  `amount.go:72` refuses a market buy whose price rounds to zero but no sell.
  `order.go:368` checks a price's range and not that it is a multiple of the
  half- and quarter-cent ticks, and market orders not at all.
* `relayer/transaction.go:118` "the arguments the wallet contract needs in order to
  recompute the hash": a Safe transaction of a single call signs the call's
  `Value`, and no field of the request carries it. `relayer/transaction.go:68` keeps
  "one meaning" for an operation: a deposit wallet's batch drops it, and a
  delegate call becomes a call. `Expressible` is the premise that leaves these out.

### Bounds

`MaxTime`, `MaxSeq`, `MaxFaults`, `MaxChanges`, `MaxEvents`, `MaxSubmits`,
`MaxSends`, `MaxBlocks`, `MaxMoves`, `MaxRows`, `MaxCalls`, `MaxLogins`, `MaxNonces`,
`MaxNoise`, `MaxBad` and `MaxBreaks` end behaviours that the code would
continue; each appears as a guard and nowhere else. The clock runs for at least
two windows past a window's start, so that slots expire and are claimed again;
three callers on two slots are enough for a claim to be displaced while two
others are pending; three faults let a replacement socket break while it is
being dialed and again afterwards; two changes of two ids cross each other and a
resubscribe. A submission can be made three times, so an order has earlier
copies on the wire while it is resubmitted; the same holds for a transaction,
whose earlier attempt may still be in the pool. In `Orders` a market moves once:
every step reads at most one thing of it, so one move puts any two of them on
different markets. Its tick sizes are a tenth and a hundredth, because TLC's
integers have 32 bits; the theorems cover all six. In `Relay` words have two bytes, so that an amount, a
length or an offset can need both; the lists of calls have empty calldata, wei,
delegate calls and every kind of intent between them; two callers submit three
times in all, so that both may race for a nonce and one may repeat itself.
In `Calls` one process makes two calls, so that its second meets what the first
left on its way, or what a crash took; the other (`Starters`) only starts up beside
it, for what two processes of a wallet share is the set of its keys. Three rows in
pages of two are a whole page and a part of one, and grow across the boundary. In
`SignIn` two logins of each caller let a failed one leave its cookie to the next, and
three nonces let the two callers' interleave. In `Feed` two breaks put one socket
between two others, two changes can be on either side of anything, and one malformed
object spoils an array.

`CHECK_DEADLOCK FALSE` is said where a system may stop: a Dial constructor that
failed, a closed Conn, callers that are done, a limiter at its bounds, an order
that was matched.

### Fairness

* `WindowWait`: time passes and a due timer fires. Callers need not do anything.
* `WsConn`: goroutines run and their timers fire (weak fairness on their
  steps), and `pingLoop`'s `select` does not for ever prefer its ticker to a
  context that has ended (strong fairness on `StopPing`; Go chooses among ready
  cases at random). Nothing is assumed of the network or of any caller. What
  `Recovers` needs of the caller is its premise, `KeepsReading`: `Read` is called
  again and again and not every call is cut short by its context, for the reader
  of an unbuffered channel is what lets the loop go on.
* `Session`, `Calls`, `SignIn`: a `Do` under way goes on. Its steps are bounded by
  the limiter's instants, by the `http.Client` timeout and by the length of the
  pauses. Nothing is assumed of the server, nor that callers call.
* `Feed`: `readLoop` runs, a dial succeeds some time (it retries without end), the
  server acts on a subscribe frame it received and the caller keeps reading and
  asking REST. Sockets break only `MaxBreaks` times, which is what "once the network
  leaves one alone" means in `KeepsUp`; no change, frame or break is assumed.
* `Limiter`, `Onchain`, `Orders` and `Relay` claim no liveness: a limiter's windows' is
  `WindowWait`'s, a receipt or a terminal
  state may never come, and an order's requests each end as a
  `Do` ends.

## Proofs

`WindowWaitProofs` proves, for any set of callers, any limit, window and bounds:

* `TypeCorrect`, that the window, claims and history keep their shape;
* `Invariant`, the inductive invariant `IInv`. `AtMostRequests` alone is not
  inductive: whether a later reservation may be made depends on what the slots
  remember of earlier ones, and after a refund on what the refunded entry
  remembers. `SlotsRemember` says every reservation that counts is in its slot
  or at least a window before what is; `RefundsRemember` says the same of the
  entry each pending claim would restore, and `Numbered` that reservation
  numbers tell all of them apart;
* `WindowPaced`: of the reservations that count, those of one slot are a window
  apart (`Spaced`), so a period of one window contains at most one per slot;
* `Implements`: each step is a step of `RateWindow` or changes nothing it sees.

`RequestProofs` proves of `Limiter`, for any callers, table of rules, requests,
answers, bursts and bounds:

* `LimiterInvariant`, the inductive invariant `IInv`, in three parts besides the
  types. `Identified`: claims are told apart by their number, so that sets of claims
  can be counted, and nothing goes before it is due. `WindowsRemember`: the slot of a
  claim that counts holds it or a reservation at least a window after it, and of two
  claims on one slot the later displaced what stands for the earlier, so that handing
  either back forgets nothing. `BucketsBalance`: of each bucket, `Covered` says that
  what its claims cost and what it holds came from one burst and the refill, and that
  each claim is due only once everything reserved up to it has refilled; a bound on the
  balance alone does not survive a freeze, which lets it refill while requests queue.
  `Repaid` says that the debt is at most one burst and what sleeps in the bucket, and
  by the time a sleeper is due at most one burst and what was reserved after it: the
  bound itself is not inductive, for a sleeper that leaves takes its cost off the right
  side and must have taken it off the left by then;
* `EndpointsPaced`: the rule that governs a request is the one `match` finds
  (`GovernsMatch`), claims of one slot are a window apart, and so a period of one
  window has at most one of them per slot;
* `LongRun` and `Believable`, from `Covered` at the last claim that went and from
  `Repaid`. What claims cost is the number of their units (`Units`), so that adding
  and removing a claim are facts about cardinalities;
* `ImplementsEachWindow`: every step of the limiter is, for each rule, a step of its
  `WindowWait` or none. The invariant gives the types and what is known of a sleeper's
  claim; the rest is which of `Sleepers`, `Holdings` and `Turns` each action changes,
  for the rule it is about and for every other.

Of `Session`, for any number of callers, retries and submissions:

* `DoInvariant`: while an order's submission is out nothing has been acted on or
  answered, and a caller that may submit has nothing out;
* `OrderedOnce` and `DeterminateIsFinal`, which follow from it.

`OnchainProofs` proves, for any senders, pinned tips, base fees and bounds:

* `TypeCorrect` and `Invariant`. That an intent is performed once needs to know
  where each transaction is: `OnePlace` says that what may still perform an
  intent is on the wire, in the pool or on the chain and in one of them only,
  `Accounted` that what is outstanding is what its sender still waits for, and
  `OneStatus` that a transaction is mined once. `GivenOut` says that below every
  nonce given out all are in use, `Returned` that one whose `Send` returned is in
  use itself, and `Lasts` how far full blocks can have raised the base fee since a
  fee was filled in;
* `IntentOnce`, `NoncesInOrder` and `PriceLasts`, which follow from it.

`OrdersProofs` proves, for any markets, intents and every tick size:

* `Invariant`: between the signature and the post, an order is still the one its
  price and options make, though the market has moved on (`AsPriced`); what a caller
  left out is still left out until it is asked for (`Asked`), and what was found for
  it is what a market that has not moved says (`Found`);
* `NeverBeyondPrice`. A market buy asks for the quotient of what it spends and
  its price; the quotient is truncated, so by division with remainder it asks for
  at least so many shares that the next unit of price would give fewer
  (`BuyStops`). A sell's product is exact;
* `StaysTradable`: half-up rounding to a unit keeps a price on its side of every
  multiple of the unit, and both ends of the range are multiples;
* `FillOrKillFills`, for books of any length. `BooksAssumption` is what the exchange
  promises of a book: its levels come worst price first, which `clob/market.go:388`
  says, and its prices have the decimals of its tick size. So the level `marketPrice`
  stops at is the last of those that cover the amount (`FoundLevel`), rounding leaves
  its price alone, the order's truncated amounts still take that level and every
  better one (`BuyTakes`, `SellTakes`), and what these are worth is at least what the
  order asks for (`AmountCovers`). The worth of a set of levels is a sum; that it is
  what its parts come to (`SumsAgree`, `SumStep`) and grows with the set
  (`SumGrows`) is proved by induction on the members of a finite set of numbers.

`RelayProofs` proves, for any callers, lists of calls, word size and bounds:

* `TypeCorrect` and `Invariant`. One nonce is what makes copies of a request
  harmless, so `OneNonce` says that what may still be performed for a caller shares
  the nonce it holds, which is used up once one of them is performed, and that a
  caller free to take another has nothing under way; `CopiesApart` says that a copy
  is in one place, `Reports` what an answer or a terminal state tells of it, and
  `BuiltFirst` that only what a builder accepted is submitted. The
  step that performs a request needs `SignedNonce`: each wallet's hash holds its
  counter, so a signature is good for one value of it;
* `OnceOnly`, which follows from it;
* `AlwaysVerifiable`: for every list of calls, gas price and limit, each wallet
  recomputes what was signed from the request it is given (`SafeAccepts`,
  `HubAccepts`, `BatchAccepts`), with the premise `Expressible`;
* `OneEncoding`: `packMultisend`'s envelope and `encodeProxyCalls` write, for every list
  of calls, the bytes the general encoder writes (`MultisendEncoded`, `ProxyEncoded`);
* `PerformsAsAsked`: what the contracts read is what was meant, in layers. A number
  that fits a word is read back from its digits (`ReadsWord`); what is held at an
  offset is read there (`Holds`); the general encoder writes each argument where its
  slot of the head says (`Laid`), so the arguments of each kind of intent are read
  back (`IsUnderstood`); the proxy finds each call's tuple by its offset
  (`ProxyDecodes`) and the multisend contract by the lengths of those before it
  (`Unpacked`); and `BuiltFirst` says that what is mined was such a list.
  `SizesAssumption` says that no encoding is longer than a word can count, and
  `ContractsAssumption` that addresses are numbers.

  The library's induction theorems take an operator, so induction is had from
  well-founded sets (`Induct`), and functions defined by recursion exist by
  `Recursion`; both are about sets and functions.

`SignInProofs` proves, for any callers over one jar, any accounts, retries and nonces:

* `Invariant`. A login refused for its cookie would have been sent one that another
  login, or an earlier one of its own, left in the jar. `OwnCookie` follows the nonce
  from the answer to the jar, to the request and to its answer, and says that a login
  that is alone stays so until another begins, which marks both; `OwnSession` does
  the same for the session from a login to the key; `OwnToken` that what is presented
  was signed by its caller;
* `SignedInAlone` and `MintedForOwner`, which follow from it.

`StreamProofs` proves of `WsConn`, for any ids, callers, keepalive interval and dial
attempts:

* `ConnInvariant`. `Descriptors` says which steps of the loop may hold a descriptor being
  dialed and which one being read, so a hand-over never leaves two; `Numbered` that
  what `Read` has returned is of the socket being read or its announcement is due;
  `Subscribed` follows the rendered frame to the socket it is written to, and says
  that each change a caller has still to write is among those made since;
* `HoldsOne`, `AnnouncedFirst` and `StreamsDesired`, which follow from it; the last
  for the market channel, since on the user channel no filter means every market.

Of `Feed`, for any finite set of tokens and any number of changes, frames without
consequence, malformed objects and breaks:

* `FeedInvariant`. None of the three properties says anything of what is still on its
  way, so none is inductive. `WellFormed` says what frames and events the server and
  the decoders can have made: the books of all tokens, news of one change with the hash
  it left, or neither. `InFlow` says that the numbers of the changes heard, decoded and
  still on the socket follow each other in this order, that none is missing up to the
  latest of them, and none at all while the socket is up. `BooksFirst` says that books
  come before any news, when nothing was heard or dropped. `Complete` says of each token
  that what the caller has of it, or the book on its way, together with what is told of
  it behind that, is all the server has (`Whole`). `Made` says that a number is one
  change's, which is what a hash check rests on: a price change that repeats a hash
  comes after all that made it;
* `NoGap`, `NothingMissing` and `NoDrift`, which follow from it. What a frame decodes
  to is a lemma for each decoder (`ClobIs`, `EnvelopeIs`).

`CallsProofs` proves, for any processes, nonces, retries, pages and listings, and
the whole table of `Endpoints`:

* `Invariant`. `OwnRequest` says that the request a process waits on is of the call it
  is in; `Effects` and `OwnEffect` that a call whose effect is not to be had twice has
  one request until that has had it. They rest on a fact of the table, proved one
  constant at a time (`EndpointsSafe`): what is not to be had twice is never asked for
  by a GET or listed by cursor, the two ways a request comes to be sent again. `OwnKey`
  follows a start-up from its creation to its derivation, and `OwnPages` says that a
  walk has the rows before its cursor, and the page it is answered goes on from there;
* `TakesEffectOnce`, `AlwaysAuthentic`, `HoldsKey`, `StartUpFindsKey`, `WalksWhole` and
  `WalksComplete`, which follow from it.

The proofs assume only the named assumptions on constants. Every invariant and every
action property that a run checks is a theorem; liveness is checked by TLC alone
(`EveryWaitEnds`, `CloseEnds`, `PendingReadEnds`, `Recovers`, `DoEnds`, `WalkEnds`,
`LoginEnds`, `KeepsUp`), since it rests on fairness and `ENABLED`, which the prover
does not reason about. That hashes do not collide is part of the model.

## Plan

Twelve runs ask the questions above; what comes next extends a module whose run
exists, in this order.

1. `Relay`, extended: a wallet that must be deployed first, deadlines, and a wallet
   address from before the upgrade.
2. `Orders`, extended: bids below a unit of a coarser tick size, where a market sell
   asks for nothing; `AdjustBuyAmountForFees` against what the exchange takes.
3. `Encoding`: RLP and the arrays and nested types of EIP-712 as operators on
   trees, against reference definitions over bounded inputs; the lists of required
   and missing approvals.

## Not modelled

What is computed by a curve or a hash is left out: a signature, an HMAC or a digest is
the structure it is made from, and key and address derivation has no counterpart.
Query parameters, and the fields of bodies and answers, are left out of `Endpoints`
and `Calls`; a method that is one request and one decoding has no state of its own.
Of orders, the protocol's earlier versions, expirations, and wrapped signatures; of
the chain, reorganisations, transactions a pool drops, and the reads of approvals and
balances; of the relayer, the creation of wallets beyond its request; of the streams,
the size limit of a frame and WebSocket's own framing. `PROJECT.json` lists every
component.
