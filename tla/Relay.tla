---- MODULE Relay ----
(***************************************************************************)
(* Gasless transactions through Polymarket's relayer (relayer/relayer.go,  *)
(* relayer/transaction.go): callers that share one wallet read a nonce,    *)
(* build and sign a request, submit it and poll until its state is         *)
(* terminal, while the relayer queues, broadcasts and loses transactions   *)
(* and the wallet on the chain decides what is performed.                  *)
(*                                                                         *)
(* A caller wants one list of calls performed.  It may submit the same     *)
(* request again after any failure.  It builds a new one, with a new       *)
(* nonce, only when no copy is unaccounted for: each submission has failed *)
(* with an error that is not Indeterminate, or its transaction has ended   *)
(* as invalid or failed.                                                   *)
(***************************************************************************)
EXTENDS WalletContracts

CONSTANTS
  Callers,     \* goroutines that use the wallet
  Asks,        \* what may be asked of a wallet of each form: items and gas
  FirstRelay,  \* the address the relayer relays from at first
  MaxSubmits,  \* bound: submissions of all callers
  MaxRelays    \* bound: changes of that address

ASSUME RelayAssumption ==
  /\ DOMAIN Asks = Forms
  /\ \A f \in Forms : Asks[f] \subseteq [items : Seq(Items), gas : Gases]
  /\ FirstRelay \in Nat /\ MaxSubmits \in Nat /\ MaxRelays \in Nat

(* No encoding is longer than a word can count. *)
ASSUME SizesAssumption ==
  /\ \A f \in Forms : \A a \in Asks[f] : \A i \in DOMAIN a.items :
       Fits(Len(Calldata(a.items[i].intent)))
  /\ \A a \in Asks.SAFE : Fits(Len(Aggregate(CallsOf(a.items)).data))
  /\ \A a \in Asks.PROXY : Fits(Len(EncodeProxyCalls(CallsOf(a.items))))

VARIABLES
  form,       \* the form of the wallet
  step,       \* where each caller is
  ask,        \* what each caller asks for
  payload,    \* the nonce and relay address each caller has read
  submits,    \* how often each caller has submitted
  sure,       \* whether the caller's last error is not Indeterminate
  doubt,      \* whether an earlier copy is unaccounted for
  answer,     \* what each submission was answered and its caller has not read
  wire,       \* submissions on their way to the relayer
  jobs,       \* the relayer's transactions
  relay,      \* the address the relayer relays from
  nonce,      \* the wallet's counter
  performed   \* what the wallet has performed, and for which copy

caller == <<form, step, ask, payload, submits, sure, doubt, answer>>
chain == <<relay, nonce, performed>>
vars == <<form, step, ask, payload, submits, sure, doubt, answer,
          wire, jobs, relay, nonce, performed>>

NoPayload == [nonce |-> 0, relay |-> 0]

Init ==
  /\ form \in Forms
  /\ step = [c \in Callers |-> "payload"]
  /\ ask \in [Callers -> Asks[form]]
  /\ payload = [c \in Callers |-> NoPayload]
  /\ submits = [c \in Callers |-> 0]
  /\ sure = [c \in Callers |-> FALSE]
  /\ doubt = [c \in Callers |-> FALSE]
  /\ answer = [c \in Callers |-> "none"]
  /\ wire = {} /\ jobs = {}
  /\ relay = FirstRelay
  /\ nonce = 0
  /\ performed = {}
---------------------------------------------------------------------------
(* The callers. *)

(* Nonce, or RelayPayload: the counter and the relay in one answer. *)
ReadPayload(c) ==
  /\ step[c] = "payload"
  /\ step' = [step EXCEPT ![c] = "building"]
  /\ payload' = [payload EXCEPT ![c] = [nonce |-> nonce, relay |-> relay]]
  /\ UNCHANGED <<form, ask, submits, sure, doubt, answer, wire, jobs, chain>>

Builds(a) ==
  /\ \A i \in DOMAIN a.items : Legal(a.items[i].intent)
  /\ LET calls == CallsOf(a.items)
     IN  /\ form = "SAFE" => SafeBuilds(calls)
         /\ form = "PROXY" => ProxyBuilds(calls)
         /\ form = "WALLET" => AllDecode(calls)

Built(a, p) ==
  LET calls == CallsOf(a.items)
  IN  IF form = "SAFE" THEN BuildSafeTransaction(calls, p.nonce)
      ELSE IF form = "PROXY" THEN BuildProxyTransaction(calls, p.nonce, p.relay, a.gas)
      ELSE BuildWalletBatch(calls, p.nonce)

Build(c) ==
  /\ step[c] = "building"
  /\ step' = [step EXCEPT ![c] = IF Builds(ask[c]) THEN "built" ELSE "refused"]
  /\ UNCHANGED <<form, ask, payload, submits, sure, doubt, answer, wire, jobs, chain>>

(* A copy of a request is known by what it was built from. *)
Request(m) == Built(ask[m.from], m.payload)

MaySubmit == FoldFunction(LAMBDA k, n : k + n, 0, submits) < MaxSubmits

(* Submit, once, or once more with the same request. *)
Submit(c) ==
  /\ step[c] \in {"built", "failed"}
  /\ MaySubmit
  /\ submits' = [submits EXCEPT ![c] = @ + 1]
  /\ step' = [step EXCEPT ![c] = "sent"]
  /\ sure' = [sure EXCEPT ![c] = FALSE]
  /\ wire' = wire \cup {[from |-> c, copy |-> submits[c] + 1, payload |-> payload[c]]}
  /\ UNCHANGED <<form, ask, payload, doubt, answer, jobs, chain>>

Fails(c, determinate) ==
  /\ step' = [step EXCEPT ![c] = "failed"]
  /\ sure' = [sure EXCEPT ![c] = determinate]
  /\ doubt' = [doubt EXCEPT ![c] = @ \/ ~determinate]
  /\ answer' = [answer EXCEPT ![c] = "none"]

(* Credentials are missing, which is determinate, or could not be          *)
(* rendered, which is not.                                                 *)
NotSent(c) ==
  /\ step[c] = "built"
  /\ \E determinate \in BOOLEAN : Fails(c, determinate)
  /\ UNCHANGED <<form, ask, payload, submits, wire, jobs, chain>>

Answered(c) ==
  /\ step[c] = "sent"
  /\ answer[c] # "none"
  /\ IF answer[c] = "id"
     THEN /\ step' = [step EXCEPT ![c] = "queued"]
          /\ answer' = [answer EXCEPT ![c] = "none"]
          /\ UNCHANGED <<sure, doubt>>
     ELSE Fails(c, TRUE)
  /\ UNCHANGED <<form, ask, payload, submits, wire, jobs, chain>>

(* Mutant of Broken: the loss of an answer is reported as a refusal is. *)
BrokenSure(c) ==
  /\ step[c] = "sent"
  /\ Fails(c, TRUE)
  /\ UNCHANGED <<form, ask, payload, submits, wire, jobs, chain>>

(* No answer comes, or one that does not decode, or a 5xx.  A POST is not  *)
(* tried again.                                                            *)
Broken(c) ==
  /\ step[c] = "sent"
  /\ Fails(c, FALSE)
  /\ UNCHANGED <<form, ask, payload, submits, wire, jobs, chain>>

JobOf(c) == {j \in jobs : j.from = c /\ j.copy = submits[c]}

(* Transaction: a state that is not terminal is polled again. *)
Poll(c) ==
  /\ step[c] = "queued"
  /\ \E j \in JobOf(c) :
       /\ j.state \in {"CONFIRMED", "INVALID", "FAILED"}
       /\ step' = [step EXCEPT ![c] = IF j.state = "CONFIRMED" THEN "done" ELSE "lost"]
  /\ UNCHANGED <<form, ask, payload, submits, sure, doubt, answer, wire, jobs, chain>>

(* The caller starts over, with a new nonce. *)
StartOver(c) ==
  /\ \/ step[c] = "lost"
     \/ step[c] = "failed" /\ sure[c]
  /\ ~doubt[c]
  /\ MaySubmit
  /\ step' = [step EXCEPT ![c] = "payload"]
  /\ UNCHANGED <<form, ask, payload, submits, sure, doubt, answer, wire, jobs, chain>>
---------------------------------------------------------------------------
(* The relayer. *)

(* An answer reaches the submission it answers. *)
Tell(m, a) ==
  answer' = IF step[m.from] = "sent" /\ submits[m.from] = m.copy
            THEN [answer EXCEPT ![m.from] = a] ELSE answer

Take(m) ==
  /\ wire' = wire \ {m}
  /\ jobs' = jobs \cup {[from |-> m.from, copy |-> m.copy, payload |-> m.payload,
                         state |-> "NEW"]}
  /\ Tell(m, "id")
  /\ UNCHANGED <<form, step, ask, payload, submits, sure, doubt, chain>>

(* A 4xx. *)
Refuse(m) ==
  /\ wire' = wire \ {m}
  /\ Tell(m, "4xx")
  /\ UNCHANGED <<form, step, ask, payload, submits, sure, doubt, jobs, chain>>

Becomes(j, state) == jobs' = (jobs \ {j}) \cup {[j EXCEPT !.state = state]}

Broadcast(j) ==
  /\ j.state = "NEW"
  /\ Becomes(j, "EXECUTED")
  /\ UNCHANGED <<caller, wire, chain>>

Invalidate(j) ==
  /\ j.state = "NEW"
  /\ Becomes(j, "INVALID")
  /\ UNCHANGED <<caller, wire, chain>>

Performing(j) ==
  /\ Verifies(Request(j), nonce, relay)
  /\ Performs(Request(j)) # Malformed

(* The contracts a call reaches act on what they understand of it. *)
Happened(calls) ==
  [i \in DOMAIN calls |-> [intent |-> Understood(calls[i].to, calls[i].data),
                           value |-> calls[i].value,
                           operation |-> calls[i].operation]]

Mine(j) ==
  /\ j.state = "EXECUTED"
  /\ Performing(j)
  /\ Becomes(j, "MINED")
  /\ nonce' = nonce + 1
  /\ performed' = performed \cup
       {[from |-> j.from, copy |-> j.copy, items |-> Happened(Performs(Request(j)))]}
  /\ UNCHANGED <<caller, wire, relay>>

(* The transaction is dropped, or a call of it reverts, which may use up   *)
(* the nonce; or the wallet refuses it.                                    *)
Fail(j) ==
  /\ j.state = "EXECUTED"
  /\ Becomes(j, "FAILED")
  /\ \/ UNCHANGED nonce
     \/ Performing(j) /\ nonce' = nonce + 1
  /\ UNCHANGED <<caller, wire, relay, performed>>

Confirm(j) ==
  /\ j.state = "MINED"
  /\ Becomes(j, "CONFIRMED")
  /\ UNCHANGED <<caller, wire, chain>>

(* "Polymarket changes it", which the relay hub alone notices. *)
Move ==
  /\ form = "PROXY"
  /\ relay < FirstRelay + MaxRelays
  /\ relay' = relay + 1
  /\ UNCHANGED <<caller, wire, jobs, nonce, performed>>

CallerNext(c) ==
  \/ ReadPayload(c) \/ Build(c) \/ Submit(c) \/ NotSent(c)
  \/ Answered(c) \/ Broken(c) \/ Poll(c) \/ StartOver(c)

RelayerNext ==
  \/ \E m \in wire : Take(m) \/ Refuse(m)
  \/ \E j \in jobs : Broadcast(j) \/ Invalidate(j) \/ Mine(j) \/ Fail(j) \/ Confirm(j)
  \/ Move

Next == (\E c \in Callers : CallerNext(c)) \/ RelayerNext

Spec == Init /\ [][Next]_vars
---------------------------------------------------------------------------
Steps == {"payload", "building", "built", "refused", "sent", "failed",
          "queued", "lost", "done"}
States == {"NEW", "EXECUTED", "MINED", "CONFIRMED", "INVALID", "FAILED"}
Payloads == [nonce : Nat, relay : Nat]
Copies == [from : Callers, copy : Nat, payload : Payloads]

(* The state keeps its shape, and only a caller that waits for an answer   *)
(* has one.                                                                *)
TypeOK ==
  /\ step \in [Callers -> Steps]
  /\ ask \in [Callers -> Asks[form]]
  /\ payload \in [Callers -> Payloads]
  /\ submits \in [Callers -> Nat]
  /\ sure \in [Callers -> BOOLEAN] /\ doubt \in [Callers -> BOOLEAN]
  /\ answer \in [Callers -> {"none", "id", "4xx"}]
  /\ \A c \in Callers : answer[c] # "none" => step[c] = "sent"
  /\ wire \subseteq Copies
  /\ jobs \subseteq [from : Callers, copy : Nat, payload : Payloads, state : States]
  /\ \A p \in performed : p.from \in Callers
  /\ form \in Forms /\ relay \in Nat /\ nonce \in Nat

(* A caller's calls are performed once at most, however often it submits   *)
(* them and whatever answers are lost: copies of one request share a       *)
(* nonce, and a new nonce is taken only when nothing is under way.         *)
PerformedOnce == \A p, q \in performed : p.from = q.from => p = q

(* The argument for PerformedOnce. *)

(* What the wallet may yet perform for a caller. *)
Pending(c) == {m \in wire : m.from = c}
                \cup {j \in jobs : j.from = c /\ j.state \in {"NEW", "EXECUTED"}}

Nothing(c) == Pending(c) = {} /\ \A p \in performed : p.from # c

(* A caller that may go on to a new nonce. *)
MayRenew(c) ==
  \/ step[c] \in {"payload", "building", "built", "refused"}
  \/ ~doubt[c] /\ (step[c] \in {"failed", "lost"} \/ answer[c] = "4xx")

Same(m, n) == m.from = n.from /\ m.copy = n.copy

(* A copy is in one place.  *)
CopiesApart ==
  /\ \A m, n \in wire : Same(m, n) => m = n
  /\ \A j, k \in jobs : Same(j, k) => j = k
  /\ \A m \in wire, j \in jobs : ~Same(m, j)
  /\ \A m \in wire \cup jobs : m.copy <= submits[m.from]
  /\ \A p \in performed :
       \E j \in jobs : Same(p, j) /\ j.state \in {"MINED", "CONFIRMED"}

(* The copies that may yet be performed share a nonce, which is used up    *)
(* once one is; without doubt there is only the last copy; and a caller    *)
(* that may renew its nonce has none.                                      *)
OneNonce ==
  \A c \in Callers :
    /\ \A m \in Pending(c) : m.payload = payload[c]
    /\ \A p \in performed : p.from = c => payload[c].nonce < nonce
    /\ ~doubt[c] => /\ \A m \in Pending(c) : m.copy = submits[c]
                    /\ \A p \in performed : p.from = c => p.copy = submits[c]
    /\ MayRenew(c) => Nothing(c)

(* Nothing is reported to a caller that did not happen. *)
Reports ==
  \A c \in Callers :
    /\ step[c] = "failed" => sure[c] \/ doubt[c]
    /\ answer[c] = "id" \/ step[c] = "queued" => JobOf(c) # {}

(* Only what the builders accepted is submitted. *)
BuiltFirst ==
  /\ \A c \in Callers :
       step[c] \notin {"payload", "building", "refused"} => Builds(ask[c])
  /\ \A m \in wire \cup jobs : Builds(ask[m.from])

IInv == TypeOK /\ CopiesApart /\ OneNonce /\ Reports /\ BuiltFirst

(* A deposit wallet has ordinary calls only; the body of a Safe's request  *)
(* has no place for the value of a call that is not batched; and such a    *)
(* call, made to the multisend contract, is taken for a batch.             *)
Expressible(a) ==
  /\ form = "WALLET" => \A i \in DOMAIN a.items : a.items[i].operation = "Call"
  /\ form = "SAFE" /\ Len(a.items) = 1 =>
       /\ a.items[1].value = 0
       /\ CallOf(a.items[1]).to # Contracts.SafeMultisend

(* What a wallet performs, and what the token contracts understand of it,  *)
(* is what was asked for: the same intents in the same order, with their   *)
(* wei and their operations.                                               *)
AsAsked ==
  \A p \in performed : Expressible(ask[p.from]) => p.items = ask[p.from].items

(* The body carries what "the wallet contract needs in order to recompute  *)
(* the hash that was signed": unless the counter or the relay has moved,   *)
(* the wallet accepts every request that was built.                        *)
Verifiable ==
  \A c \in Callers :
    /\ step[c] = "built" /\ Expressible(ask[c])
    /\ payload[c].nonce = nonce
    /\ form = "PROXY" => payload[c].relay = relay
    => Verifies(Built(ask[c], payload[c]), nonce, relay)

(* The encodings written out by hand are those the general encoder makes.  *)
EncodersAgree ==
  \A c \in Callers :
    step[c] = "built" /\ form # "WALLET" =>
      LET calls == CallsOf(ask[c].items)
          tuple(call) == Tuple(<<Word32(Word(ProxyCode(call.operation))),
                                 Word32(Address(call.to)), Word32(Word(call.value)),
                                 ByteString(call.data)>>)
      IN  /\ EncodeProxyCalls(calls) =
               EncodeArgsCall("proxy", <<List([i \in DOMAIN calls |-> tuple(calls[i])])>>)
          /\ Len(calls) > 1 =>
               Aggregate(calls).data =
                 EncodeArgsCall("multiSend", <<ByteString(PackMultisend(calls))>>)
====
