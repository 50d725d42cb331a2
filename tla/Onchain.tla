---- MODULE Onchain ----
(***************************************************************************)
(* Sending transactions from one account through an Ethereum node          *)
(* (onchain/transaction.go, onchain/rpc.go): Fill reads the nonce and the  *)
(* fees and estimates the gas in separate requests, Send signs and         *)
(* broadcasts, WaitReceipt polls.  The account's senders may overlap, and  *)
(* between any two requests other transactions are accepted and mined and  *)
(* the base fee moves.                                                     *)
(*                                                                         *)
(* A sender has one intent.  It sends again when Indeterminate reports     *)
(* false of the error, or when the receipt says the transaction was        *)
(* reverted.                                                               *)
(***************************************************************************)
EXTENDS Integers, FiniteSets, FiniteSetsExt

CONSTANTS
  Senders,    \* goroutines that send from the account
  Tips,       \* priority fees the node suggests
  Pins,       \* priority fees a caller pins, or NoPin
  NoPin,
  BaseFee,    \* the base fee at the start
  MaxBlocks,  \* bound: blocks after the first
  MaxSends    \* bound: calls of Send per sender

ASSUME OnchainAssumption ==
  /\ Tips \subseteq Nat /\ Pins \ {NoPin} \subseteq Nat /\ NoPin \notin Nat
  /\ BaseFee \in Nat \ {0} /\ MaxBlocks \in Nat /\ MaxSends \in Nat \ {0}

VARIABLES
  step,    \* where each sender is
  draft,   \* the transaction each sender fills in
  sends,   \* how often each sender has called Send
  sure,    \* whether the sender's last error is not Indeterminate
  answer,  \* what each sender's broadcast was answered and it has not read
  after,   \* history: the transactions Send had returned when it was called
  wire,    \* signed transactions on their way to the node
  pool,    \* transactions the node has accepted and not mined
  chain,   \* mined transactions, with their status
  base,    \* the latest block's base fee
  block    \* blocks so far

sender == <<step, draft, sends, sure, answer, after>>
node == <<pool, chain, base, block>>
vars == <<step, draft, sends, sure, answer, after, wire, pool, chain, base, block>>

Blank == [nonce |-> 0, tip |-> NoPin, maxFee |-> 0, at |-> 0]
NoAnswer == "none"

(* The signed transaction; its hash identifies it. *)
Signed(c) == [from |-> c, nonce |-> draft[c].nonce, tip |-> draft[c].tip,
              maxFee |-> draft[c].maxFee, at |-> draft[c].at]

Init ==
  /\ step = [c \in Senders |-> "idle"]
  /\ draft = [c \in Senders |-> Blank]
  /\ sends = [c \in Senders |-> 0]
  /\ sure = [c \in Senders |-> FALSE]
  /\ answer = [c \in Senders |-> NoAnswer]
  /\ after = [c \in Senders |-> {}]
  /\ wire = {} /\ pool = {} /\ chain = {}
  /\ base = BaseFee /\ block = 0
---------------------------------------------------------------------------
(* The node. *)

Mined == {m.tx : m \in chain}
UsedNonces == {t.nonce : t \in Mined \cup pool}

(* eth_getTransactionCount at the latest block, and with the pool counted. *)
LatestCount == Cardinality(chain)
PendingCount ==
  Min({n \in 0..Cardinality(UsedNonces) : n \notin UsedNonces})

(* A transaction takes the place of one with its nonce by paying more. *)
Outbids(t, u) == t.nonce = u.nonce => t.tip > u.tip /\ t.maxFee > u.maxFee
Acceptable(t) ==
  /\ t \notin pool
  /\ t.nonce >= LatestCount
  /\ \A u \in pool : Outbids(t, u)

(* The sender hears of it if it still waits for this broadcast. *)
Tell(t, a) ==
  answer' = IF step[t.from] = "sending" /\ Signed(t.from) = t
            THEN [answer EXCEPT ![t.from] = a]
            ELSE answer

Accept(t) ==
  /\ Acceptable(t)
  /\ wire' = wire \ {t}
  /\ pool' = {u \in pool : u.nonce # t.nonce} \cup {t}
  /\ Tell(t, "hash")
  /\ UNCHANGED <<step, draft, sends, sure, after, chain, base, block>>

(* The node answers with an RPCError. *)
Reject(t) ==
  /\ ~Acceptable(t)
  /\ wire' = wire \ {t}
  /\ Tell(t, "RPCError")
  /\ UNCHANGED <<step, draft, sends, sure, after, node>>

(* The service in front of the node answers with a 4xx. *)
Refuse(t) ==
  /\ wire' = wire \ {t}
  /\ Tell(t, "4xx")
  /\ UNCHANGED <<step, draft, sends, sure, after, node>>

Mine(t) ==
  /\ t.nonce = LatestCount
  /\ t.maxFee >= base
  /\ pool' = pool \ {t}
  /\ \E ok \in BOOLEAN : chain' = chain \cup {[tx |-> t, ok |-> ok]}
  /\ UNCHANGED <<sender, wire, base, block>>

(* The base fee moves by at most an eighth. *)
NewBlock ==
  /\ block < MaxBlocks
  /\ block' = block + 1
  /\ base' \in {base - base \div 8, base + base \div 8}
  /\ UNCHANGED <<sender, wire, pool, chain>>
---------------------------------------------------------------------------
(* The client. *)

Holding == {c \in Senders : step[c] \in {"accepted", "waiting", "reverted", "done"}}

(* Send is called, for the first time or once more. *)
Send(c) ==
  /\ \/ step[c] = "idle"
     \/ step[c] = "failed" /\ sure[c]
     \/ step[c] = "reverted"
  /\ sends[c] < MaxSends
  /\ sends' = [sends EXCEPT ![c] = @ + 1]
  /\ step' = [step EXCEPT ![c] = "nonce"]
  /\ after' = [after EXCEPT ![c] = {Signed(d) : d \in Holding}]
  /\ \E pin \in Pins : draft' = [draft EXCEPT ![c] = [Blank EXCEPT !.tip = pin]]
  /\ UNCHANGED <<sure, answer, wire, node>>

Filled(c, next) ==
  /\ step' = [step EXCEPT ![c] = next]
  /\ UNCHANGED <<sends, sure, answer, after, wire, node>>

(* Mutant of ReadNonce: the latest count. *)
ReadNonceLatest(c) ==
  /\ step[c] = "nonce"
  /\ draft' = [draft EXCEPT ![c].nonce = LatestCount]
  /\ Filled(c, "base")

ReadNonce(c) ==
  /\ step[c] = "nonce"
  /\ draft' = [draft EXCEPT ![c].nonce = PendingCount]
  /\ Filled(c, "base")

(* Mutant of ReadBase: no headroom. *)
ReadBaseOnce(c) ==
  /\ step[c] = "base"
  /\ draft' = [draft EXCEPT ![c] = [@ EXCEPT !.maxFee = base, !.at = block]]
  /\ Filled(c, "tip")

(* SuggestFees: the latest block's base fee, doubled. *)
ReadBase(c) ==
  /\ step[c] = "base"
  /\ draft' = [draft EXCEPT ![c] = [@ EXCEPT !.maxFee = 2 * base, !.at = block]]
  /\ Filled(c, "tip")

(* SuggestFees: the tip, which a pinned one takes precedence over. *)
Priced(d, tip) ==
  [d EXCEPT !.maxFee = d.maxFee + tip,
            !.tip = IF d.tip = NoPin THEN tip ELSE d.tip]

ReadTip(c) ==
  /\ step[c] = "tip"
  /\ \E tip \in Tips : draft' = [draft EXCEPT ![c] = Priced(draft[c], tip)]
  /\ Filled(c, "gas")

Fails(c, determinate) ==
  /\ step' = [step EXCEPT ![c] = "failed"]
  /\ sure' = [sure EXCEPT ![c] = determinate]
  /\ answer' = [answer EXCEPT ![c] = NoAnswer]
  /\ draft' = [draft EXCEPT ![c] = Blank]

(* The gas is estimated; the transaction is signed if its fees are in      *)
(* order, and broadcast.                                                   *)
Broadcast(c) ==
  /\ step[c] = "gas"
  /\ IF draft[c].maxFee < draft[c].tip
     THEN Fails(c, FALSE) /\ UNCHANGED wire
     ELSE /\ step' = [step EXCEPT ![c] = "sending"]
          /\ wire' = wire \cup {Signed(c)}
          /\ UNCHANGED <<draft, sure, answer>>
  /\ UNCHANGED <<sends, after, node>>

(* A request of Fill fails: before it is sent or with a 4xx, or otherwise. *)
FillFails(c) ==
  /\ step[c] \in {"nonce", "base", "tip", "gas"}
  /\ \E determinate \in BOOLEAN : Fails(c, determinate)
  /\ UNCHANGED <<sends, after, wire, node>>

(* SendRaw returns what the node or its gateway answered. *)
Answered(c) ==
  /\ step[c] = "sending"
  /\ answer[c] # NoAnswer
  /\ IF answer[c] = "hash"
     THEN /\ step' = [step EXCEPT ![c] = "accepted"]
          /\ answer' = [answer EXCEPT ![c] = NoAnswer]
          /\ UNCHANGED <<draft, sure>>
     ELSE Fails(c, answer[c] = "4xx")
  /\ UNCHANGED <<sends, after, wire, node>>

(* SendRaw is not answered, or in a way that does not decode or does not   *)
(* carry the hash.  It is not tried again.                                 *)
Broken(c) ==
  /\ step[c] = "sending"
  /\ Fails(c, FALSE)
  /\ UNCHANGED <<sends, after, wire, node>>

(* WaitReceipt, called again after it was cut short. *)
Wait(c) ==
  /\ step[c] = "accepted"
  /\ step' = [step EXCEPT ![c] = "waiting"]
  /\ UNCHANGED <<draft, sends, sure, answer, after, wire, node>>

(* Mutant of Poll: null decodes into a Receipt whose Status is 0. *)
PollNull(c) ==
  /\ step[c] = "waiting"
  /\ step' = [step EXCEPT ![c] =
                IF [tx |-> Signed(c), ok |-> TRUE] \in chain THEN "done" ELSE "reverted"]
  /\ UNCHANGED <<draft, sends, sure, answer, after, wire, node>>

(* A receipt is there; without one the poll is repeated. *)
Poll(c) ==
  /\ step[c] = "waiting"
  /\ \E m \in chain :
       /\ m.tx = Signed(c)
       /\ step' = [step EXCEPT ![c] = IF m.ok THEN "done" ELSE "reverted"]
  /\ UNCHANGED <<draft, sends, sure, answer, after, wire, node>>

(* A poll fails or the context ends: the sender knows no more than before. *)
WaitFails(c) ==
  /\ step[c] = "waiting"
  /\ step' = [step EXCEPT ![c] = "accepted"]
  /\ UNCHANGED <<draft, sends, sure, answer, after, wire, node>>

ClientNext(c) ==
  \/ Send(c) \/ ReadNonce(c) \/ ReadBase(c) \/ ReadTip(c) \/ FillFails(c)
  \/ Broadcast(c) \/ Answered(c) \/ Broken(c)
  \/ Wait(c) \/ Poll(c) \/ WaitFails(c)

NodeNext ==
  \/ \E t \in wire : Accept(t) \/ Reject(t) \/ Refuse(t)
  \/ \E t \in pool : Mine(t)
  \/ NewBlock

Next == (\E c \in Senders : ClientNext(c)) \/ NodeNext

Spec == Init /\ [][Next]_vars
---------------------------------------------------------------------------
Filling == {"base", "tip", "gas"}
Sent == {"sending", "accepted", "waiting"}
Final == {"reverted", "done"}
Steps == {"idle", "nonce", "failed"} \cup Filling \cup Sent \cup Final
Drafts == [nonce : Nat, tip : Nat \cup {NoPin}, maxFee : Nat, at : Nat]
Transactions == [from : Senders, nonce : Nat, tip : Nat, maxFee : Nat, at : Nat]

ClientOK ==
  /\ step \in [Senders -> Steps]
  /\ draft \in [Senders -> Drafts]
  /\ sends \in [Senders -> Nat]
  /\ sure \in [Senders -> BOOLEAN]
  /\ answer \in [Senders -> {NoAnswer, "hash", "RPCError", "4xx"}]
  /\ after \in [Senders -> SUBSET Transactions]
  /\ \A c \in Senders : step[c] \in {"gas"} \cup Sent \cup Final => draft[c].tip \in Nat
  /\ \A c \in Senders : answer[c] # NoAnswer => step[c] = "sending"

NodeOK ==
  /\ wire \subseteq Transactions /\ pool \subseteq Transactions
  /\ chain \subseteq [tx : Transactions, ok : BOOLEAN]
  /\ base \in Nat /\ block \in Nat
  /\ \A t \in wire \cup pool \cup Mined : t.maxFee >= t.tip

(* The state keeps its shape: only complete transactions are broadcast,    *)
(* each paying its tip, and only a sender waiting for an answer has one.   *)
TypeOK == ClientOK /\ NodeOK

(* The inductive invariant.  What may still perform a sender's intent is   *)
(* in one place at a time: on the wire, in the pool, or performed.         *)
Out(c) == {t \in wire \cup pool : t.from = c}
Performed(c) == {m \in chain : m.ok /\ m.tx.from = c}
Nothing(c) == Out(c) = {} /\ Performed(c) = {}

OnePlace(c) ==
  /\ \A t, u \in Out(c) : t = u
  /\ Out(c) # {} => Performed(c) = {}
  /\ \A t \in Out(c) : t \notin Mined /\ (t \in wire => t \notin pool)
  /\ \A m, n \in Performed(c) : m = n

(* A sender that may send has nothing out, and its draft has a nonce none  *)
(* of its earlier transactions has; one that waits waits for what is out.  *)
Accounted(c) ==
  /\ step[c] \in {"idle", "nonce", "reverted"} \cup Filling => Nothing(c)
  /\ step[c] = "failed" /\ sure[c] => Nothing(c)
  /\ answer[c] = "4xx" => Nothing(c)
  /\ step[c] \in Filling =>
       \A m \in chain : m.tx.from = c => m.tx.nonce # draft[c].nonce
  /\ step[c] \in Sent =>
       Out(c) \cup {m.tx : m \in Performed(c)} \subseteq {Signed(c)}

OneStatus == \A m, n \in chain : m.tx = n.tx => m = n

IInv == TypeOK /\ OneStatus /\ \A c \in Senders : OnePlace(c) /\ Accounted(c)

(* SendRaw "is not retried: ... sending it again risks paying twice for    *)
(* one intent": a sender that sends again after a refusal and after a      *)
(* revert never has its intent performed twice, whatever is lost.          *)
PaidOnce ==
  \A c \in Senders : Cardinality({m \in chain : m.ok /\ m.tx.from = c}) <= 1

(* A pending nonce "is the one to build the next transaction on": one      *)
(* filled in after another Send has returned has a later nonce, so it      *)
(* neither replaces that transaction nor is refused for it.                *)
Ordered ==
  \A c \in Senders :
    step[c] \notin {"idle", "nonce", "failed"} =>
      \A t \in after[c] : t.nonce < draft[c].nonce

(* No transaction waits for a nonce that nobody has used: the nonces of    *)
(* the account run without a gap, so the next one can always be mined.     *)
Gapless == \A n \in UsedNonces : 0..n \subseteq UsedNonces

(* "Twice the current one survives roughly six consecutive full blocks":   *)
(* a transaction priced at most five blocks ago can pay for this one.      *)
HeadroomBlocks == 5
Headroom == \A t \in pool : block - t.at <= HeadroomBlocks => t.maxFee >= base
====
