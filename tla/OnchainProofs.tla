---- MODULE OnchainProofs ----
(***************************************************************************)
(* Proofs about Onchain, for any senders, fees, blocks and numbers of      *)
(* sends.                                                                  *)
(***************************************************************************)
EXTENDS Onchain, FiniteSetTheorems, TLAPS

(* Transactions are broadcast as they were filled in. *)
LEMMA SignedType ==
  ASSUME ClientOK, NEW c \in Senders, draft[c].tip \in Nat
  PROVE  /\ Signed(c) \in Transactions
         /\ Signed(c).tip = draft[c].tip /\ Signed(c).maxFee = draft[c].maxFee
  BY DEF ClientOK, Signed, Drafts, Transactions

(* The initial state has its shape. *)
LEMMA InitType == Init => TypeOK
  BY OnchainAssumption
  DEF Init, TypeOK, ClientOK, NodeOK, Blank, NoAnswer, Mined,
      Steps, Filling, Sent, Final, Drafts

(* A sender that gives up keeps the shape of the client. *)
LEMMA FailsType ==
  ASSUME ClientOK, NEW c \in Senders, NEW e \in BOOLEAN, Fails(c, e),
         UNCHANGED <<sends, after>>
  PROVE  ClientOK'
<1>1. Blank \in Drafts
  BY DEF Blank, Drafts
<1> HIDE DEF Blank
<1> QED
  BY <1>1 DEF ClientOK, Fails, Steps, Filling, Sent, Final, NoAnswer

(* Filling a field in keeps the shape of the client. *)
LEMMA FilledType ==
  ASSUME ClientOK, NEW c \in Senders, NEW next \in Filling, Filled(c, next),
         step[c] \in {"nonce", "base", "tip"},
         NEW d \in Drafts, draft' = [draft EXCEPT ![c] = d],
         next = "gas" => d.tip \in Nat
  PROVE  ClientOK'
  BY DEF ClientOK, Filled, Steps, Filling, Sent, Final, NoAnswer

(* A draft with fees is a draft. *)
LEMMA BasedDraft ==
  ASSUME NEW d \in Drafts, NEW fee \in Nat, NEW n \in Nat
  PROVE  [d EXCEPT !.maxFee = fee, !.at = n] \in Drafts
  BY DEF Drafts

LEMMA PricedDraft ==
  ASSUME NEW d \in Drafts, NEW tip \in Nat
  PROVE  /\ Priced(d, tip) \in Drafts
         /\ Priced(d, tip).tip \in Nat
<1> DEFINE own == IF d.tip = NoPin THEN tip ELSE d.tip
<1>1. d.maxFee + tip \in Nat /\ own \in Nat
  BY DEF Drafts
<1>2. Priced(d, tip) = [d EXCEPT !.maxFee = d.maxFee + tip, !.tip = own]
  BY DEF Priced
<1> HIDE DEF own
<1> QED
  BY <1>1, <1>2 DEF Drafts

(* A step of the client keeps the shape of the client. *)
LEMMA ClientType ==
  ASSUME ClientOK, NodeOK, PendingCount \in Nat, NEW c \in Senders, ClientNext(c)
  PROVE  ClientOK'
<1>0. draft[c] \in Drafts
  BY DEF ClientOK
<1>1. CASE Send(c)
  <2>1. after' \in [Senders -> SUBSET Transactions]
    <3>1. \A d \in Holding : d \in Senders /\ Signed(d) \in Transactions
      BY SignedType DEF Holding, ClientOK, Sent, Final
    <3> QED
      BY <1>1, <3>1 DEF Send, ClientOK
  <2>2. PICK pin \in Pins : draft' = [draft EXCEPT ![c] = [Blank EXCEPT !.tip = pin]]
    BY <1>1 DEF Send
  <2>3. [Blank EXCEPT !.tip = pin] \in Drafts
    BY OnchainAssumption DEF Blank, Drafts
  <2>4. draft' \in [Senders -> Drafts]
    BY <2>2, <2>3 DEF ClientOK
  <2> QED
    BY <1>1, <2>1, <2>2, <2>4 DEF Send, ClientOK, Steps, Filling, Sent, Final, NoAnswer
<1>2. CASE ReadNonce(c)
  <2>1. [draft[c] EXCEPT !.nonce = PendingCount] \in Drafts
    BY <1>0 DEF Drafts
  <2>2. draft' = [draft EXCEPT ![c] = [draft[c] EXCEPT !.nonce = PendingCount]]
    BY <1>2 DEF ReadNonce
  <2> QED
    BY <1>2, <2>1, <2>2, FilledType DEF ReadNonce, Filling
<1>3. CASE ReadBase(c)
  <2>1. [draft[c] EXCEPT !.maxFee = 2 * base, !.at = block] \in Drafts
    <3> 2 * base \in Nat /\ block \in Nat
      BY DEF NodeOK
    <3> QED
      BY <1>0, BasedDraft
  <2> QED
    BY <1>3, <2>1, FilledType DEF ReadBase, Filling
<1>4. CASE ReadTip(c)
  <2>1. PICK tip \in Tips : draft' = [draft EXCEPT ![c] = Priced(draft[c], tip)]
    BY <1>4 DEF ReadTip
  <2>2. Priced(draft[c], tip) \in Drafts /\ Priced(draft[c], tip).tip \in Nat
    BY <1>0, OnchainAssumption, PricedDraft
  <2> QED
    BY <1>4, <2>1, <2>2, FilledType DEF ReadTip, Filling
<1>5. CASE FillFails(c)
  BY <1>5, FailsType DEF FillFails
<1>6. CASE Broadcast(c)
  <2>1. CASE draft[c].maxFee < draft[c].tip
    BY <1>6, <2>1, FailsType DEF Broadcast
  <2>2. CASE ~(draft[c].maxFee < draft[c].tip)
    BY <1>6, <2>2 DEF Broadcast, ClientOK, Steps, Filling, Sent, Final, NoAnswer
  <2> QED
    BY <2>1, <2>2
<1>7. CASE Answered(c)
  <2>1. CASE answer[c] = "hash"
    BY <1>7, <2>1 DEF Answered, ClientOK, Steps, Filling, Sent, Final, NoAnswer
  <2>2. CASE answer[c] # "hash"
    <3> DEFINE e == answer[c] = "4xx"
    <3>1. e \in BOOLEAN /\ Fails(c, e) /\ UNCHANGED <<sends, after>>
      BY <1>7, <2>2 DEF Answered
    <3> QED
      BY <3>1, FailsType
  <2> QED
    BY <2>1, <2>2
<1>8. CASE Broken(c)
  BY <1>8, FailsType DEF Broken
<1>9. CASE Wait(c) \/ WaitFails(c) \/ Poll(c)
  BY <1>9 DEF Wait, WaitFails, Poll, ClientOK, Steps, Filling, Sent, Final, NoAnswer
<1> QED
  BY <1>1, <1>2, <1>3, <1>4, <1>5, <1>6, <1>7, <1>8, <1>9 DEF ClientNext

(* What the client does to the node is to put complete transactions on the *)
(* wire.                                                                   *)
LEMMA ClientNode ==
  ASSUME TypeOK, NEW c \in Senders, ClientNext(c)
  PROVE  /\ UNCHANGED node
         /\ \/ UNCHANGED wire
            \/ /\ Broadcast(c)
               /\ wire' = wire \cup {Signed(c)}
               /\ Signed(c) \in Transactions
               /\ Signed(c).maxFee >= Signed(c).tip
<1>1. CASE Broadcast(c) /\ ~(draft[c].maxFee < draft[c].tip)
  <2>1. draft[c].tip \in Nat /\ draft[c].maxFee \in Nat
    BY <1>1 DEF Broadcast, TypeOK, ClientOK, Drafts
  <2> QED
    BY <1>1, <2>1, SignedType DEF Broadcast, TypeOK
<1>2. CASE Broadcast(c) /\ draft[c].maxFee < draft[c].tip
  BY <1>2 DEF Broadcast
<1>3. CASE ~Broadcast(c)
  BY <1>3 DEF ClientNext, Send, ReadNonce, ReadBase, ReadTip, Filled, FillFails,
              Answered, Broken, Wait, Poll, WaitFails
<1> QED
  BY <1>1, <1>2, <1>3

(* A step of the client keeps the shape of the node. *)
LEMMA ClientNodeType ==
  ASSUME TypeOK, NEW c \in Senders, ClientNext(c)
  PROVE  NodeOK'
<1> UNCHANGED node
  BY ClientNode
<1> QED
  BY ClientNode DEF NodeOK, TypeOK, node, Mined

(* An eighth of the base fee. *)
LEMMA Eighth ==
  ASSUME NEW b \in Nat
  PROVE  b \div 8 \in Nat /\ 8 * (b \div 8) <= b
  BY SMT

(* What is mined. *)
LEMMA MinedGrows ==
  ASSUME NEW t, NEW ok, chain' = chain \cup {[tx |-> t, ok |-> ok]}
  PROVE  Mined' = Mined \cup {t}
<1> DEFINE r == [tx |-> t, ok |-> ok]
<1>1. r.tx = t
  OBVIOUS
<1>2. chain' = chain \cup {r}
  OBVIOUS
<1> HIDE DEF r
<1> QED
  BY <1>1, <1>2 DEF Mined

(* A step of the node keeps the shape of both. *)
LEMMA NodeType ==
  ASSUME TypeOK, NodeNext
  PROVE  TypeOK'
<1>1. ASSUME NEW t, t \in wire, Accept(t) \/ Reject(t) \/ Refuse(t)
      PROVE  TypeOK'
  <2>1. ClientOK'
    <3>1. t.from \in Senders
      BY <1>1 DEF TypeOK, NodeOK, Transactions
    <3> QED
      BY <1>1, <3>1 DEF Accept, Reject, Refuse, Tell, TypeOK, ClientOK, NoAnswer
  <2>2. NodeOK'
    BY <1>1 DEF Accept, Reject, Refuse, TypeOK, NodeOK, node, Mined
  <2> QED
    BY <2>1, <2>2 DEF TypeOK
<1>2. ASSUME NEW t, t \in pool, Mine(t)
      PROVE  TypeOK'
  <2>1. PICK ok \in BOOLEAN : chain' = chain \cup {[tx |-> t, ok |-> ok]}
    BY <1>2 DEF Mine
  <2>2. [tx |-> t, ok |-> ok] \in [tx : Transactions, ok : BOOLEAN]
    BY <1>2 DEF TypeOK, NodeOK
  <2>3. Mined' = Mined \cup {t}
    BY <2>1, MinedGrows
  <2>4. NodeOK'
    BY <1>2, <2>1, <2>2, <2>3 DEF Mine, TypeOK, NodeOK
  <2> QED
    BY <1>2, <2>4 DEF Mine, TypeOK, ClientOK, sender
<1>3. CASE NewBlock
  <2>1. base' \in Nat /\ block' \in Nat
    <3>1. base \in Nat /\ block \in Nat
      BY DEF TypeOK, NodeOK
    <3>2. base - base \div 8 \in Nat /\ base + base \div 8 \in Nat
      BY <3>1, Eighth
    <3> QED
      BY <1>3, <3>1, <3>2 DEF NewBlock
  <2> QED
    BY <1>3, <2>1 DEF NewBlock, TypeOK, NodeOK, ClientOK, sender, Mined
<1> QED
  BY <1>1, <1>2, <1>3 DEF NodeNext

(* The pool and the chain are finite. *)
Finite == IsFiniteSet(pool) /\ IsFiniteSet(chain)

LEMMA FiniteStep ==
  ASSUME TypeOK, Finite, [Next]_vars
  PROVE  Finite'
<1>1. ASSUME NEW t, Accept(t)
      PROVE  Finite'
  <2>1. IsFiniteSet({u \in pool : u.nonce # t.nonce})
    BY FS_Subset DEF Finite
  <2> QED
    BY <1>1, <2>1, FS_AddElement DEF Accept, Finite
<1>2. ASSUME NEW t, Mine(t)
      PROVE  Finite'
  BY <1>2, FS_AddElement, FS_RemoveElement DEF Mine, Finite
<1>3. ASSUME NEW t, Reject(t) \/ Refuse(t)
      PROVE  Finite'
  BY <1>3 DEF Reject, Refuse, Finite, node
<1>4. ASSUME NEW c \in Senders, ClientNext(c)
      PROVE  Finite'
  BY <1>4, ClientNode DEF Finite, node
<1> QED
  BY <1>1, <1>2, <1>3, <1>4 DEF Next, NodeNext, NewBlock, Finite, vars

(* A nonempty set of numbers has a least one. *)
LEMMA Least ==
  ASSUME NEW S \in SUBSET Nat, S # {}
  PROVE  \E x \in S : \A y \in S : x <= y
<1> DEFINE R == OpToRel(<, Nat)
<1>1. IsWellFoundedOn(R, Nat)
  BY NatLessThanWellFounded
<1> HIDE DEF R
<1>2. PICK x \in S : \A y \in S : <<y, x>> \notin R
  BY <1>1, WFMin
<1>3. \A k, y \in Nat : <<y, k>> \notin R => ~(y < k)
  BY DEF R, OpToRel
<1>4. \A y \in S : x <= y
  <2> SUFFICES ASSUME NEW y \in S PROVE x <= y
    OBVIOUS
  <2>1. ~(y < x)
    BY <1>2, <1>3
  <2> QED
    BY <2>1
<1> QED
  BY <1>4

(* The nonces in use are finitely many. *)
LEMMA UsedFinite ==
  ASSUME TypeOK, Finite
  PROVE  IsFiniteSet(UsedNonces) /\ UsedNonces \subseteq Nat
<1>1. IsFiniteSet(Mined)
  <2> DEFINE f == [m \in chain |-> m.tx]
  <2>1. f \in Surjection(chain, Mined)
    BY DEF Surjection, Mined
  <2> QED
    BY <2>1, FS_Surjection DEF Finite
<1> DEFINE both == Mined \cup pool
<1>2. IsFiniteSet(both)
  BY <1>1, FS_Union DEF Finite
<1>3. both \subseteq Transactions
  BY DEF TypeOK, NodeOK, Mined
<1> DEFINE f == [t \in both |-> t.nonce]
<1>4. UsedNonces = {t.nonce : t \in both}
  BY DEF UsedNonces
<1> HIDE DEF both
<1>5. f \in Surjection(both, UsedNonces)
  BY <1>4 DEF Surjection
<1>6. UsedNonces \subseteq Nat
  BY <1>3, <1>4 DEF Transactions
<1> QED
  BY <1>2, <1>5, <1>6, FS_Surjection

(* The pending count is the first nonce not in use. *)
LEMMA PendingFresh ==
  ASSUME TypeOK, Finite
  PROVE  /\ PendingCount \in Nat
         /\ PendingCount \notin UsedNonces
         /\ \A k \in Nat : k < PendingCount => k \in UsedNonces
<1> DEFINE n == Cardinality(UsedNonces)
           free == {k \in 0..n : k \notin UsedNonces}
<1>1. IsFiniteSet(UsedNonces) /\ n \in Nat
  BY UsedFinite, FS_CardinalityType
<1>2. free # {}
  <2> SUFFICES ASSUME 0..n \subseteq UsedNonces PROVE FALSE
    OBVIOUS
  <2>1. Cardinality(0..n) <= n
    BY <1>1, FS_Subset
  <2>2. Cardinality(0..n) = n + 1
    BY <1>1, FS_Interval
  <2> QED
    BY <1>1, <2>1, <2>2
<1>3. free \subseteq Nat
  BY <1>1
<1>4. \E x \in free : \A y \in free : x <= y
  BY <1>2, <1>3, Least
<1>5. PendingCount = CHOOSE x \in free : \A y \in free : x =< y
  BY DEF PendingCount, Min
<1> HIDE DEF free
<1>6. PendingCount \in free /\ \A y \in free : PendingCount <= y
  BY <1>4, <1>5
<1>7. \A k \in Nat : k < PendingCount => k \notin free
  BY <1>3, <1>6
<1> HIDE DEF n
<1> QED
  BY <1>1, <1>3, <1>6, <1>7 DEF free

(* The state keeps its shape, for any senders and any fees. *)
THEOREM TypeCorrect == Spec => [](TypeOK /\ Finite)
<1>1. Init => TypeOK /\ Finite
  BY InitType, FS_EmptySet DEF Init, Finite
<1>2. TypeOK /\ Finite /\ [Next]_vars => (TypeOK /\ Finite)'
  <2> SUFFICES ASSUME TypeOK, Finite, [Next]_vars PROVE TypeOK' /\ Finite'
    OBVIOUS
  <2>1. Finite'
    BY FiniteStep
  <2>2. ASSUME NEW c \in Senders, ClientNext(c) PROVE TypeOK'
    BY <2>2, ClientType, ClientNodeType, PendingFresh DEF TypeOK
  <2>3. CASE NodeNext
    BY <2>1, <2>3, NodeType
  <2>4. CASE UNCHANGED vars
    BY <2>1, <2>4 DEF vars, TypeOK, ClientOK, NodeOK, Mined
  <2> QED
    BY <2>1, <2>2, <2>3, <2>4 DEF Next
<1> QED
  BY <1>1, <1>2, PTL DEF Spec

Places == OneStatus /\ \A c \in Senders : OnePlace(c) /\ Accounted(c)

(* What of a transaction identifies its sender and its nonce. *)
LEMMA SignedIs == \A c \in Senders : Signed(c).from = c /\ Signed(c).nonce = draft[c].nonce
  BY DEF Signed

(* A step of one client changes nothing of another. *)
LEMMA OthersKept ==
  ASSUME TypeOK, NEW c \in Senders, ClientNext(c), NEW d \in Senders, d # c
  PROVE  /\ step'[d] = step[d] /\ draft'[d] = draft[d]
         /\ sure'[d] = sure[d] /\ answer'[d] = answer[d]
         /\ Out(d)' = Out(d) /\ chain' = chain /\ pool' = pool
         /\ Signed(d)' = Signed(d)
         /\ \A t : t.from = d => (t \in wire' <=> t \in wire)
<1>1. chain' = chain /\ pool' = pool
  BY ClientNode DEF node
<1>2. /\ step'[d] = step[d] /\ draft'[d] = draft[d]
      /\ sure'[d] = sure[d] /\ answer'[d] = answer[d]
  BY DEF TypeOK, ClientOK, ClientNext, Send, ReadNonce, ReadBase, ReadTip, Filled, FillFails,
         Fails, Broadcast, Answered, Broken, Wait, Poll, WaitFails
<1>3. \A t : t.from = d => (t \in wire' <=> t \in wire)
  BY ClientNode, SignedIs
<1>4. Out(d)' = Out(d)
  BY <1>1, <1>3 DEF Out
<1>5. Signed(d)' = Signed(d)
  BY <1>2 DEF Signed
<1> QED
  BY <1>1, <1>2, <1>3, <1>4, <1>5

(* So it keeps the other's transaction in one place. *)
LEMMA OthersPlaces ==
  ASSUME TypeOK, Places, NEW c \in Senders, ClientNext(c), NEW d \in Senders, d # c
  PROVE  OnePlace(d)' /\ Accounted(d)'
<1>1. OnePlace(d) /\ Accounted(d)
  BY DEF Places
<1>2. Performed(d)' = Performed(d) /\ Mined' = Mined
  BY OthersKept DEF Performed, Mined
<1>3. \A t \in Out(d) : t.from = d
  BY DEF Out
<1>4. OnePlace(d)'
  BY <1>1, <1>2, <1>3, OthersKept DEF OnePlace
<1>5. Accounted(d)'
  BY <1>1, <1>2, OthersKept DEF Accounted, Nothing
<1> QED
  BY <1>4, <1>5

(* A client's own step, other than a broadcast, leaves its transaction     *)
(* Filling in fees leaves the nonce alone. *)
LEMMA PricesKeepNonce ==
  ASSUME ClientOK, NEW c \in Senders, ReadBase(c) \/ ReadTip(c)
  PROVE  draft'[c].nonce = draft[c].nonce
<1>1. draft \in [Senders -> Drafts] /\ draft[c] \in Drafts
  BY DEF ClientOK
<1>2. CASE ReadBase(c)
  BY <1>1, <1>2 DEF ReadBase, Drafts
<1>3. CASE ReadTip(c)
  <2>1. PICK tip \in Tips : draft' = [draft EXCEPT ![c] = Priced(draft[c], tip)]
    BY <1>3 DEF ReadTip
  <2>2. draft'[c] = Priced(draft[c], tip)
    BY <1>1, <2>1
  <2>3. Priced(draft[c], tip).nonce = draft[c].nonce
    BY <1>1 DEF Priced, Drafts
  <2> QED
    BY <2>2, <2>3
<1> QED
  BY <1>2, <1>3

(* where it is, and what the client knows of it stays true.                *)
LEMMA OwnPlaces ==
  ASSUME TypeOK, Finite, Places, NEW c \in Senders, ClientNext(c), UNCHANGED wire
  PROVE  OnePlace(c)' /\ Accounted(c)'
<1>0. OnePlace(c) /\ Accounted(c)
  BY DEF Places
<1>1. chain' = chain /\ pool' = pool
  BY ClientNode DEF node
<1>2. Out(c)' = Out(c) /\ Performed(c)' = Performed(c) /\ Mined' = Mined
  BY <1>1 DEF Out, Performed, Mined
<1>3. OnePlace(c)'
  BY <1>0, <1>1, <1>2 DEF OnePlace
<1>4. answer'[c] = "4xx" => Nothing(c)
  <2>1. answer'[c] = answer[c] \/ answer'[c] = NoAnswer
    BY DEF TypeOK, ClientOK, ClientNext, Send, ReadNonce, ReadBase, ReadTip, Filled, FillFails,
           Fails, Broadcast, Answered, Broken, Wait, Poll, WaitFails
  <2> QED
    BY <1>0, <2>1 DEF Accounted, NoAnswer
<1> SUFFICES Accounted(c)'
  BY <1>3
<1> USE DEF Nothing, Filling, Sent
<1>5. CASE Send(c)
  <2>1. step'[c] = "nonce" /\ Nothing(c)
    BY <1>0, <1>5 DEF Send, Accounted, TypeOK, ClientOK
  <2> QED
    BY <1>2, <1>4, <2>1 DEF Accounted
<1>6. CASE ReadNonce(c)
  <2>1. \A m \in chain : m.tx.nonce # PendingCount
    BY PendingFresh DEF UsedNonces, Mined
  <2>2. draft'[c].nonce = PendingCount
    BY <1>6 DEF ReadNonce, Drafts, TypeOK, ClientOK
  <2>3. step'[c] = "base" /\ Nothing(c)
    BY <1>0, <1>6 DEF ReadNonce, Filled, Accounted, TypeOK, ClientOK
  <2> QED
    BY <1>1, <1>2, <1>4, <2>1, <2>2, <2>3 DEF Accounted
<1>7. CASE ReadBase(c) \/ ReadTip(c)
  <2>1. draft'[c].nonce = draft[c].nonce
    BY <1>7, PricesKeepNonce DEF TypeOK
  <2>2. step[c] \in Filling /\ step'[c] \in Filling
    BY <1>7 DEF ReadBase, ReadTip, Filled, TypeOK, ClientOK
  <2> QED
    BY <1>0, <1>1, <1>2, <1>4, <2>1, <2>2 DEF Accounted
<1>8. CASE FillFails(c) \/ Broken(c)
  <2>1. step'[c] = "failed" /\ (step[c] \in {"nonce"} \cup Filling \/ ~sure'[c])
    BY <1>8 DEF FillFails, Broken, Fails, TypeOK, ClientOK
  <2> QED
    BY <1>0, <1>2, <1>4, <2>1 DEF Accounted
<1>9. CASE Broadcast(c)
  <2>1. Signed(c) \notin wire
    BY <1>0, <1>9, SignedIs DEF Broadcast, Accounted, Out
  <2>2. step'[c] = "failed" /\ ~sure'[c]
    BY <1>9, <2>1 DEF Broadcast, Fails, TypeOK, ClientOK
  <2> QED
    BY <1>2, <1>4, <2>2 DEF Accounted
<1>10. CASE Answered(c)
  <2>1. CASE answer[c] = "hash"
    <3>1. step[c] = "sending" /\ step'[c] = "accepted" /\ Signed(c)' = Signed(c)
      BY <1>10, <2>1 DEF Answered, TypeOK, ClientOK, Signed
    <3> QED
      BY <1>0, <1>2, <1>4, <3>1 DEF Accounted
  <2>2. CASE answer[c] # "hash"
    <3>1. step'[c] = "failed" /\ (sure'[c] => answer[c] = "4xx")
      BY <1>10, <2>2 DEF Answered, Fails, TypeOK, ClientOK
    <3> QED
      BY <1>0, <1>2, <1>4, <3>1 DEF Accounted
  <2> QED
    BY <2>1, <2>2
<1>11. CASE Wait(c) \/ WaitFails(c)
  <2>1. step[c] \in Sent /\ step'[c] \in Sent /\ Signed(c)' = Signed(c)
    BY <1>11 DEF Wait, WaitFails, TypeOK, ClientOK, Signed
  <2> QED
    BY <1>0, <1>2, <1>4, <2>1 DEF Accounted
<1>12. CASE Poll(c)
  <2>1. PICK m \in chain : m.tx = Signed(c) /\ step' = [step EXCEPT ![c] = IF m.ok THEN "done" ELSE "reverted"]
    BY <1>12 DEF Poll
  <2>2. step[c] = "waiting"
    BY <1>12 DEF Poll
  <2>3. CASE m.ok
    <3>1. step'[c] = "done"
      BY <2>1, <2>3 DEF TypeOK, ClientOK
    <3> QED
      BY <1>2, <1>4, <3>1 DEF Accounted
  <2>4. CASE ~m.ok
    <3>1. step'[c] = "reverted"
      BY <2>1, <2>4 DEF TypeOK, ClientOK
    <3>2. Signed(c) \in Mined
      BY <2>1 DEF Mined
    <3>3. Out(c) = {}
      BY <1>0, <2>2, <3>2 DEF Accounted, OnePlace
    <3>4. Performed(c) = {}
      <4> SUFFICES ASSUME NEW n \in Performed(c) PROVE FALSE
        OBVIOUS
      <4>1. n \in chain /\ n.ok /\ n.tx = Signed(c)
        BY <1>0, <2>2 DEF Accounted, Performed
      <4> QED
        BY <2>1, <2>4, <4>1 DEF Places, OneStatus
    <3> QED
      BY <1>2, <1>4, <3>1, <3>3, <3>4 DEF Accounted
  <2> QED
    BY <2>3, <2>4
<1> QED
  BY <1>5, <1>6, <1>7, <1>8, <1>9, <1>10, <1>11, <1>12 DEF ClientNext

(* A broadcast puts the only transaction out that may perform the intent.  *)
LEMMA BroadcastPlaces ==
  ASSUME TypeOK, Places, NEW c \in Senders, Broadcast(c),
         UNCHANGED node, wire' = wire \cup {Signed(c)}
  PROVE  OnePlace(c)' /\ Accounted(c)'
<1> DEFINE t == Signed(c)
<1>1. Nothing(c) /\ \A m \in chain : m.tx.from = c => m.tx.nonce # draft[c].nonce
  BY DEF Places, Accounted, Broadcast, Filling
<1>2. t.from = c /\ t.nonce = draft[c].nonce
  BY SignedIs
<1> HIDE DEF t
<1>3. t \notin wire /\ t \notin pool /\ t \notin Mined
  BY <1>1, <1>2 DEF Nothing, Out, Mined
<1>4. pool' = pool /\ chain' = chain /\ Mined' = Mined /\ wire' = wire \cup {t}
  BY DEF node, Mined, t
<1>5. Out(c)' = {t} /\ Performed(c)' = {}
  BY <1>1, <1>2, <1>4 DEF Nothing, Out, Performed
<1>6. OnePlace(c)'
  BY <1>3, <1>4, <1>5 DEF OnePlace
<1>7. Accounted(c)'
  <2>1. answer[c] = NoAnswer
    BY DEF TypeOK, ClientOK, Broadcast
  <2>2. CASE draft[c].maxFee < draft[c].tip
    BY <1>3, <1>4, <2>2 DEF Broadcast
  <2>3. CASE ~(draft[c].maxFee < draft[c].tip)
    <3>1. step'[c] = "sending" /\ answer'[c] = NoAnswer /\ Signed(c)' = t
      BY <2>1, <2>3 DEF Broadcast, TypeOK, ClientOK, Signed, t
    <3> QED
      BY <1>5, <3>1 DEF Accounted, Filling, Sent, NoAnswer
  <2> QED
    BY <2>2, <2>3
<1> QED
  BY <1>6, <1>7

(* The node takes a transaction off the wire, and may put it in the pool.  *)
LEMMA WirePlaces ==
  ASSUME TypeOK, Places, NEW t \in wire, Accept(t) \/ Reject(t) \/ Refuse(t),
         NEW d \in Senders
  PROVE  OnePlace(d)' /\ Accounted(d)'
<1>1. OnePlace(d) /\ Accounted(d)
  BY DEF Places
<1>2. /\ wire' = wire \ {t} /\ chain' = chain
      /\ pool' \subseteq pool \cup {t}
      /\ UNCHANGED <<step, draft, sure>>
  BY DEF Accept, Reject, Refuse, node
<1>3. Performed(d)' = Performed(d) /\ Mined' = Mined /\ Signed(d)' = Signed(d)
  BY <1>2 DEF Performed, Mined, Signed
<1>4. Out(d)' \subseteq Out(d)
  BY <1>2 DEF Out
<1>5. OnePlace(d)'
  BY <1>1, <1>2, <1>3, <1>4 DEF OnePlace
<1>6. answer'[d] = "4xx" => Nothing(d)'
  <2>1. CASE answer[d] = "4xx"
    BY <1>1, <1>3, <1>4, <2>1 DEF Accounted, Nothing
  <2>2. CASE answer'[d] = "4xx" /\ answer[d] # "4xx"
    <3>1. step[d] = "sending" /\ Signed(d) = t /\ Refuse(t)
      BY <2>2 DEF Accept, Reject, Refuse, Tell, TypeOK, ClientOK
    <3>2. t.from = d /\ pool' = pool
      BY <3>1, SignedIs DEF Refuse, node
    <3>3. t \in Out(d) /\ Out(d) \subseteq {t} /\ t \notin pool
      BY <1>1, <3>1, <3>2 DEF Accounted, Sent, OnePlace, Out
    <3>4. Out(d)' = {} /\ Performed(d) = {}
      BY <1>1, <1>2, <3>2, <3>3 DEF OnePlace, Out
    <3> QED
      BY <1>3, <3>4 DEF Nothing
  <2> QED
    BY <2>1, <2>2
<1>7. Accounted(d)'
  BY <1>1, <1>2, <1>3, <1>4, <1>6 DEF Accounted, Nothing
<1> QED
  BY <1>5, <1>7

(* Mining moves a transaction from the pool to the chain. *)
LEMMA MinePlaces ==
  ASSUME TypeOK, Places, NEW t \in pool, Mine(t)
  PROVE  Places'
<1> PICK ok \in BOOLEAN : chain' = chain \cup {[tx |-> t, ok |-> ok]}
  BY DEF Mine
<1> DEFINE r == [tx |-> t, ok |-> ok]
<1>1. r.tx = t /\ r.ok = ok /\ chain' = chain \cup {r}
  OBVIOUS
<1>2. Mined' = Mined \cup {t}
  BY MinedGrows
<1> HIDE DEF r
<1>3. t.from \in Senders
  BY DEF TypeOK, NodeOK, Transactions
<1>4. t \in Out(t.from) /\ Performed(t.from) = {} /\ t \notin Mined /\ t \notin wire
  BY <1>3 DEF Places, OnePlace, Out
<1>5. OneStatus'
  BY <1>1, <1>4 DEF Places, OneStatus, Mined
<1>6. UNCHANGED <<step, draft, sure, answer, wire>> /\ pool' = pool \ {t}
  BY DEF Mine, sender
<1>7. ASSUME NEW d \in Senders PROVE OnePlace(d)' /\ Accounted(d)'
  <2>1. OnePlace(d) /\ Accounted(d)
    BY DEF Places
  <2>2. Signed(d)' = Signed(d)
    BY <1>6 DEF Signed
  <2>3. CASE d # t.from
    <3>1. Out(d)' = Out(d) /\ Performed(d)' = Performed(d)
      BY <1>1, <1>6, <2>3 DEF Out, Performed
    <3>2. \A u \in Out(d) : u # t
      BY <2>3 DEF Out
    <3>3. OnePlace(d)'
      BY <1>2, <1>6, <2>1, <3>1, <3>2 DEF OnePlace
    <3>4. Accounted(d)'
      BY <1>1, <1>6, <2>1, <2>2, <2>3, <3>1 DEF Accounted, Nothing
    <3> QED
      BY <3>3, <3>4
  <2>4. CASE d = t.from
    <3>1. Out(d) = {t} /\ Performed(d) = {}
      BY <1>4, <2>1, <2>4 DEF OnePlace
    <3>2. Out(d)' = {}
      BY <1>4, <1>6, <3>1 DEF Out
    <3>3. Performed(d)' \subseteq {r}
      BY <1>1, <3>1 DEF Performed
    <3>4. OnePlace(d)'
      BY <3>2, <3>3 DEF OnePlace
    <3>5. /\ step[d] \notin {"idle", "nonce", "reverted"} \cup Filling
          /\ ~(step[d] = "failed" /\ sure[d]) /\ answer[d] # "4xx"
      BY <2>1, <3>1 DEF Accounted, Nothing
    <3>6. step[d] \in Sent => t = Signed(d)
      BY <2>1, <3>1 DEF Accounted
    <3>7. Accounted(d)'
      BY <1>1, <1>6, <2>2, <3>2, <3>3, <3>5, <3>6 DEF Accounted
    <3> QED
      BY <3>4, <3>7
  <2> QED
    BY <2>3, <2>4
<1> QED
  BY <1>5, <1>7 DEF Places

(* Every step keeps each intent in one place. *)
LEMMA PlacesStep ==
  ASSUME TypeOK, Finite, Places, [Next]_vars
  PROVE  Places'
<1>1. ASSUME NEW c \in Senders, ClientNext(c) PROVE Places'
  <2>1. chain' = chain
    BY <1>1, ClientNode DEF node
  <2>2. OneStatus'
    BY <2>1 DEF Places, OneStatus
  <2>3. OnePlace(c)' /\ Accounted(c)'
    BY <1>1, ClientNode, OwnPlaces, BroadcastPlaces
  <2>4. \A d \in Senders : OnePlace(d)' /\ Accounted(d)'
    BY <1>1, <2>3, OthersPlaces
  <2> QED
    BY <2>2, <2>4 DEF Places
<1>2. ASSUME NEW t \in wire, Accept(t) \/ Reject(t) \/ Refuse(t) PROVE Places'
  <2>1. OneStatus'
    BY <1>2 DEF Accept, Reject, Refuse, node, Places, OneStatus
  <2> QED
    BY <1>2, <2>1, WirePlaces DEF Places
<1>3. ASSUME NEW t \in pool, Mine(t) PROVE Places'
  BY <1>3, MinePlaces
<1>4. CASE NewBlock \/ UNCHANGED vars
  <2> UNCHANGED <<sender, wire, pool, chain>>
    BY <1>4 DEF NewBlock, vars, sender
  <2> QED
    BY DEF Places, OneStatus, OnePlace, Accounted, Nothing, Out, Performed, Mined,
           Signed, sender
<1> QED
  BY <1>1, <1>2, <1>3, <1>4 DEF Next, NodeNext

(* The inductive invariant, for any number of senders and sends. *)
THEOREM Invariant == Spec => []IInv
<1>1. Init => Places
  BY DEF Init, Places, OneStatus, OnePlace, Accounted, Nothing, Out, Performed, Mined,
         NoAnswer, Filling, Sent
<1>2. TypeOK /\ Finite /\ Places /\ [Next]_vars => Places'
  BY PlacesStep
<1>3. TypeOK /\ Places => IInv
  BY DEF IInv, Places
<1> QED
  BY <1>1, <1>2, <1>3, TypeCorrect, PTL DEF Spec

(* No sender's intent is performed twice, whatever is lost. *)
THEOREM IntentOnce == Spec => []PaidOnce
<1>1. IInv => PaidOnce
  <2> SUFFICES ASSUME IInv, NEW c \in Senders PROVE Cardinality(Performed(c)) <= 1
    BY DEF PaidOnce, Performed
  <2>1. CASE Performed(c) = {}
    BY <2>1, FS_EmptySet
  <2>2. CASE Performed(c) # {}
    <3>1. PICK m \in Performed(c) : TRUE
      BY <2>2
    <3>2. Performed(c) = {m}
      BY <3>1 DEF IInv, OnePlace
    <3> QED
      BY <3>2, FS_Singleton
  <2> QED
    BY <2>1, <2>2
<1> QED
  BY <1>1, Invariant, PTL
---------------------------------------------------------------------------
(* Nonces. *)

Below(n) == \A k \in Nat : k < n => k \in UsedNonces

(* Every nonce given out has all smaller ones in use; one that a Send has  *)
(* returned, or that was returned before a Send, is in use.                *)
GivenOut ==
  /\ \A c \in Senders : step[c] \in Filling \cup Sent \cup Final => Below(draft[c].nonce)
  /\ \A t \in wire : Below(t.nonce)
  /\ \A n \in UsedNonces : Below(n)
Returned ==
  /\ \A c \in Holding : draft[c].nonce \in UsedNonces
  /\ \A c \in Senders : answer[c] = "hash" => draft[c].nonce \in UsedNonces
  /\ \A c \in Senders : \A t \in after[c] : t.nonce \in UsedNonces
Nonces == GivenOut /\ Returned /\ Ordered

(* A nonce in use stays in use. *)
LEMMA UsedKept ==
  ASSUME TypeOK, [Next]_vars
  PROVE  UsedNonces \subseteq UsedNonces'
<1>1. ASSUME NEW t \in pool, Mine(t) PROVE UsedNonces \subseteq UsedNonces'
  <2>1. Mined' = Mined \cup {t} /\ pool' = pool \ {t}
    BY <1>1, MinedGrows DEF Mine
  <2> QED
    BY <2>1 DEF UsedNonces
<1>2. ASSUME NEW t \in wire, Accept(t) \/ Reject(t) \/ Refuse(t)
      PROVE  UsedNonces \subseteq UsedNonces'
  <2>1. Mined' = Mined
    BY <1>2 DEF Accept, Reject, Refuse, node, Mined
  <2>2. \A u \in pool : \E v \in pool' : v.nonce = u.nonce
    BY <1>2 DEF Accept, Reject, Refuse, node
  <2> QED
    BY <2>1, <2>2 DEF UsedNonces
<1>3. ASSUME NEW c \in Senders, ClientNext(c) PROVE UsedNonces \subseteq UsedNonces'
  BY <1>3, ClientNode DEF node, UsedNonces, Mined
<1>4. CASE NewBlock \/ UNCHANGED vars
  BY <1>4 DEF NewBlock, vars, UsedNonces, Mined
<1> QED
  BY <1>1, <1>2, <1>3, <1>4 DEF Next, NodeNext

(* A step of the client keeps the nonces in order. *)
LEMMA ClientNonces ==
  ASSUME TypeOK, Finite, Nonces, NEW c \in Senders, ClientNext(c)
  PROVE  Nonces'
<1>1. UsedNonces' = UsedNonces /\ \A n : Below(n)' <=> Below(n)
  BY ClientNode DEF node, UsedNonces, Mined, Below
<1>2. \A t \in wire' : t \in wire \/ (Broadcast(c) /\ t = Signed(c))
  BY ClientNode
<1>3. \A t \in wire' : Below(t.nonce)
  BY <1>2, SignedIs DEF Nonces, GivenOut, Broadcast, Filling
<1>4. \A d \in Senders \ {c} : /\ step'[d] = step[d] /\ draft'[d] = draft[d]
                               /\ answer'[d] = answer[d] /\ after'[d] = after[d]
  BY DEF TypeOK, ClientOK, ClientNext, Send, ReadNonce, ReadBase, ReadTip, Filled, FillFails,
         Fails, Broadcast, Answered, Broken, Wait, Poll, WaitFails
<1> DEFINE Own ==
      /\ step'[c] \in Filling \cup Sent \cup Final => Below(draft'[c].nonce)
      /\ c \in Holding' => draft'[c].nonce \in UsedNonces
      /\ answer'[c] = "hash" => draft'[c].nonce \in UsedNonces
      /\ \A t \in after'[c] : t.nonce \in UsedNonces
      /\ step'[c] \notin {"idle", "nonce", "failed"} =>
           \A t \in after'[c] : t.nonce < draft'[c].nonce
<1>5. /\ step[c] \in Filling \cup Sent \cup Final => Below(draft[c].nonce)
      /\ c \in Holding => draft[c].nonce \in UsedNonces
      /\ answer[c] = "hash" => draft[c].nonce \in UsedNonces
      /\ \A t \in after[c] : t.nonce \in UsedNonces
      /\ step[c] \notin {"idle", "nonce", "failed"} =>
           \A t \in after[c] : t.nonce < draft[c].nonce
  BY DEF Nonces, GivenOut, Returned, Ordered
<1>6. Own
  <2> USE DEF TypeOK, ClientOK, Filling, Sent, Final, Holding
  <2>1. CASE Send(c)
    <3>1. step'[c] = "nonce" /\ answer'[c] = NoAnswer /\ after'[c] = {Signed(d) : d \in Holding}
      BY <2>1 DEF Send
    <3>2. \A d \in Holding : Signed(d).nonce \in UsedNonces
      BY SignedIs DEF Nonces, Returned
    <3> QED
      BY <3>1, <3>2 DEF NoAnswer
  <2>2. CASE ReadNonce(c)
    <3>1. /\ step'[c] = "base" /\ draft'[c].nonce = PendingCount
          /\ answer'[c] = NoAnswer /\ after'[c] = after[c]
      BY <2>2 DEF ReadNonce, Filled, Drafts
    <3>2. PendingCount \in Nat /\ PendingCount \notin UsedNonces /\ Below(PendingCount)
      BY PendingFresh DEF Below
    <3>3. ASSUME NEW t \in after[c] PROVE t.nonce < PendingCount
      <4>1. t.nonce \in Nat /\ t.nonce \in UsedNonces /\ Below(t.nonce)
        BY <1>5 DEF Transactions, Nonces, GivenOut
      <4> QED
        BY <3>2, <4>1 DEF Below
    <3> QED
      BY <1>5, <3>1, <3>2, <3>3 DEF NoAnswer
  <2>3. CASE ReadBase(c) \/ ReadTip(c)
    <3>1. /\ step[c] \in Filling /\ step'[c] \in Filling
          /\ answer'[c] = answer[c] /\ after'[c] = after[c]
      BY <2>3 DEF ReadBase, ReadTip, Filled
    <3>2. draft'[c].nonce = draft[c].nonce
      BY <2>3, PricesKeepNonce
    <3> QED
      BY <1>5, <3>1, <3>2
  <2>4. CASE FillFails(c) \/ Broken(c)
    <3>1. step'[c] = "failed" /\ answer'[c] = NoAnswer /\ after'[c] = after[c]
      BY <2>4 DEF FillFails, Broken, Fails
    <3> QED
      BY <1>5, <3>1 DEF NoAnswer
  <2>5. CASE Broadcast(c)
    <3>1. answer'[c] = NoAnswer /\ after'[c] = after[c]
      BY <2>5 DEF Broadcast, Fails
    <3>2. step'[c] = "failed" \/ (step'[c] = "sending" /\ draft'[c] = draft[c] /\ step[c] = "gas")
      BY <2>5 DEF Broadcast, Fails
    <3> QED
      BY <1>5, <3>1, <3>2 DEF NoAnswer
  <2>6. CASE Answered(c)
    <3>1. answer'[c] = NoAnswer /\ after'[c] = after[c]
      BY <2>6 DEF Answered, Fails
    <3>2. \/ step'[c] = "failed"
          \/ step'[c] = "accepted" /\ draft'[c] = draft[c]
             /\ step[c] = "sending" /\ answer[c] = "hash"
      BY <2>6 DEF Answered, Fails
    <3> QED
      BY <1>5, <3>1, <3>2 DEF NoAnswer
  <2>7. CASE Wait(c) \/ WaitFails(c) \/ Poll(c)
    <3>1. /\ step[c] \in Sent /\ c \in Holding
          /\ step'[c] \in Sent \cup Final
          /\ draft'[c] = draft[c] /\ answer'[c] = answer[c] /\ after'[c] = after[c]
      BY <2>7 DEF Wait, WaitFails, Poll
    <3> QED
      BY <1>5, <3>1
  <2> QED
    BY <2>1, <2>2, <2>3, <2>4, <2>5, <2>6, <2>7 DEF ClientNext
<1> HIDE DEF Own
<1>7. GivenOut'
  <2>1. ASSUME NEW d \in Senders, step'[d] \in Filling \cup Sent \cup Final
        PROVE  Below(draft'[d].nonce)
    BY <1>4, <1>6, <2>1 DEF Own, Nonces, GivenOut
  <2>2. \A n \in UsedNonces : Below(n)
    BY DEF Nonces, GivenOut
  <2> QED
    BY <1>1, <1>3, <2>1, <2>2 DEF GivenOut
<1>8. Returned'
  BY <1>1, <1>4, <1>6 DEF Own, Nonces, Returned, Holding
<1>9. Ordered'
  BY <1>4, <1>6 DEF Own, Nonces, Ordered
<1> QED
  BY <1>7, <1>8, <1>9 DEF Nonces

(* A step of the node keeps the nonces in order. *)
LEMMA NodeNonces ==
  ASSUME TypeOK, Nonces, NodeNext
  PROVE  Nonces'
<1>1. UsedNonces \subseteq UsedNonces' /\ \A n : Below(n) => Below(n)'
  BY UsedKept DEF Next, Below
<1>2. UNCHANGED <<step, draft, after>>
  BY DEF NodeNext, Accept, Reject, Refuse, Mine, NewBlock, sender
<1>3. \A n \in UsedNonces' : n \in UsedNonces \/ \E t \in wire : t.nonce = n
  <2>1. ASSUME NEW t \in pool, Mine(t) PROVE UsedNonces' \subseteq UsedNonces
    <3>1. Mined' = Mined \cup {t} /\ pool' = pool \ {t}
      BY <2>1, MinedGrows DEF Mine
    <3> QED
      BY <3>1 DEF UsedNonces
  <2>2. ASSUME NEW t \in wire, Accept(t) \/ Reject(t) \/ Refuse(t)
        PROVE  \A n \in UsedNonces' : n \in UsedNonces \/ t.nonce = n
    BY <2>2 DEF Accept, Reject, Refuse, node, UsedNonces, Mined
  <2>3. CASE NewBlock
    BY <2>3 DEF NewBlock, UsedNonces, Mined
  <2> QED
    BY <2>1, <2>2, <2>3 DEF NodeNext
<1>4. wire' \subseteq wire
  BY DEF NodeNext, Accept, Reject, Refuse, node, Mine, NewBlock
<1>5. ASSUME NEW c \in Senders, answer'[c] = "hash" PROVE draft[c].nonce \in UsedNonces'
  <2>1. CASE answer[c] = "hash"
    BY <1>1, <2>1 DEF Nonces, Returned
  <2>2. CASE answer[c] # "hash"
    <3>1. PICK t \in wire : Accept(t) /\ Signed(c) = t
      BY <1>5, <2>2 DEF NodeNext, Accept, Reject, Refuse, Tell, Mine, NewBlock, sender,
                        TypeOK, ClientOK
    <3>2. t \in pool'
      BY <3>1 DEF Accept
    <3> QED
      BY <3>1, <3>2, SignedIs DEF UsedNonces
  <2> QED
    BY <2>1, <2>2
<1>6. GivenOut'
  <2>1. \A n \in UsedNonces' : Below(n)
    BY <1>3 DEF Nonces, GivenOut
  <2> QED
    BY <1>1, <1>2, <1>4, <2>1 DEF Nonces, GivenOut
<1>7. Returned'
  BY <1>1, <1>2, <1>5 DEF Nonces, Returned, Holding
<1>8. Ordered'
  BY <1>2 DEF Nonces, Ordered
<1> QED
  BY <1>6, <1>7, <1>8 DEF Nonces

(* The nonces given out are in order, for any senders. *)
THEOREM NoncesInOrder == Spec => [](Ordered /\ Gapless)
<1>1. Init => Nonces
  BY DEF Init, Nonces, GivenOut, Returned, Ordered, Holding, UsedNonces, Mined, NoAnswer,
         Filling, Sent, Final
<1>2. TypeOK /\ Finite /\ Nonces /\ [Next]_vars => Nonces'
  <2> SUFFICES ASSUME TypeOK, Finite, Nonces, [Next]_vars PROVE Nonces'
    OBVIOUS
  <2>1. CASE UNCHANGED vars
    BY <2>1 DEF vars, Nonces, GivenOut, Returned, Ordered, Holding, Below, UsedNonces, Mined
  <2> QED
    BY <2>1, ClientNonces, NodeNonces DEF Next
<1>3. TypeOK /\ Nonces => Ordered /\ Gapless
  <2> SUFFICES ASSUME TypeOK, Nonces, NEW n \in UsedNonces, NEW k \in 0..n
               PROVE  k \in UsedNonces
    BY DEF Nonces, Gapless
  <2>1. n \in Nat
    BY DEF UsedNonces, Mined, TypeOK, NodeOK, Transactions
  <2> QED
    BY <2>1 DEF Nonces, GivenOut, Below
<1> QED
  BY <1>1, <1>2, <1>3, TypeCorrect, PTL DEF Spec
---------------------------------------------------------------------------
(* Fees. *)

(* Each block multiplies the base fee by at most 9/8, and a price starts   *)
(* at twice the base fee: what is left of it after each block.             *)
Lasts(fee, at) ==
  /\ at <= block
  /\ block = at => fee >= 2 * base
  /\ block = at + 1 => 9 * fee >= 16 * base
  /\ block = at + 2 => 81 * fee >= 128 * base
  /\ block = at + 3 => 729 * fee >= 1024 * base
  /\ block = at + 4 => 6561 * fee >= 8192 * base
  /\ block = at + 5 => 59049 * fee >= 65536 * base

Prices ==
  /\ \A c \in Senders : step[c] \in {"tip", "gas"} => Lasts(draft[c].maxFee, draft[c].at)
  /\ \A t \in wire \cup pool : Lasts(t.maxFee, t.at)

(* A higher price lasts as long, and any price outlasts one block.         *)
LEMMA LastsMore ==
  ASSUME base \in Nat, block \in Nat, NEW at \in Nat, NEW fee \in Nat, NEW tip \in Nat,
         Lasts(fee, at)
  PROVE  Lasts(fee + tip, at)
  BY DEF Lasts

LEMMA Growth ==
  ASSUME NEW b \in Nat, NEW next \in Int, 8 * next <= 9 * b, NEW fee \in Nat
  PROVE  /\ fee >= 2 * b => 9 * fee >= 16 * next
         /\ 9 * fee >= 16 * b => 81 * fee >= 128 * next
         /\ 81 * fee >= 128 * b => 729 * fee >= 1024 * next
         /\ 729 * fee >= 1024 * b => 6561 * fee >= 8192 * next
         /\ 6561 * fee >= 8192 * b => 59049 * fee >= 65536 * next
  BY SMT

LEMMA LastsNext ==
  ASSUME NodeOK, NewBlock, NEW at \in Nat, NEW fee \in Nat, Lasts(fee, at)
  PROVE  Lasts(fee, at)'
<1> DEFINE e == base \div 8
<1>1. base \in Nat /\ block \in Nat
  BY DEF NodeOK
<1>2. e \in Nat /\ 8 * e <= base
  BY <1>1, Eighth
<1>3. (base' = base - e \/ base' = base + e) /\ block' = block + 1
  BY DEF NewBlock
<1> HIDE DEF e
<1>4. base' \in Int /\ 8 * base' <= 9 * base
  BY <1>1, <1>2, <1>3
<1>5. /\ block = at => 9 * fee >= 16 * base'
      /\ block = at + 1 => 81 * fee >= 128 * base'
      /\ block = at + 2 => 729 * fee >= 1024 * base'
      /\ block = at + 3 => 6561 * fee >= 8192 * base'
      /\ block = at + 4 => 59049 * fee >= 65536 * base'
  <2> DEFINE next == base'
  <2>1. next \in Int /\ 8 * next <= 9 * base
    BY <1>4
  <2> HIDE DEF next
  <2>2. /\ fee >= 2 * base => 9 * fee >= 16 * next
        /\ 9 * fee >= 16 * base => 81 * fee >= 128 * next
        /\ 81 * fee >= 128 * base => 729 * fee >= 1024 * next
        /\ 729 * fee >= 1024 * base => 6561 * fee >= 8192 * next
        /\ 6561 * fee >= 8192 * base => 59049 * fee >= 65536 * next
    BY <1>1, <2>1, Growth
  <2> QED
    BY <2>2 DEF Lasts, next
<1>6. at <= block' /\ block' # at
  BY <1>1, <1>3 DEF Lasts
<1> QED
  BY <1>1, <1>3, <1>5, <1>6 DEF Lasts

(* A step of the client prices by the latest block. *)
LEMMA ClientPrices ==
  ASSUME TypeOK, Prices, NEW c \in Senders, ClientNext(c)
  PROVE  Prices'
<1>1. base' = base /\ block' = block /\ pool' = pool
  BY ClientNode DEF node
<1>2. \A fee, at : Lasts(fee, at)' <=> Lasts(fee, at)
  BY <1>1 DEF Lasts
<1>3. \A d \in Senders \ {c} : step'[d] = step[d] /\ draft'[d] = draft[d]
  BY OthersKept
<1>4. \A t \in wire' : Lasts(t.maxFee, t.at)
  <2>1. Broadcast(c) => Lasts(Signed(c).maxFee, Signed(c).at)
    BY DEF Broadcast, Prices, Signed
  <2> QED
    BY <2>1, ClientNode DEF Prices
<1>5. draft[c] \in Drafts /\ base \in Nat /\ block \in Nat
  BY DEF TypeOK, ClientOK, NodeOK
<1>6. step'[c] \in {"tip", "gas"} => Lasts(draft'[c].maxFee, draft'[c].at)
  <2>1. CASE ReadBase(c)
    <3>1. draft'[c] = [draft[c] EXCEPT !.maxFee = 2 * base, !.at = block]
      BY <2>1 DEF ReadBase, TypeOK, ClientOK
    <3>2. draft'[c].maxFee = 2 * base /\ draft'[c].at = block
      BY <1>5, <3>1 DEF Drafts
    <3>3. Lasts(2 * base, block)
      BY <1>5 DEF Lasts
    <3> QED
      BY <3>2, <3>3
  <2>2. CASE ReadTip(c)
    <3>1. PICK tip \in Tips : draft' = [draft EXCEPT ![c] = Priced(draft[c], tip)]
      BY <2>2 DEF ReadTip
    <3>2. draft'[c].maxFee = draft[c].maxFee + tip /\ draft'[c].at = draft[c].at
      BY <1>5, <3>1 DEF Priced, Drafts, TypeOK, ClientOK
    <3>3. /\ Lasts(draft[c].maxFee, draft[c].at) /\ tip \in Nat
          /\ draft[c].maxFee \in Nat /\ draft[c].at \in Nat
      BY <1>5, <2>2, OnchainAssumption DEF ReadTip, Prices, Drafts
    <3> QED
      BY <1>5, <3>2, <3>3, LastsMore
  <2>3. CASE ~ReadBase(c) /\ ~ReadTip(c)
    <3>1. step'[c] \notin {"tip", "gas"}
      BY <2>3 DEF TypeOK, ClientOK, ClientNext, Send, ReadNonce, Filled, FillFails, Fails,
                  Broadcast, Answered, Broken, Wait, Poll, WaitFails
    <3> QED
      BY <3>1
  <2> QED
    BY <2>1, <2>2, <2>3
<1> QED
  BY <1>1, <1>2, <1>3, <1>4, <1>6 DEF Prices

(* A step of the node leaves the prices as they are. *)
LEMMA NodePrices ==
  ASSUME TypeOK, Prices, NodeNext
  PROVE  Prices'
<1>1. CASE NewBlock
  <2>1. UNCHANGED <<step, draft, wire, pool>>
    BY <1>1 DEF NewBlock, sender
  <2>2. \A fee, at \in Nat : Lasts(fee, at) => Lasts(fee, at)'
    BY <1>1, LastsNext DEF TypeOK
  <2>3. \A c \in Senders : draft[c].maxFee \in Nat /\ draft[c].at \in Nat
    BY DEF TypeOK, ClientOK, Drafts
  <2>4. \A t \in wire \cup pool : t.maxFee \in Nat /\ t.at \in Nat
    BY DEF TypeOK, NodeOK, Transactions
  <2> QED
    BY <2>1, <2>2, <2>3, <2>4 DEF Prices
<1>2. CASE ~NewBlock
  <2>1. /\ UNCHANGED <<step, draft, base, block>>
        /\ wire' \cup pool' \subseteq wire \cup pool
    BY <1>2 DEF NodeNext, Accept, Reject, Refuse, Mine, sender, node
  <2>2. \A fee, at : Lasts(fee, at)' <=> Lasts(fee, at)
    BY <2>1 DEF Lasts
  <2> QED
    BY <2>1, <2>2 DEF Prices
<1> QED
  BY <1>1, <1>2

(* A transaction can be mined for five blocks after it was priced, for any *)
(* base fee and any tips.                                                  *)
THEOREM PriceLasts == Spec => []Headroom
<1>1. Init => Prices
  BY DEF Init, Prices
<1>2. TypeOK /\ Prices /\ [Next]_vars => Prices'
  <2> SUFFICES ASSUME TypeOK, Prices, [Next]_vars PROVE Prices'
    OBVIOUS
  <2>1. CASE UNCHANGED vars
    BY <2>1 DEF vars, Prices, Lasts
  <2> QED
    BY <2>1, ClientPrices, NodePrices DEF Next
<1>3. TypeOK /\ Prices => Headroom
  <2> SUFFICES ASSUME TypeOK, Prices, NEW t \in pool, block - t.at <= HeadroomBlocks
               PROVE  t.maxFee >= base
    BY DEF Headroom
  <2>1. /\ t.maxFee \in Nat /\ t.at \in Nat
        /\ base \in Nat /\ block \in Nat
    BY DEF TypeOK, NodeOK, Transactions
  <2>2. Lasts(t.maxFee, t.at)
    BY DEF Prices
  <2> QED
    BY <2>1, <2>2 DEF Lasts, HeadroomBlocks
<1> QED
  BY <1>1, <1>2, <1>3, TypeCorrect, PTL DEF Spec
====
