---- MODULE WalletContracts ----
(***************************************************************************)
(* The three smart wallets on the chain, and what they do with a request   *)
(* that the relayer has wrapped in a transaction of its own: each computes *)
(* the hash its owner must have signed, from the request and from its own  *)
(* counter, and performs the calls it decodes.  Only the shape of the      *)
(* request is the client's.                                                *)
(***************************************************************************)
EXTENDS Submission

Forms == {"SAFE", "PROXY", "WALLET"}

SafeHash(r, n) ==
  [separator |->
     StructHash({"chainId", "verifyingContract"},
                [chainId |-> ChainId, verifyingContract |-> Wallets.SAFE]),
   struct |->
     StructHash("SafeTx",
       [to |-> r.to, value |-> 0, data |-> r.data, operation |-> r.params.operation,
        safeTxGas |-> r.params.safeTxnGas, baseGas |-> r.params.baseGas,
        gasPrice |-> r.params.gasPrice, gasToken |-> r.params.gasToken,
        refundReceiver |-> r.params.refundReceiver, nonce |-> n])]

(* The hub knows who relays. *)
HubHash(r, n, relay) ==
  <<"rlx:", r.from, r.to, r.data, r.params.relayerFee, r.params.gasPrice,
    r.params.gasLimit, n, Contracts.RelayHub, relay>>

BatchHash(r, n) ==
  [separator |->
     StructHash({"name", "version", "chainId", "verifyingContract"},
                [name |-> DomainName, version |-> DomainVersion, chainId |-> ChainId,
                 verifyingContract |-> Wallets.WALLET]),
   struct |->
     StructHash("Batch",
       [wallet |-> Wallets.WALLET, nonce |-> n, deadline |-> r.deposit.deadline,
        calls |-> [i \in DOMAIN r.deposit.calls |->
                    StructHash("Call", r.deposit.calls[i])]])]

(* A signature's v tells a Safe whether the hash was prefixed before it    *)
(* was signed; the hub always prefixes, the deposit wallet never does.     *)
Verifies(r, n, relay) ==
  /\ r.signature.by = Owner
  /\ \/ /\ r.type = "SAFE"
        /\ r.signature.over = IF r.signature.v > 30 THEN PersonalDigest(SafeHash(r, n))
                              ELSE SafeHash(r, n)
     \/ /\ r.type = "PROXY" /\ r.to = Contracts.ProxyFactory
        /\ r.signature.v \in {27, 28}
        /\ r.signature.over = PersonalDigest(HubHash(r, n, relay))
     \/ /\ r.type = "WALLET" /\ r.to = Contracts.DepositWalletFactory
        /\ r.signature.over = BatchHash(r, n)
---------------------------------------------------------------------------
(* The calls a wallet decodes.  The multisend contract walks its entries   *)
(* by their lengths; an entry whose operation is unknown ends the          *)
(* transaction.                                                            *)
Malformed == <<[to |-> 0, value |-> 0, data |-> <<>>, operation |-> "none"]>>

OperationOf(codes, code) ==
  IF \E o \in DOMAIN codes : codes[o] = code
  THEN CHOOSE o \in DOMAIN codes : codes[o] = code
  ELSE "none"

SafeCodes == [Call |-> 0, DelegateCall |-> 1]
ProxyCodes == [Call |-> 1, DelegateCall |-> 2]

EntryHead == 2 + 2 * WordSize
MultiSent(b) ==
  LET entry(p) == [to |-> At(b, p + 1, 1)[1], value |-> WordAt(b, p + 2),
                   data |-> BytesAt(b, p + 2 + WordSize),
                   operation |-> OperationOf(SafeCodes, At(b, p, 1)[1])]
      walk[p \in Nat] == IF p >= Len(b) THEN <<>>
                         ELSE <<entry(p)>> \o walk[p + EntryHead + Len(entry(p).data)]
  IN  walk[0]

SafePerforms(r) ==
  LET operation == OperationOf(SafeCodes, r.params.operation)
  IN  IF r.to = Contracts.SafeMultisend /\ operation = "DelegateCall"
      THEN MultiSent(BytesAt(Tail(r.data), WordAt(Tail(r.data), 0)))
      ELSE <<[to |-> r.to, value |-> 0, data |-> r.data, operation |-> operation]>>

(* proxy((uint8,address,uint256,bytes)[]) *)
ProxyPerforms(r) ==
  LET a == Tail(r.data)
      array == WordAt(a, 0) + WordSize
      tuple(i) == array + WordAt(a, array + (i - 1) * WordSize)
  IN  [i \in 1..WordAt(a, array - WordSize) |->
        [operation |-> OperationOf(ProxyCodes, WordAt(a, tuple(i))),
         to |-> WordAt(a, tuple(i) + WordSize), value |-> WordAt(a, tuple(i) + 2 * WordSize),
         data |-> BytesAt(a, tuple(i) + WordAt(a, tuple(i) + 3 * WordSize))]]

BatchPerforms(r) ==
  [i \in DOMAIN r.deposit.calls |->
    [to |-> r.deposit.calls[i].target, value |-> r.deposit.calls[i].value,
     data |-> r.deposit.calls[i].data, operation |-> "Call"]]

Performs(r) ==
  LET calls == CASE r.type = "SAFE" -> SafePerforms(r)
                 [] r.type = "PROXY" -> ProxyPerforms(r)
                 [] r.type = "WALLET" -> BatchPerforms(r)
  IN  IF \E i \in DOMAIN calls : calls[i].operation = "none" THEN Malformed ELSE calls
====
