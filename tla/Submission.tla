---- MODULE Submission ----
(***************************************************************************)
(* The requests of relayer/transaction.go: what a wallet's owner signs for *)
(* a list of calls, and the body that carries it to the relayer.  Zero     *)
(* stands for an absent field and for an address that does not parse.      *)
(***************************************************************************)
EXTENDS Positions

CONSTANTS
  Wallets,  \* the addresses of the owner's wallets, by form
  Owner,    \* the owner's address
  ChainId,
  Deadline  \* of a batch

ASSUME SubmissionAssumption ==
  /\ DOMAIN Wallets = {"SAFE", "PROXY", "WALLET"}
  /\ ChainId # 0 /\ \A f \in DOMAIN Wallets : Wallets[f] # 0

(* A call is made of an item: an intent, wei to send along, and how the    *)
(* wallet is to perform it.                                                *)
Items == [intent : Intents, value : Nat, operation : {"Call", "DelegateCall"}]

CallOf(item) == [to |-> Target(item.intent), data |-> Calldata(item.intent),
                 value |-> item.value, operation |-> item.operation]

CallsOf(items) == [i \in DOMAIN items |-> CallOf(items[i])]

Decodes(call) == call.to # 0 /\ Fits(call.value)
AllDecode(calls) == \A i \in DOMAIN calls : Decodes(calls[i])

SafeCode(operation) == IF operation = "Call" THEN 0 ELSE 1

ProxyCode(operation) == SafeCode(operation) + 1

(* Keccak256 is an injection: a hash is represented by what is hashed.     *)
(* Numbers and addresses hash to themselves.                               *)
StructHash(type, message) == [type |-> type, message |-> message]

(* A field a domain does not have, here zero, is not part of its type. *)
Separator(domain) ==
  LET fields == {f \in DOMAIN domain : domain[f] # 0}
  IN  StructHash(fields, [f \in fields |-> domain[f]])

Digest(separator, structHash) == [separator |-> separator, struct |-> structHash]
PersonalDigest(b) == [personal |-> b]

Sign(digest) == [by |-> Owner, over |-> digest, v |-> 27]

NoParams == [gasPrice |-> 0, operation |-> 0, safeTxnGas |-> 0, baseGas |-> 0,
             gasToken |-> 0, refundReceiver |-> 0, relayerFee |-> 0,
             gasLimit |-> 0, relayHub |-> 0, relay |-> 0]
NoDeposit == [wallet |-> 0, deadline |-> 0, calls |-> <<>>]

NoRequest ==
  [type |-> "none", from |-> 0, to |-> 0, proxyWallet |-> 0, data |-> <<>>, nonce |-> 0,
   signature |-> Sign(0), params |-> NoParams,
   deposit |-> NoDeposit]
---------------------------------------------------------------------------
(* A Safe. *)

PackMultisend(calls) ==
  FlattenSeq([i \in DOMAIN calls |->
    <<SafeCode(calls[i].operation)>> \o PackedAddress(calls[i].to) \o Word(calls[i].value)
      \o Word(Len(calls[i].data)) \o calls[i].data])

(* One call goes straight to its target. *)
Aggregate(calls) ==
  IF Len(calls) = 1 THEN calls[1]
  ELSE [to |-> Contracts.SafeMultisend, value |-> 0, operation |-> "DelegateCall",
        data |-> EncodeBytesCall("multiSend", PackMultisend(calls))]

SafeBuilds(calls) ==
  /\ calls # <<>>
  /\ Len(calls) > 1 => Contracts.SafeMultisend # 0
  /\ AllDecode(calls)

SafeDigest(call, nonce) ==
  Digest(Separator([name |-> 0, version |-> 0, chainId |-> ChainId,
                    verifyingContract |-> Wallets.SAFE]),
         StructHash("SafeTx",
           [to |-> call.to, value |-> call.value, data |-> call.data,
            operation |-> SafeCode(call.operation), safeTxGas |-> 0, baseGas |-> 0,
            gasPrice |-> 0, gasToken |-> 0, refundReceiver |-> 0, nonce |-> nonce]))

SafeSignature(sig) == [sig EXCEPT !.v = IF @ \in {0, 1} THEN @ + 31 ELSE @ + 4]

BuildSafeTransaction(calls, nonce) ==
  LET call == Aggregate(calls)
  IN  [NoRequest EXCEPT
        !.type = "SAFE", !.from = Owner, !.to = call.to, !.proxyWallet = Wallets.SAFE,
        !.data = call.data, !.nonce = nonce,
        !.signature = SafeSignature(Sign(PersonalDigest(SafeDigest(call, nonce)))),
        !.params.operation = SafeCode(call.operation)]
---------------------------------------------------------------------------
(* A proxy wallet. *)

(* Mutant of EncodeProxyCalls: offsets count from the length word. *)
EncodeProxyCallsShifted(calls) ==
  LET element(i) ==
        Word(ProxyCode(calls[i].operation)) \o Address(calls[i].to) \o Word(calls[i].value)
          \o Word(4 * WordSize) \o Word(Len(calls[i].data))
          \o calls[i].data \o Padding(calls[i].data)
      body(n) == FlattenSeq([i \in 1..n |-> element(i)])
      offset(i) == Word(WordSize * Len(calls) + WordSize + Len(body(i - 1)))
  IN  <<Selector("proxy")>> \o Word(WordSize) \o Word(Len(calls))
        \o FlattenSeq([i \in DOMAIN calls |-> offset(i)]) \o body(Len(calls))

(* An array of tuples that end in a bytes member: one offset per call, and *)
(* another inside each call.                                               *)
EncodeProxyCalls(calls) ==
  LET element(i) ==
        Word(ProxyCode(calls[i].operation)) \o Address(calls[i].to) \o Word(calls[i].value)
          \o Word(4 * WordSize) \o Word(Len(calls[i].data))
          \o calls[i].data \o Padding(calls[i].data)
      body(n) == FlattenSeq([i \in 1..n |-> element(i)])
      offset(i) == Word(WordSize * Len(calls) + Len(body(i - 1)))
  IN  <<Selector("proxy")>> \o Word(WordSize) \o Word(Len(calls))
        \o FlattenSeq([i \in DOMAIN calls |-> offset(i)]) \o body(Len(calls))

ProxyBuilds(calls) ==
  /\ Contracts.ProxyFactory # 0 /\ Contracts.RelayHub # 0
  /\ calls # <<>>
  /\ AllDecode(calls)

Gases == [price : Nat, limit : Nat]
DefaultProxyGasLimit == 100
OrDefault(v, def) == IF v = 0 THEN def ELSE v

(* Not typed data: the fields are concatenated, and only the calldata's    *)
(* length varies.                                                          *)
ProxyRelayHash(calls, nonce, relay, gas) ==
  <<"rlx:", Owner, Contracts.ProxyFactory, EncodeProxyCalls(calls), 0,
    OrDefault(gas.price, 0), OrDefault(gas.limit, DefaultProxyGasLimit), nonce,
    Contracts.RelayHub, relay>>

(* Mutant of BuildProxyTransaction: the default is signed and not sent. *)
BuildProxyTransactionUndefaulted(calls, nonce, relay, gas) ==
  [NoRequest EXCEPT
    !.type = "PROXY", !.from = Owner, !.to = Contracts.ProxyFactory,
    !.proxyWallet = Wallets.PROXY, !.data = EncodeProxyCalls(calls), !.nonce = nonce,
    !.signature = Sign(PersonalDigest(ProxyRelayHash(calls, nonce, relay, gas))),
    !.params = [NoParams EXCEPT !.gasPrice = gas.price, !.gasLimit = gas.limit,
                                !.relayHub = Contracts.RelayHub, !.relay = relay]]

BuildProxyTransaction(calls, nonce, relay, gas) ==
  [NoRequest EXCEPT
    !.type = "PROXY", !.from = Owner, !.to = Contracts.ProxyFactory,
    !.proxyWallet = Wallets.PROXY, !.data = EncodeProxyCalls(calls), !.nonce = nonce,
    !.signature = Sign(PersonalDigest(ProxyRelayHash(calls, nonce, relay, gas))),
    !.params = [NoParams EXCEPT
                  !.gasPrice = OrDefault(gas.price, 0),
                  !.gasLimit = OrDefault(gas.limit, DefaultProxyGasLimit),
                  !.relayHub = Contracts.RelayHub, !.relay = relay]]
---------------------------------------------------------------------------
(* A deposit wallet.  A batch may be empty. *)

DomainName == 1
DomainVersion == 1

BatchCalls(calls) ==
  [i \in DOMAIN calls |-> [target |-> calls[i].to, value |-> calls[i].value,
                           data |-> calls[i].data]]

BatchDigest(calls, nonce) ==
  Digest(Separator([name |-> DomainName, version |-> DomainVersion, chainId |-> ChainId,
                    verifyingContract |-> Wallets.WALLET]),
         StructHash("Batch",
           [wallet |-> Wallets.WALLET, nonce |-> nonce, deadline |-> Deadline,
            calls |-> [i \in DOMAIN calls |-> StructHash("Call", BatchCalls(calls)[i])]]))

BuildWalletBatch(calls, nonce) ==
  [NoRequest EXCEPT
    !.type = "WALLET", !.from = Owner, !.to = Contracts.DepositWalletFactory,
    !.nonce = nonce, !.signature = Sign(BatchDigest(calls, nonce)),
    !.deposit = [wallet |-> Wallets.WALLET, deadline |-> Deadline,
                 calls |-> BatchCalls(calls)]]
====
