---- MODULE MCRelay ----
(***************************************************************************)
(* Two callers that submit three times in all, for each form of wallet:    *)
(* lists of calls with and without data, wei, and delegate calls.          *)
(***************************************************************************)
EXTENDS Relay

MCContracts == [Collateral |-> 1, ConditionalTokens |-> 2, NegRiskAdapter |-> 3,
                SafeMultisend |-> 4, ProxyFactory |-> 5, RelayHub |-> 6,
                DepositWalletFactory |-> 7]
MCWallets == [SAFE |-> 8, PROXY |-> 9, WALLET |-> 10]

Intent(kind, id, list, amount, who) ==
  [kind |-> kind, id |-> id, list |-> list, amount |-> amount, who |-> who]
Plain(intent) == [intent |-> intent, value |-> 0, operation |-> "Call"]

Transfer == Intent("transfer", 0, <<>>, 0, 14)
Split == Intent("split", 777, <<1, 2>>, 1000, 0)
Merge == Intent("merge", 77, <<1, 2>>, 5, 0)
Redeem == Intent("redeem", 19, <<1, 2>>, 0, 0)
NegRiskIntents ==
  <<Intent("negSplit", 78, <<>>, 17, 0), Intent("negMerge", 78, <<>>, 16, 0),
    Intent("negRedeem", 78, <<0, 300>>, 0, 0), Intent("negConvert", 79, <<5>>, 256, 0)>>
Approve == Intent("approve", 0, <<>>, Base^WordSize - 1, 3)
ApproveAll == Intent("approveAll", 0, <<>>, 1, 3)

Delegated(intent) == [intent |-> intent, value |-> 0, operation |-> "DelegateCall"]
Paid(intent, value) == [intent |-> intent, value |-> value, operation |-> "Call"]

Batch ==
  [SAFE |-> <<Plain(Split), Plain(Transfer), Delegated(Transfer), Plain(NegRiskIntents[3])>>,
   PROXY |-> <<Plain(Merge), Delegated(Transfer), Plain(NegRiskIntents[1])>>,
   WALLET |-> <<Plain(Redeem), Paid(Transfer, 300)>>
                \o <<Plain(NegRiskIntents[2]), Plain(NegRiskIntents[4]), Plain(ApproveAll)>>]
TooMuch == Intent("split", 77, <<1, 2>>, Base^WordSize, 0)

NoGas == [price |-> 0, limit |-> 0]
Asked(lists, gases) == [items : lists, gas : gases]
MCAsks ==
  [SAFE |-> Asked({Batch.SAFE, <<Delegated(Approve)>>}, {NoGas}),
   PROXY |-> Asked({Batch.PROXY}, {[price |-> 7, limit |-> 0]}),
   WALLET |-> Asked({Batch.WALLET, <<Plain(TooMuch)>>}, {NoGas})]

Symmetry == Permutations(Callers)
====
