---- MODULE Positions ----
(***************************************************************************)
(* The calls that trading needs of the token contracts: what               *)
(* onchain/ctf.go and onchain/token.go make of an intent, and what the     *)
(* contracts read from it.                                                 *)
(***************************************************************************)
EXTENDS Abi

CONSTANT Contracts  \* the addresses of one chain; 0 for a contract it lacks

ASSUME ContractsAssumption ==
  Contracts \in [{"Collateral", "ConditionalTokens", "NegRiskAdapter", "SafeMultisend",
                  "ProxyFactory", "RelayHub", "DepositWalletFactory"} -> Nat]

Ctf == {"split", "merge", "redeem"}
NegRisk == {"negSplit", "negMerge", "negRedeem", "negConvert"}
Kinds == Ctf \cup NegRisk \cup {"approve", "approveAll", "transfer"}

(* An intent is a record of its kind and, as far as the kind needs them, a *)
(* condition or market id, a list (index sets, or a neg-risk redemption's  *)
(* amounts), an amount or flag, and a spender or recipient.                *)
Needs ==
  [k \in Kinds |->
    CASE k \in {"split", "merge", "negConvert"} -> {"id", "list", "amount"}
      [] k \in {"redeem", "negRedeem"} -> {"id", "list"}
      [] k \in {"negSplit", "negMerge"} -> {"id", "amount"}
      [] k \in {"approve", "approveAll"} -> {"who", "amount"}
      [] k = "transfer" -> {"who"}]

Intents ==
  {i \in [kind : Kinds, id : Nat, list : Seq(Nat), amount : Nat, who : Nat] :
     /\ "id" \notin Needs[i.kind] => i.id = 0
     /\ "list" \notin Needs[i.kind] => i.list = <<>>
     /\ "amount" \notin Needs[i.kind] => i.amount = 0
     /\ "who" \notin Needs[i.kind] => i.who = 0
     /\ i.kind = "negConvert" => Len(i.list) = 1}

Target(i) ==
  CASE i.kind \in Ctf \cup {"approveAll"} -> Contracts.ConditionalTokens
    [] i.kind \in NegRisk -> Contracts.NegRiskAdapter
    [] i.kind = "approve" -> Contracts.Collateral
    [] i.kind = "transfer" -> i.who

TopCollection == 0

PositionArgs(i) ==
  <<Word32(Address(Contracts.Collateral)), Word32(Word(TopCollection)),
    Word32(Word(i.id)), UintArray(i.list)>>

(* What the builders refuse: an amount or a set that converts nothing, an  *)
(* empty list, and numbers that do not fit a word.                         *)
Positive == {"split", "merge", "negSplit", "negMerge", "negConvert"}
Legal(i) ==
  /\ Fits(i.amount) /\ Fits(i.id) /\ \A k \in DOMAIN i.list : Fits(i.list[k])
  /\ i.kind \in Positive => i.amount > 0
  /\ i.kind \in Ctf \cup {"negRedeem"} => i.list # <<>>
  /\ i.kind = "negConvert" => i.list[1] > 0
  /\ i.kind \in NegRisk => Contracts.NegRiskAdapter # 0

(* Mutant of Args: a conversion's amount comes before its index set. *)
ArgsSwapped(i) ==
  IF i.kind = "negConvert"
  THEN <<Word32(Word(i.id)), Word32(Word(i.amount)), Word32(Word(i.list[1]))>>
  ELSE CASE i.kind \in {"split", "merge"} -> PositionArgs(i) \o <<Word32(Word(i.amount))>>
         [] i.kind = "redeem" -> PositionArgs(i)
         [] i.kind \in {"negSplit", "negMerge"} -> <<Word32(Word(i.id)), Word32(Word(i.amount))>>
         [] i.kind = "negRedeem" -> <<Word32(Word(i.id)), UintArray(i.list)>>
         [] OTHER -> <<Word32(Address(i.who)), Word32(Word(i.amount))>>

Args(i) ==
  CASE i.kind \in {"split", "merge"} -> PositionArgs(i) \o <<Word32(Word(i.amount))>>
    [] i.kind = "redeem" -> PositionArgs(i)
    [] i.kind \in {"negSplit", "negMerge"} -> <<Word32(Word(i.id)), Word32(Word(i.amount))>>
    [] i.kind = "negRedeem" -> <<Word32(Word(i.id)), UintArray(i.list)>>
    [] i.kind = "negConvert" ->
         <<Word32(Word(i.id)), Word32(Word(i.list[1])), Word32(Word(i.amount))>>
    [] i.kind \in {"approve", "approveAll"} ->
         <<Word32(Address(i.who)), Word32(Word(i.amount))>>

Calldata(i) ==
  IF i.kind = "transfer" THEN <<>> ELSE EncodeArgsCall(i.kind, Args(i))
---------------------------------------------------------------------------
(* The contracts.  A contract has its own functions only. *)

NoIntent == [kind |-> "none", id |-> 0, list |-> <<>>, amount |-> 0, who |-> 0]

HasFunction ==
  [k \in Kinds \ {"transfer"} |->
    CASE k \in Ctf \cup {"approveAll"} -> Contracts.ConditionalTokens
      [] k \in NegRisk -> Contracts.NegRiskAdapter
      [] k = "approve" -> Contracts.Collateral]

Read(kind, a) ==
  LET word(n) == WordAt(a, n * WordSize)
      list(n) == WordsAt(a, word(n))
      i == [NoIntent EXCEPT !.kind = kind]
  IN  CASE kind \in Ctf ->
             [i EXCEPT !.id = word(2), !.list = list(3),
                       !.amount = IF kind = "redeem" THEN 0 ELSE word(4)]
        [] kind \in {"negSplit", "negMerge"} -> [i EXCEPT !.id = word(0), !.amount = word(1)]
        [] kind = "negRedeem" -> [i EXCEPT !.id = word(0), !.list = list(1)]
        [] kind = "negConvert" ->
             [i EXCEPT !.id = word(0), !.list = <<word(1)>>, !.amount = word(2)]
        [] OTHER -> [i EXCEPT !.who = word(0), !.amount = word(1)]

(* What a call means to the contract it is sent to. *)
Understood(to, data) ==
  IF data = <<>> THEN [NoIntent EXCEPT !.kind = "transfer", !.who = to]
  ELSE LET kinds == {k \in DOMAIN HasFunction : Selector(k) = data[1] /\ HasFunction[k] = to}
       IN  IF kinds = {} THEN NoIntent
           ELSE Read(CHOOSE k \in kinds : TRUE, Tail(data))
====
