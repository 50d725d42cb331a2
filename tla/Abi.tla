---- MODULE Abi ----
(***************************************************************************)
(* The encodings of internal/abi, over small bytes: a byte is a number     *)
(* below Base, a word has WordSize bytes and an address one.  The four     *)
(* bytes of a selector are one number from Base on: no two of the          *)
(* functions used share theirs.                                            *)
(***************************************************************************)
EXTENDS Integers, Sequences, SequencesExt

CONSTANTS Base, WordSize

ASSUME AbiAssumption == Base \in Nat \ {0, 1} /\ WordSize \in Nat \ {0, 1}

Zeros(n) == [i \in 1..n |-> 0]

(* A number in one word, big-endian; the encoders refuse one that does not *)
(* fit.                                                                    *)
Power[n \in Nat] == IF n = 0 THEN 1 ELSE Base * Power[n - 1]
Fits(x) == x \in 0 .. Power[WordSize] - 1
Word(x) == [i \in 1..WordSize |-> (x \div Power[WordSize - i]) % Base]

PackedAddress(a) == <<a>>
Address(a) == Zeros(WordSize - 1) \o PackedAddress(a)

(* What fills a byte string up to whole words. *)
Padding(b) ==
  LET pad == Len(b) % WordSize
  IN  IF pad # 0 THEN Zeros(WordSize - pad) ELSE <<>>

Names == <<"multiSend", "proxy", "split", "merge", "redeem", "negSplit",
           "negMerge", "negRedeem", "negConvert", "approve", "approveAll">>
Selector(name) == Base + (CHOOSE i \in DOMAIN Names : Names[i] = name)
---------------------------------------------------------------------------
(* Calldata with one bytes argument: the offset, the length, the bytes. *)
EncodeBytesCall(name, payload) ==
  <<Selector(name)>> \o Word(WordSize) \o Word(Len(payload))
                     \o payload \o Padding(payload)

(* An argument is written into the head, or into the tail with its offset  *)
(* in the head.                                                            *)
Word32(w) == [head |-> w, tail |-> <<>>, dynamic |-> FALSE]

ByteString(b) ==
  [head |-> <<>>, dynamic |-> TRUE, tail |-> Word(Len(b)) \o b \o Padding(b)]

HeadSize(args) ==
  Len(FlattenSeq([i \in DOMAIN args |->
        IF args[i].dynamic THEN Zeros(WordSize) ELSE args[i].head]))

(* An offset counts from the start of this list: its head and the tails    *)
(* before.                                                                 *)
Assemble(args) ==
  LET tail(n) == FlattenSeq([i \in 1..n |-> args[i].tail])
      slot(i) == IF args[i].dynamic THEN Word(HeadSize(args) + Len(tail(i - 1)))
                 ELSE args[i].head
  IN  FlattenSeq([i \in DOMAIN args |-> slot(i)]) \o tail(Len(args))

(* Arrays are dynamic, tuples if a member is. *)
List(items) ==
  [head |-> <<>>, dynamic |-> TRUE, tail |-> Word(Len(items)) \o Assemble(items)]

Tuple(members) ==
  IF \E i \in DOMAIN members : members[i].dynamic
  THEN [head |-> <<>>, tail |-> Assemble(members), dynamic |-> TRUE]
  ELSE Word32(FlattenSeq([i \in DOMAIN members |-> members[i].head]))

UintArray(values) == List([i \in DOMAIN values |-> Word32(Word(values[i]))])

EncodeArgsCall(name, args) == <<Selector(name)>> \o Assemble(args)
---------------------------------------------------------------------------
(* How a contract reads bytes b from offset i on. *)
At(b, i, n) == [k \in 1..n |-> IF i + k <= Len(b) THEN b[i + k] ELSE 0]
Number(w) ==
  LET upto[k \in 0..Len(w)] == IF k = 0 THEN 0 ELSE Base * upto[k - 1] + w[k]
  IN  upto[Len(w)]
WordAt(b, i) == Number(At(b, i, WordSize))
BytesAt(b, i) == At(b, i + WordSize, WordAt(b, i))
WordsAt(b, i) == [k \in 1..WordAt(b, i) |-> WordAt(b, i + k * WordSize)]
====
