--------------------------- MODULE PureFunctions ----------------------------
(***************************************************************************)
(* The pure functions around a unit of work, each checked by itself: a     *)
(* behavior is WorkUnit's, or it is about one input of one function and    *)
(* stays there. What each must satisfy is stated in the function's module. *)
(***************************************************************************)
EXTENDS WorkUnit

CONSTANTS
  Inputs,     \* the inputs of the functions
  Byte,       \* Encoding and NonceSearch: 256
  Size,       \* NonceSearch: the bytes of a hash, 32
  NONCES,     \* NonceSearch: 2 ^ 32
  BATCH,      \* NonceSearch: nonces per batch
  MAGIC, KeyLength, CHUNK, GENESIS, Parent  \* BlkScan

Encodings == INSTANCE Encoding
Scripts == INSTANCE Script
Nonce == INSTANCE NonceSearch WITH U32 <- NONCES
Header == INSTANCE HeaderHash
Blk == INSTANCE BlkScan

-----------------------------------------------------------------------------
(* What the functions are given.                                           *)

\* 2 ^ 32, written so that every number fits TLC's.
IsU32(n) == n \in Nat /\ n \div 65536 < 65536

\* The bits of a compact target, whose bytes may be any.
IsCompact(bits) ==
  /\ bits.exponent \in Nat /\ bits.negative \in BOOLEAN
  /\ bits.mantissa \in [1 .. 3 -> 0 .. Byte - 1]

\* The blocks that there are, numbered so that a parent comes before its child: a hash
\* covers the parent's, so that no block descends from itself.
BlockTree ==
  /\ DOMAIN Parent \subseteq Nat /\ GENESIS \in DOMAIN Parent
  /\ \A b \in DOMAIN Parent : Parent[b] \in Nat /\ Parent[b] < b
  /\ Parent[GENESIS] \notin DOMAIN Parent
  /\ \A b \in DOMAIN Parent \ {GENESIS} : Parent[b] \in DOMAIN Parent

\* Records of blocks that there are.
AreRecords(records) ==
  /\ records \in Seq([offset : Nat, size : Nat, hash : DOMAIN Parent, previous : Nat])
  /\ \A i \in DOMAIN records : records[i].previous = Parent[records[i].hash]

ASSUME PureFunctionsAssumption ==
  /\ Byte \in Nat /\ Byte > 3
  /\ Size \in Nat
  /\ NONCES \in Nat \ {0} /\ BATCH \in Nat \ {0}
  /\ MAGIC # 0  \* zeros are padding
  /\ KeyLength \in Nat \ {0} /\ CHUNK \in Nat \ {0}
  /\ BlockTree

\* The types of what each function is given; data to push is of at most 520 bytes
\* (script.rs:21-23).
ASSUME InputsAssumption ==
  \A x \in Inputs :
    /\ x.of = "bytes" => x.bytes \in Seq(Encodings!Bytes)
    /\ x.of = "transaction" => Encodings!IsTransaction(x.tx)
    /\ x.of = "push" => x.data \in Seq(Nat) /\ Len(x.data) <= 520
    /\ x.of = "height" => IsU32(x.height)
    /\ x.of = "bits" => IsCompact(x.bits)
    /\ x.of = "sweep" => x.hash \in [Nonce!Nonces -> Nonce!Hashes] /\ x.target \in Nonce!Hashes
    /\ x.of = "header" => x.header \in [1 .. 80 -> Nat] /\ x.nonce \in [1 .. 4 -> Nat]
    /\ x.of = "padding" => x.length \in Nat
    /\ x.of = "files" => x.files \in Seq(Seq(Nat)) /\ x.key \in [1 .. KeyLength -> Nat]
    /\ x.of = "records" => AreRecords(x.records)

-----------------------------------------------------------------------------
VARIABLE input

NoInput == [of |-> "nothing"]

PureInit == Init /\ input \in Inputs \cup {NoInput}

PureNext ==
  \/ input = NoInput /\ Next /\ UNCHANGED input
  \/ input # NoInput /\ UNCHANGED <<vars, input>>

PureSpec == PureInit /\ [][PureNext]_<<vars, input>>

-----------------------------------------------------------------------------
\* What is written is read back, and nothing else is: integers, transactions, pushes
\* and the height of a coinbase (Encoding, Script).
EncodingsAreUnambiguous ==
  /\ input.of = "bytes" => Encodings!VarintIsCanonical(input.bytes)
  /\ input.of = "transaction" => Encodings!TransactionSurvives(input.tx)
  /\ input.of = "push" => Scripts!PushIsRead(input.data)
  /\ input.of = "height" => Scripts!HeightIsRead(input.height)

\* Compact targets, and the comparison with a hash, are arithmetic (NonceSearch).
TargetsAreNumbers == input.of = "bits" => Nonce!TargetIsNumber(input.bits)

\* A sweep misses no nonce, whatever the size of its batches, and hashes what the
\* network will (NonceSearch, HeaderHash).
SearchFindsTheBlock ==
  /\ input.of = "sweep" => Nonce!SweepIsComplete(input.hash, input.target)
  /\ input.of = "header" => Header!MidstateIsShortcut(input.header, input.nonce)
  /\ input.of = "padding" => Header!PaddingIsWhole(input.length)

\* Joined files hold the blocks of the single ones (BlkScan).
JoinedFilesScanAlike ==
  input.of = "files" => Blk!JoinKeepsRecords(input.files, input.key)

\* The summary counts what is reachable, short of a fork (BlkScan).
ChainIsReachability == input.of = "records" => Blk!SummaryIsReachability(input.records)
=============================================================================
