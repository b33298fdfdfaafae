----------------------------- MODULE MCWorkUnit -----------------------------
(* The instance of WorkUnit that TLC checks: blocks of one to six           *)
(* transactions, a payout script that holds the sentinel, a negative        *)
(* version, and extranonces of one byte on each side. And the inputs of the *)
(* pure functions, at every boundary of their small widths.                 *)
EXTENDS PureFunctions

MCExtranonce1s == {<<0>>, <<1>>}
MCExtranonce2s == BoundedSeq({0, 1}, 3)
MCSentinel == <<222, 173>>
MCTag == <<7>>

MCTemplates ==
  [prev_hash : {<<3, 4, 5, 6>>},
   transactions : {[i \in 1 .. n |-> i] : n \in 0 .. 5},
   commitment_agrees : BOOLEAN,
   payout_script : {<<20>>, <<222, 173>>},
   version : {-1, 2},
   height : {17}, coinbase_value : {50}, bits : {29}, time : {5}]

-----------------------------------------------------------------------------
(* Bytes of five values, so that 2, 25 and 625 need a longer integer, and   *)
(* a coinbase, a payment with a witness and everything between.             *)

ByteStrings ==
  UNION {[1 .. n -> 0 .. Byte - 1] : n \in 0 .. 4} \cup {<<3, 4, 4, 0, 0>>, <<3, 0, 0, 1, 0>>}
Transactions ==
  [version : {2}, lock_time : {0, 1},
   inputs : UNION {[1 .. n -> [previous_output : {0, 1}, script_sig : {<<>>, <<0, 1>>},
                               sequence : {4}, witness : {<<>>, <<<<>>>>, <<<<0>>, <<1, 2, 3>>>>}]]
                     : n \in 1 .. 2},
   outputs : {<<>>, <<[value |-> 0, script_pubkey |-> <<>>]>>,
              <<[value |-> 1, script_pubkey |-> <<2, 2>>], [value |-> 0, script_pubkey |-> <<1>>]>>}]

Pushes == {[i \in 1 .. n |-> i % 256] : n \in {0, 1, 75, 76, 255, 256, 520}}
Heights == 0 .. 300 \cup {32767, 32768, 65535, 65536, 8388607, 8388608, 16777215, 16777216}

(* Hashes of two bytes, a few for the sweep: equal ones, the lowest and the *)
(* highest. Its five nonces are two batches and a shorter one.              *)
CompactBits ==
  [exponent : 0 .. 6, negative : BOOLEAN, mantissa : (0 .. 1) \X (0 .. 4) \X (0 .. 4)]

SweepHashes == {<<0, 0>>, <<3, 1>>, <<0, 2>>, <<4, 4>>}
SweepTargets == {<<0, 0>>, <<1, 3>>, <<2, 0>>}

(* Units of three bits, a key of two; two children of block 2. A record     *)
(* with its header and perhaps a unit or two more; what may follow the last *)
(* one.                                                                     *)
MCParent == <<0, 1, 2, 2, 3>>
Records == {<<5, 1, 1>>, <<5, 2, 3, 7>>, <<5, 3, 2, 0, 5>>}
Tails == {<<>>, <<0, 0, 0>>, <<6, 5, 1, 1>>, <<5, 2, 4>>, <<5, 1>>}
PlainFiles == {FlattenSeq(records) \o tail : records \in BoundedSeq(Records, 2), tail \in Tails}
Keys == {<<0, 0>>, <<1, 6>>}

BlockRecord(hash) == [offset |-> 0, size |-> 1, hash |-> hash, previous |-> MCParent[hash]]

MCInputs ==
  [of : {"bytes"}, bytes : ByteStrings]
  \cup [of : {"transaction"}, tx : Transactions]
  \cup [of : {"push"}, data : Pushes]
  \cup [of : {"height"}, height : Heights]
  \cup [of : {"bits"}, bits : CompactBits]
  \cup [of : {"sweep"}, hash : [0 .. NONCES - 1 -> SweepHashes], target : SweepTargets]
  \cup [of : {"header"}, header : {[i \in 1 .. 80 |-> i]}, nonce : {<<0, 0, 0, 0>>, <<1, 2, 3, 4>>}]
  \cup [of : {"padding"}, length : 0 .. 130]
  \cup {[of |-> "files", key |-> key, files |-> <<Blk!Apply(key, a, 0), Blk!Apply(key, b, 0)>>]
          : key \in Keys, a \in PlainFiles, b \in PlainFiles}
  \cup {[of |-> "records", records |-> [i \in DOMAIN blocks |-> BlockRecord(blocks[i])]]
          : blocks \in BoundedSeq(1 .. 5, 5)}
=============================================================================
