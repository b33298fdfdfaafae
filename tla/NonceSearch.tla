---------------------------- MODULE NonceSearch -----------------------------
(***************************************************************************)
(* What hashing is for: the compact target of a header (target.rs), the    *)
(* comparison of a hash with it (hash.rs), the search of a range of nonces *)
(* (search.rs) and the batches a mining thread sweeps a header in          *)
(* (worker.rs). What one hash is, is module HeaderHash's business; here it *)
(* is a function of the nonce.                                             *)
(*                                                                         *)
(* A hash and a target are Size bytes of Byte values: a target is stored   *)
(* most significant byte first, a hash last.                               *)
(***************************************************************************)
EXTENDS Integers, SequencesExt

CONSTANTS
  Byte,   \* 256
  Size,   \* 32
  U32,    \* 2 ^ 32, how many nonces a header has
  BATCH   \* nonces per batch

Hashes == [1 .. Size -> 0 .. Byte - 1]
Nonces == 0 .. U32 - 1

-----------------------------------------------------------------------------
(* Targets.                                                                *)

\* The bits are an exponent, a sign and three mantissa bytes. A byte whose power is
\* negative is lost; one that is zero may be too high.
FromCompact(bits) ==
  LET Position(i) == bits.exponent - i
  IN  CASE bits.negative -> [error |-> "Negative"]
        [] ~bits.negative /\ \E i \in 1 .. 3 : Position(i) > Size - 1 /\ bits.mantissa[i] # 0
             -> [error |-> "Overflow"]
        [] OTHER ->
             [error |-> "",
              target |-> [place \in 1 .. Size |->
                            LET i == bits.exponent - (Size - place)
                            IN  IF i \in 1 .. 3 THEN bits.mantissa[i] ELSE 0]]

\* The first place, from the most significant, at which two big-endian numbers differ.
FirstDifference(a, b) ==
  SelectInSeq([i \in 1 .. Size |-> a[i] # b[i]], LAMBDA differ : differ)

\* Bug: equality does not count.
IsBelowTarget(target, hash) ==
  LET i == FirstDifference(Reverse(hash), target)
  IN  i # 0 /\ Reverse(hash)[i] < target[i]

IsMetBy(target, hash) ==
  LET i == FirstDifference(Reverse(hash), target)
  IN  i = 0 \/ Reverse(hash)[i] < target[i]

IsBelow(hash, other) ==
  LET i == FirstDifference(Reverse(hash), Reverse(other))
  IN  i # 0 /\ Reverse(hash)[i] < Reverse(other)[i]

\* u8::leading_zeros.
LeadingZeros(byte) ==
  LET zeros[n \in Nat] == IF n = 0 THEN 0 ELSE 1 + zeros[n \div 2]
  IN  zeros[Byte - 1] - zeros[byte]

\* Of a big-endian number: its zero bytes and the first other one.
LeadingZeroBits(number) ==
  LET first == SelectInSeq([i \in 1 .. Size |-> number[i] # 0], LAMBDA nonzero : nonzero)
  IN  IF first = 0
      THEN Size * LeadingZeros(0)
      ELSE (first - 1) * LeadingZeros(0) + LeadingZeros(number[first])

-----------------------------------------------------------------------------
(* The search of one range, and the sweep.                                 *)

Highest == [i \in 1 .. Size |-> Byte - 1]

\* Bug: the range ends before its last nonce.
SearchExclusive(hash, target, first, last) ==
  LET solving == {nonce \in first .. last - 1 : IsMetBy(target, hash[nonce])}
      tried == {nonce \in first .. last - 1 : \A s \in solving : nonce <= s}
      better == {nonce \in tried : IsBelow(hash[nonce], Highest)}
      Best(nonces) == hash[CHOOSE n \in nonces : \A o \in nonces : ~IsBelow(hash[o], hash[n])]
  IN  [solution |-> tried \cap solving, hashes |-> Cardinality(tried),
       best |-> IF tried \cap solving # {} THEN Best(tried \cap solving)
                ELSE IF better # {} THEN Best(better) ELSE Highest]

\* The loop ends at the first nonce that solves, whose hash it reports. Otherwise the
\* best starts as all ones and gives way to lower hashes only.
Search(hash, target, first, last) ==
  LET solving == {nonce \in first .. last : IsMetBy(target, hash[nonce])}
      tried == {nonce \in first .. last : \A s \in solving : nonce <= s}
      better == {nonce \in tried : IsBelow(hash[nonce], Highest)}
      Best(nonces) == hash[CHOOSE n \in nonces : \A o \in nonces : ~IsBelow(hash[o], hash[n])]
  IN  [solution |-> tried \cap solving, hashes |-> Cardinality(tried),
       best |-> IF tried \cap solving # {} THEN Best(tried \cap solving)
                ELSE IF better # {} THEN Best(better) ELSE Highest]

\* saturating_add.
BatchEnd(start) == IF start + BATCH - 1 < U32 THEN start + BATCH - 1 ELSE U32 - 1

\* The results of the batches of one header, while its job stays current: up to a
\* solution or the last nonce.
Sweep(hash, target) ==
  LET Start(k) == (k - 1) * BATCH
      Batch(k) == Search(hash, target, Start(k), BatchEnd(Start(k)))
      Ends(k) == Batch(k).solution # {} \/ BatchEnd(Start(k)) = U32 - 1
      batches == CHOOSE k \in 1 .. U32 : Ends(k) /\ \A j \in 1 .. k - 1 : ~Ends(j)
  IN  [k \in 1 .. batches |-> Batch(k)]

-----------------------------------------------------------------------------
\* The value of a big-endian number.
Value(number) ==
  LET value[n \in 0 .. Len(number)] == IF n = 0 THEN 0 ELSE number[n] + Byte * value[n - 1]
  IN  value[Len(number)]

Power(n) ==
  LET power[k \in Nat] == IF k = 0 THEN 1 ELSE Byte * power[k - 1]
  IN  power[n]

CompactValue(bits) ==
  IF bits.exponent >= 3
  THEN Value(bits.mantissa) * Power(bits.exponent - 3)
  ELSE Value(bits.mantissa) \div Power(3 - bits.exponent)

\* A target is the number its bits stand for, or more than the hash can hold; a hash
\* meets it if it is no higher, compared from opposite ends, and then has as many leading
\* zeros as the miner prints as needed (target.rs:100-137).
TargetIsNumber(bits) ==
  LET read == FromCompact(bits)
  IN  /\ read.error = "Negative" <=> bits.negative
      /\ read.error = "Overflow" <=> ~bits.negative /\ CompactValue(bits) >= Power(Size)
      /\ read.error = "" =>
           /\ Value(read.target) = CompactValue(bits)
           /\ \A hash \in Hashes :
                /\ IsMetBy(read.target, hash) <=> Value(Reverse(hash)) <= Value(read.target)
                /\ IsMetBy(read.target, hash) =>
                     LeadingZeroBits(Reverse(hash)) >= LeadingZeroBits(read.target)

\* A sweep finds the first nonce that solves the block, should there be one, and hashes
\* each nonce up to it, or all 2^32, exactly once: the previous version "left nonce
\* 0xFFFFFFFF untried" (worker.rs:185-188). The lowest hash it reports is the lowest.
SweepIsComplete(hash, target) ==
  LET solving == {nonce \in Nonces : IsMetBy(target, hash[nonce])}
      tried == {nonce \in Nonces : \A s \in solving : nonce <= s}
      results == Sweep(hash, target)
      hashes[i \in 0 .. Len(results)] == IF i = 0 THEN 0 ELSE hashes[i - 1] + results[i].hashes
  IN  /\ Last(results).solution = tried \cap solving
      /\ hashes[Len(results)] = Cardinality(tried)
      /\ \A nonce \in tried : \E i \in DOMAIN results : ~IsBelow(hash[nonce], results[i].best)
      /\ \A i \in DOMAIN results :
           results[i].best = Highest \/ \E nonce \in tried : hash[nonce] = results[i].best
=============================================================================
