------------------------------- MODULE Merkle -------------------------------
(***************************************************************************)
(* merkle.rs over a hash without collisions. A byte is a number below 256; *)
(* sha256d is what brackets its input, so distinct inputs have distinct    *)
(* hashes and a hash shows what it was made from.                          *)
(***************************************************************************)
EXTENDS Integers, Sequences, SequencesExt

Sha256d(data) == <<256>> \o data \o <<257>>

\* The all-zero hash, which nothing hashes to.
ZERO == <<258>>

Combine(left, right) == Sha256d(left \o right)

\* Bug: an odd level loses its last node.
DropLast(level) == IF Len(level) % 2 = 1 THEN Front(level) ELSE level

\* An odd level duplicates its last node.
Padded(level) == IF Len(level) % 2 = 1 THEN Append(level, Last(level)) ELSE level

\* The levels of the tree, leaves first: the loop's `level` after k rounds.
Levels(leaves) ==
  LET level[k \in Nat] ==
        IF k = 0 THEN leaves
        ELSE LET below == Padded(level[k - 1])
             IN  [i \in 1 .. Len(below) \div 2 |-> Combine(below[2 * i - 1], below[2 * i])]
  IN  level

\* while level.len() > 1
Rounds(leaves) ==
  CHOOSE k \in 0 .. Len(leaves) :
    /\ Len(Levels(leaves)[k]) <= 1
    /\ \A j \in 0 .. k - 1 : Len(Levels(leaves)[j]) > 1

MerkleRoot(leaves) == Levels(leaves)[Rounds(leaves)][1]

\* Bug: the sibling is taken from the end of the level, right only while the
\* level is a single pair.
CoinbaseBranchOfLast(leaves) ==
  [k \in 1 .. Rounds(leaves) |-> Last(Levels(leaves)[k - 1])]

\* The coinbase is at index 0 of every level, so its sibling is at index 1.
CoinbaseBranch(leaves) ==
  [k \in 1 .. Rounds(leaves) |-> Padded(Levels(leaves)[k - 1])[2]]

\* The hash of the coinbase, combined with each sibling in turn.
RootFromCoinbaseBranch(coinbase, branch) ==
  LET hash[k \in 0 .. Len(branch)] ==
        IF k = 0 THEN coinbase ELSE Combine(hash[k - 1], branch[k])
  IN  hash[Len(branch)]

-----------------------------------------------------------------------------
(* The consensus rule, stated from the root down: node i of the level h    *)
(* above n leaves combines the nodes below it, or the left one with        *)
(* itself where there is no right one.                                     *)

CeilHalf(n) == (n + 1) \div 2

\* How many nodes there are h levels above n leaves.
Width(n) == LET width[h \in Nat] == IF h = 0 THEN n ELSE CeilHalf(width[h - 1]) IN width

ReferenceRoot(leaves) ==
  LET width == Width(Len(leaves))
      height == CHOOSE h \in 0 .. Len(leaves) :
                  width[h] = 1 /\ \A j \in 0 .. h - 1 : width[j] > 1
      node[h \in Nat] ==
        [i \in Nat |->
           IF h = 0 THEN IF i < Len(leaves) THEN leaves[i + 1] ELSE <<>>
           ELSE LET right == IF 2 * i + 1 < width[h - 1] THEN 2 * i + 1 ELSE 2 * i
                IN  Combine(node[h - 1][2 * i], node[h - 1][right])]
  IN  node[height][0]
=============================================================================
