--------------------------- MODULE WorkUnitProofs ---------------------------
(***************************************************************************)
(* That the two ends of a unit of work agree, for blocks of any size and   *)
(* extranonces of any bytes. The rounds of merkle.rs are an induction over *)
(* the levels of the tree, made here with sets of numbers (Induction) and  *)
(* with functions that a first value and a step define (Iterates). The     *)
(* split of the coinbase is a matter of which part of the serialized       *)
(* transaction depends on the extranonce, and on what of it.               *)
(*                                                                         *)
(* Then what a unit of work is made of and searched with, for inputs of    *)
(* any size: the sweep of the nonces in batches and the order of hashes    *)
(* (NonceSearch), padding and midstate (HeaderHash), the pushes of a       *)
(* script, and the height in one (Script), which is an induction over the  *)
(* bytes of a script number; last the compact target, which is a mantissa  *)
(* moved by bytes: that mantissa times a power of Byte, or its quotient.   *)
(***************************************************************************)
EXTENDS PureFunctions, FiniteSetTheorems, SequenceTheorems, WellFoundedInduction, TLAPS

-----------------------------------------------------------------------------
(* Induction over the numbers.                                             *)

LEMMA Least ==
  ASSUME NEW S \in SUBSET Nat, S # {}
  PROVE  \E n \in S : \A m \in S : n <= m
<1> DEFINE R == {ss \in Nat \X Nat : ss[1] < ss[2]}
<1>1. IsWellFoundedOn(R, Nat)
  BY NatLessThanWellFounded DEF OpToRel
<1>2. \E n \in S : \A m \in S : ~(<<m, n>> \in R)
  <2> HIDE DEF R
  <2> QED
    BY <1>1, WFMin
<1>3. \A m, n \in Nat : <<m, n>> \in R <=> m < n
  OBVIOUS
<1> HIDE DEF R
<1>4. PICK n \in S : \A m \in S : ~(<<m, n>> \in R)
  BY <1>2
<1>5. \A m \in S : ~(m < n)
  BY <1>3, <1>4
<1> QED
  BY <1>5

LEMMA Induction ==
  ASSUME NEW S, 0 \in S, \A n \in Nat : n \in S => n + 1 \in S
  PROVE  \A n \in Nat : n \in S
<1> SUFFICES ASSUME NEW m \in Nat, m \notin S PROVE FALSE
  OBVIOUS
<1> DEFINE T == Nat \ S
<1>1. PICK n \in T : \A k \in T : n <= k
  BY Least
<1>2. n # 0
  OBVIOUS
<1>3. n - 1 \in Nat /\ n - 1 \in S
  BY <1>1, <1>2
<1> QED
  BY <1>3

\* A function of the natural numbers is defined by its first value and a step.
Iterated(f, start, step) == f[0] = start /\ \A n \in Nat : f[n + 1] = step[<<n, f[n]>>]

LEMMA Iterates ==
  ASSUME NEW V, NEW start \in V, NEW step \in [Nat \X V -> V]
  PROVE  \E f \in [Nat -> V] : Iterated(f, start, step)
<1> DEFINE Begins(g, n) ==
      /\ g \in [0 .. n -> V]
      /\ g[0] = start
      /\ \A k \in 0 .. n - 1 : g[k + 1] = step[<<k, g[k]>>]
    S == {n \in Nat : \E g : Begins(g, n)}
    T == {n \in Nat : \A g, h : Begins(g, n) /\ Begins(h, n) => g[n] = h[n]}
\* There is such a function on every beginning of the numbers, ...
<1>1. ASSUME NEW n \in Nat PROVE n \in S
  <2>1. 0 \in S
    <3> DEFINE g == [k \in 0 .. 0 |-> start]
    <3>1. Begins(g, 0)
      OBVIOUS
    <3> HIDE DEF g, Begins
    <3> QED
      BY <3>1
  <2>2. ASSUME NEW m \in Nat, m \in S PROVE m + 1 \in S
    <3>1. PICK g : Begins(g, m)
      BY <2>2
    <3> DEFINE h == [k \in 0 .. m + 1 |-> IF k = m + 1 THEN step[<<m, g[m]>>] ELSE g[k]]
    <3>2. m \in 0 .. m /\ g[m] \in V
      BY <3>1
    <3>3. step[<<m, g[m]>>] \in V
      BY <3>2
    <3>4. \A k \in 0 .. m + 1 : k = m + 1 \/ k \in 0 .. m
      OBVIOUS
    <3>5. h \in [0 .. m + 1 -> V]
      BY <3>1, <3>3, <3>4
    <3>6. h[0] = start
      BY <3>1
    <3>7. ASSUME NEW k \in 0 .. (m + 1) - 1 PROVE h[k + 1] = step[<<k, h[k]>>]
      <4>1. k \in 0 .. m /\ k # m + 1 /\ h[k] = g[k]
        OBVIOUS
      <4>2. CASE k = m
        <5>1. k + 1 = m + 1 /\ m + 1 \in 0 .. m + 1
          BY <4>2
        <5>2. h[m + 1] = step[<<m, g[m]>>]
          BY <5>1
        <5> HIDE DEF h
        <5> QED
          BY <4>1, <4>2, <5>1, <5>2, Zenon
      <4>3. CASE k # m
        <5>1. k \in 0 .. m - 1 /\ k + 1 # m + 1 /\ k + 1 \in 0 .. m + 1
          BY <4>3
        <5>2. h[k + 1] = g[k + 1] /\ g[k + 1] = step[<<k, g[k]>>]
          BY <3>1, <5>1
        <5> QED
          BY <4>1, <5>2
      <4> QED
        BY <4>2, <4>3
    <3>8. Begins(h, m + 1)
      BY <3>5, <3>6, <3>7
    <3> HIDE DEF h, Begins
    <3> QED
      BY <3>8
  <2> HIDE DEF S
  <2> QED
    BY <2>1, <2>2, Induction
<1>2. ASSUME NEW n \in Nat, NEW g, Begins(g, n + 1)
      PROVE  Begins([k \in 0 .. n |-> g[k]], n)
  <2>1. 0 .. n \subseteq 0 .. n + 1 /\ \A k \in 0 .. n - 1 : k \in 0 .. (n + 1) - 1 /\ k + 1 \in 0 .. n
    OBVIOUS
  <2> QED
    BY <1>2, <2>1
\* ... and only one.
<1>3. ASSUME NEW n \in Nat PROVE n \in T
  <2>1. 0 \in T
    OBVIOUS
  <2>2. ASSUME NEW m \in Nat, m \in T PROVE m + 1 \in T
    <3> SUFFICES ASSUME NEW g, NEW h, Begins(g, m + 1), Begins(h, m + 1)
                 PROVE  g[m + 1] = h[m + 1]
      OBVIOUS
    <3> DEFINE less == [k \in 0 .. m |-> g[k]]
               other == [k \in 0 .. m |-> h[k]]
    <3>1. Begins(less, m) /\ Begins(other, m)
      BY <1>2
    <3>2. less[m] = other[m]
      <4> HIDE DEF less, other, Begins
      <4> QED
        BY <2>2, <3>1
    <3>3. g[m] = h[m]
      BY <3>2
    <3>4. m \in 0 .. (m + 1) - 1
      OBVIOUS
    <3> QED
      BY <3>3, <3>4
  <2> HIDE DEF T
  <2> QED
    BY <2>1, <2>2, Induction
<1> DEFINE g(n) == CHOOSE g : Begins(g, n)
           f == [n \in Nat |-> g(n)[n]]
<1>4. ASSUME NEW n \in Nat PROVE Begins(g(n), n)
  <2> HIDE DEF Begins
  <2> QED
    BY <1>1
<1>5. ASSUME NEW n \in Nat PROVE g(n)[n] \in V
  <2> HIDE DEF g
  <2> QED
    BY <1>4
<1>6. f \in [Nat -> V]
  BY <1>5
<1>7. f[0] = start
  <2>1. Begins(g(0), 0)
    BY <1>4
  <2>2. f[0] = g(0)[0]
    OBVIOUS
  <2> HIDE DEF f, g
  <2> QED
    BY <2>1, <2>2
<1>8. ASSUME NEW n \in Nat PROVE f[n + 1] = step[<<n, f[n]>>]
  <2> DEFINE less == [k \in 0 .. n |-> g(n + 1)[k]]
  <2>1. Begins(g(n + 1), n + 1) /\ Begins(g(n), n)
    <3>1. n + 1 \in Nat
      OBVIOUS
    <3> HIDE DEF g, Begins
    <3> QED
      BY <1>4, <3>1
  <2>2. Begins(less, n)
    <3> HIDE DEF g, Begins
    <3> QED
      BY <1>2, <2>1
  <2>3. less[n] = g(n)[n]
    <3> HIDE DEF g, Begins, less
    <3> QED
      BY <1>3, <2>1, <2>2
  <2>4. f[n] = g(n)[n] /\ f[n + 1] = g(n + 1)[n + 1]
    <3>1. n + 1 \in Nat
      OBVIOUS
    <3> HIDE DEF g, less, Begins
    <3> QED
      BY <3>1
  <2> HIDE DEF f, g
  <2>5. n \in 0 .. (n + 1) - 1 /\ less[n] = g(n + 1)[n]
    OBVIOUS
  <2>6. g(n + 1)[n + 1] = step[<<n, g(n + 1)[n]>>]
    BY <2>1, <2>5
  <2> QED
    BY <2>3, <2>4, <2>5, <2>6
<1> HIDE DEF f
<1>9. Iterated(f, start, step)
  BY <1>7, <1>8 DEF Iterated
<1> QED
  BY <1>6, <1>9

-----------------------------------------------------------------------------
(* The levels of the tree.                                                 *)

Strings == Seq(Nat)

LEMMA HashIsString ==
  /\ ZERO \in Strings
  /\ \A data \in Strings : Sha256d(data) \in Strings
  /\ \A left, right \in Strings : Combine(left, right) \in Strings
<1>1. ZERO \in Strings
  BY DEF ZERO, Strings
<1>2. ASSUME NEW data \in Strings PROVE Sha256d(data) \in Strings
  BY DEF Sha256d, Strings
<1>3. ASSUME NEW left \in Strings, NEW right \in Strings PROVE Combine(left, right) \in Strings
  <2>1. left \o right \in Strings
    BY DEF Strings
  <2> QED
    BY <1>2, <2>1 DEF Combine
<1> QED
  BY <1>1, <1>2, <1>3

\* One round of the loop: the next level, and the right-hand sibling of a node.
Sibling(level, i) == IF 2 * i <= Len(level) THEN level[2 * i] ELSE level[2 * i - 1]

Above(level) ==
  LET below == Padded(level)
  IN  [i \in 1 .. Len(below) \div 2 |-> Combine(below[2 * i - 1], below[2 * i])]

LEMMA AboveFacts ==
  ASSUME NEW level \in Seq(Strings)
  PROVE  /\ Above(level) \in Seq(Strings)
         /\ Len(Above(level)) = CeilHalf(Len(level))
         /\ \A i \in 1 .. CeilHalf(Len(level)) :
              /\ 2 * i - 1 \in 1 .. Len(level)
              /\ Sibling(level, i) \in Strings
              /\ Above(level)[i] = Combine(level[2 * i - 1], Sibling(level, i))
<1> DEFINE below == Padded(level)
           size == CeilHalf(Len(level))
<1>1. Len(level) \in Nat
  OBVIOUS
<1>2. below \in Seq(Strings) /\ Len(below) = 2 * size /\ size \in Nat
  BY <1>1 DEF Padded, Last, CeilHalf
<1>3. \A i \in 1 .. Len(level) : below[i] = level[i]
  BY <1>1 DEF Padded, Last
<1>4. Len(level) % 2 = 1 => below[Len(level) + 1] = level[Len(level)]
  BY <1>1 DEF Padded, Last
<1> HIDE DEF below
<1>5. ASSUME NEW i \in 1 .. size
      PROVE  /\ 2 * i - 1 \in 1 .. Len(level)
             /\ below[2 * i - 1] = level[2 * i - 1] /\ below[2 * i] = Sibling(level, i)
             /\ level[2 * i - 1] \in Strings /\ Sibling(level, i) \in Strings
  <2>1. 2 * i - 1 \in 1 .. Len(level)
    BY <1>1 DEF CeilHalf
  <2>2. below[2 * i - 1] = level[2 * i - 1] /\ level[2 * i - 1] \in Strings
    BY <2>1, <1>3
  <2>3. CASE 2 * i <= Len(level)
    <3>1. 2 * i \in 1 .. Len(level)
      BY <1>1, <2>3
    <3> QED
      BY <2>1, <2>2, <2>3, <3>1, <1>3 DEF Sibling
  <2>4. CASE ~(2 * i <= Len(level))
    <3>1. 2 * i = Len(level) + 1 /\ Len(level) % 2 = 1 /\ 2 * i - 1 = Len(level)
      BY <1>1, <2>1, <2>4
    <3> QED
      BY <2>1, <2>2, <2>4, <3>1, <1>4 DEF Sibling
  <2> QED
    BY <2>3, <2>4
<1>6. Len(below) \div 2 = size
  BY <1>2
<1>7. Above(level) = [i \in 1 .. size |-> Combine(below[2 * i - 1], below[2 * i])]
  BY <1>6 DEF Above, below
<1>8. \A i \in 1 .. size : Combine(below[2 * i - 1], below[2 * i]) \in Strings
  BY <1>5, HashIsString
<1> HIDE DEF size
<1>9. Above(level) \in Seq(Strings) /\ Len(Above(level)) = size
  BY <1>2, <1>7, <1>8
<1>10. \A i \in 1 .. size : Above(level)[i] = Combine(level[2 * i - 1], Sibling(level, i))
  BY <1>5, <1>7
<1> QED
  BY <1>5, <1>9, <1>10 DEF size

LEMMA LevelsFacts ==
  ASSUME NEW leaves \in Seq(Strings)
  PROVE  /\ Levels(leaves) \in [Nat -> Seq(Strings)]
         /\ Levels(leaves)[0] = leaves
         /\ \A k \in Nat : Levels(leaves)[k + 1] = Above(Levels(leaves)[k])
<1> DEFINE Defines(f) ==
      f = [k \in Nat |-> IF k = 0 THEN leaves ELSE Above(f[k - 1])]
<1>1. Levels(leaves) = CHOOSE f : Defines(f)
  BY DEF Levels, Above
<1>2. \E f : Defines(f)
  <2> DEFINE step == [s \in Nat \X Seq(Strings) |-> Above(s[2])]
  <2>1. step \in [Nat \X Seq(Strings) -> Seq(Strings)]
    BY AboveFacts
  <2>2. \A n \in Nat, v \in Seq(Strings) : step[<<n, v>>] = Above(v)
    OBVIOUS
  <2> HIDE DEF step
  <2>3. PICK f \in [Nat -> Seq(Strings)] : Iterated(f, leaves, step)
    BY <2>1, Iterates
  <2>4. \A n \in Nat : f[n + 1] = Above(f[n])
    BY <2>2, <2>3 DEF Iterated
  <2>5. ASSUME NEW k \in Nat PROVE f[k] = IF k = 0 THEN leaves ELSE Above(f[k - 1])
    <3>1. CASE k = 0
      BY <2>3, <3>1 DEF Iterated
    <3>2. CASE k # 0
      <4>1. k - 1 \in Nat /\ (k - 1) + 1 = k
        BY <3>2
      <4> QED
        BY <2>4, <3>2, <4>1
    <3> QED
      BY <3>1, <3>2
  <2>6. Defines(f)
    BY <2>5
  <2> HIDE DEF Defines
  <2> QED
    BY <2>6
<1>3. Defines(Levels(leaves))
  <2> HIDE DEF Defines
  <2> QED
    BY <1>1, <1>2
<1> DEFINE f == Levels(leaves)
<1>4. f[0] = leaves
  BY <1>3
<1>5. ASSUME NEW k \in Nat PROVE f[k + 1] = Above(f[k])
  <2>1. k + 1 \in Nat /\ k + 1 # 0 /\ (k + 1) - 1 = k
    OBVIOUS
  <2> HIDE DEF f
  <2>2. f = [j \in Nat |-> IF j = 0 THEN leaves ELSE Above(f[j - 1])]
    BY <1>3 DEF f
  <2> QED
    BY <2>1, <2>2
<1>6. \A k \in Nat : f[k] \in Seq(Strings)
  <2> DEFINE S == {k \in Nat : f[k] \in Seq(Strings)}
  <2>1. 0 \in S
    BY <1>4
  <2>2. ASSUME NEW k \in Nat, k \in S PROVE k + 1 \in S
    <3>1. f[k] \in Seq(Strings) /\ f[k + 1] = Above(f[k])
      BY <2>2, <1>5
    <3> HIDE DEF f
    <3>2. Above(f[k]) \in Seq(Strings)
      BY <3>1, AboveFacts
    <3> QED
      BY <3>1, <3>2
  <2> HIDE DEF S
  <2>3. \A k \in Nat : k \in S
    BY <2>1, <2>2, Induction
  <2> QED
    BY <2>3 DEF S
<1>7. f \in [Nat -> Seq(Strings)]
  <2>1. f = [j \in Nat |-> IF j = 0 THEN leaves ELSE Above(f[j - 1])]
    BY <1>3
  <2> HIDE DEF f
  <2>2. DOMAIN f = Nat /\ f = [j \in Nat |-> f[j]]
    BY <2>1
  <2> QED
    BY <2>2, <1>6
<1> QED
  BY <1>4, <1>5, <1>7

-----------------------------------------------------------------------------
(* The number of rounds.                                                   *)

LEMMA Halving ==
  ASSUME NEW n \in Nat \ {0}
  PROVE  /\ CeilHalf(n) \in Nat \ {0}
         /\ n > 1 => CeilHalf(n) < n
BY DEF CeilHalf

LEMMA WidthFacts ==
  ASSUME NEW n \in Nat \ {0}
  PROVE  /\ Width(n) \in [Nat -> Nat \ {0}]
         /\ Width(n)[0] = n
         /\ \A k \in Nat : Width(n)[k + 1] = CeilHalf(Width(n)[k])
<1> DEFINE V == Nat \ {0}
           Defines(f) == f = [h \in Nat |-> IF h = 0 THEN n ELSE CeilHalf(f[h - 1])]
<1>1. Width(n) = CHOOSE f : Defines(f)
  BY DEF Width
<1> DEFINE step == [s \in Nat \X V |-> CeilHalf(s[2])]
<1>2. step \in [Nat \X V -> V] /\ n \in V
  BY Halving
<1>3. \A m \in Nat, v \in V : step[<<m, v>>] = CeilHalf(v)
  OBVIOUS
<1> HIDE DEF step, V
<1>4. PICK f \in [Nat -> V] : Iterated(f, n, step)
  BY <1>2, Iterates
<1>5. f[0] = n /\ \A k \in Nat : f[k + 1] = CeilHalf(f[k])
  BY <1>3, <1>4 DEF Iterated
<1>6. ASSUME NEW h \in Nat PROVE f[h] = IF h = 0 THEN n ELSE CeilHalf(f[h - 1])
  <2>1. CASE h = 0
    BY <1>5, <2>1
  <2>2. CASE h # 0
    <3>1. h - 1 \in Nat /\ (h - 1) + 1 = h
      BY <2>2
    <3> QED
      BY <1>5, <2>2, <3>1
  <2> QED
    BY <2>1, <2>2
<1>7. Defines(f)
  BY <1>6
<1>8. Defines(Width(n))
  <2> HIDE DEF Defines
  <2> QED
    BY <1>1, <1>7
<1> DEFINE w == Width(n)
<1>9. w = [h \in Nat |-> IF h = 0 THEN n ELSE CeilHalf(w[h - 1])]
  BY <1>8
<1> HIDE DEF w
<1>10. w[0] = n
  BY <1>9
<1>11. ASSUME NEW k \in Nat PROVE w[k + 1] = CeilHalf(w[k])
  <2>1. k + 1 \in Nat /\ k + 1 # 0 /\ (k + 1) - 1 = k
    OBVIOUS
  <2> QED
    BY <1>9, <2>1
<1>12. \A k \in Nat : w[k] \in V
  <2> DEFINE S == {k \in Nat : w[k] \in V}
  <2>1. 0 \in S
    BY <1>2, <1>10
  <2>2. ASSUME NEW k \in Nat, k \in S PROVE k + 1 \in S
    BY <2>2, <1>11, Halving DEF V
  <2> HIDE DEF S
  <2>3. \A k \in Nat : k \in S
    BY <2>1, <2>2, Induction
  <2> QED
    BY <2>3 DEF S
<1>13. w \in [Nat -> V]
  <2>1. DOMAIN w = Nat /\ w = [h \in Nat |-> w[h]]
    BY <1>9
  <2> QED
    BY <1>12, <2>1
<1> QED
  BY <1>10, <1>11, <1>13 DEF w, V

\* The first level with a single node: there is one, and only one.
FirstAt(k, width) == width[k] = 1 /\ \A j \in 0 .. k - 1 : width[j] > 1

LEMMA FirstIsUnique ==
  ASSUME NEW width \in [Nat -> Nat], NEW k \in Nat, FirstAt(k, width),
         NEW h \in Nat, FirstAt(h, width)
  PROVE  k = h
<1>1. k < h => k \in 0 .. h - 1
  OBVIOUS
<1>2. h < k => h \in 0 .. k - 1
  OBVIOUS
<1> QED
  BY <1>1, <1>2 DEF FirstAt

LEMMA FirstExists ==
  ASSUME NEW n \in Nat \ {0}
  PROVE  \E k \in 0 .. n : FirstAt(k, Width(n))
<1> DEFINE width == Width(n)
           S == {k \in Nat : width[k] > 1 => width[k] + k <= n}
           T == {k \in Nat : width[k] = 1}
<1>1. /\ width \in [Nat -> Nat \ {0}] /\ width[0] = n
      /\ \A k \in Nat : width[k + 1] = CeilHalf(width[k])
  BY WidthFacts
<1> HIDE DEF width
<1>2. 0 \in S
  BY <1>1
<1>3. ASSUME NEW k \in Nat, k \in S PROVE k + 1 \in S
  <2>1. width[k] \in Nat \ {0} /\ width[k + 1] = CeilHalf(width[k])
    BY <1>1
  <2>2. CASE width[k] = 1
    BY <2>1, <2>2 DEF CeilHalf
  <2>3. CASE width[k] # 1
    <3>1. width[k] > 1 /\ width[k] + k <= n
      BY <2>1, <2>3, <1>3
    <3>2. width[k + 1] < width[k] /\ width[k + 1] \in Nat
      BY <2>1, <3>1, Halving
    <3> QED
      BY <2>1, <3>1, <3>2
  <2> QED
    BY <2>2, <2>3
<1>4. \A k \in Nat : k \in S
  <2> HIDE DEF S
  <2> QED
    BY <1>2, <1>3, Induction
<1>5. n \in T
  <2>1. n \in S /\ width[n] \in Nat \ {0}
    BY <1>1, <1>4
  <2> QED
    BY <2>1
<1>6. PICK k \in T : \A m \in T : k <= m
  BY <1>5, Least
<1>7. k \in 0 .. n
  BY <1>5, <1>6
<1>8. ASSUME NEW j \in 0 .. k - 1 PROVE width[j] > 1
  <2>1. j \in Nat /\ width[j] \in Nat \ {0}
    BY <1>1
  <2>2. j \notin T
    BY <1>6
  <2> QED
    BY <2>1, <2>2
<1> QED
  BY <1>7, <1>8 DEF FirstAt, width

\* A level is as wide as the rule says, and the loop ends at the root.
LEMMA LevelWidths ==
  ASSUME NEW leaves \in Seq(Strings), leaves # <<>>
  PROVE  /\ Len(leaves) \in Nat \ {0}
         /\ \A k \in Nat : Len(Levels(leaves)[k]) = Width(Len(leaves))[k]
<1> DEFINE f == Levels(leaves)
           w == Width(Len(leaves))
           S == {k \in Nat : Len(f[k]) = w[k]}
<1>0. Len(leaves) \in Nat \ {0}
  OBVIOUS
<1>1. f \in [Nat -> Seq(Strings)] /\ f[0] = leaves /\ \A k \in Nat : f[k + 1] = Above(f[k])
  BY LevelsFacts
<1>2. w[0] = Len(leaves) /\ \A k \in Nat : w[k + 1] = CeilHalf(w[k])
  BY <1>0, WidthFacts
<1> HIDE DEF f, w
<1>3. 0 \in S
  BY <1>1, <1>2
<1>4. ASSUME NEW k \in Nat, k \in S PROVE k + 1 \in S
  <2>1. Len(f[k + 1]) = CeilHalf(Len(f[k]))
    BY <1>1, AboveFacts
  <2> QED
    BY <1>2, <1>4, <2>1
<1> HIDE DEF S
<1>5. \A k \in Nat : k \in S
  BY <1>3, <1>4, Induction
<1> QED
  BY <1>0, <1>5 DEF S, f, w

LEMMA RoundsFacts ==
  ASSUME NEW leaves \in Seq(Strings), leaves # <<>>
  PROVE  Rounds(leaves) \in Nat /\ FirstAt(Rounds(leaves), Width(Len(leaves)))
<1> DEFINE n == Len(leaves)
           Ends(k) == /\ Len(Levels(leaves)[k]) <= 1
                      /\ \A j \in 0 .. k - 1 : Len(Levels(leaves)[j]) > 1
<1>1. n \in Nat \ {0} /\ \A k \in Nat : Len(Levels(leaves)[k]) = Width(n)[k]
  BY LevelWidths
<1>2. Rounds(leaves) = CHOOSE k \in 0 .. n : Ends(k)
  BY DEF Rounds
<1>3. Width(n) \in [Nat -> Nat \ {0}]
  BY <1>1, WidthFacts
<1>4. ASSUME NEW k \in 0 .. n PROVE Ends(k) <=> FirstAt(k, Width(n))
  <2> HIDE DEF n
  <2>1. k \in Nat /\ \A j \in 0 .. k - 1 : j \in Nat
    BY <1>1
  <2>2. Width(n)[k] \in Nat \ {0} /\ Len(Levels(leaves)[k]) = Width(n)[k]
    BY <1>1, <1>3, <2>1
  <2>3. \A j \in 0 .. k - 1 : Len(Levels(leaves)[j]) = Width(n)[j]
    BY <1>1, <2>1
  <2>4. Width(n)[k] <= 1 <=> Width(n)[k] = 1
    BY <2>2
  <2> QED
    BY <2>2, <2>3, <2>4 DEF FirstAt
<1> HIDE DEF Ends, n
<1>5. \E k \in 0 .. n : Ends(k)
  BY <1>1, <1>4, FirstExists
<1>6. Rounds(leaves) \in 0 .. n /\ Ends(Rounds(leaves))
  BY <1>2, <1>5
<1>7. Rounds(leaves) \in Nat /\ FirstAt(Rounds(leaves), Width(n))
  BY <1>1, <1>4, <1>6
<1> QED
  BY <1>7 DEF n

\* Two trees that differ in the coinbase only: so do their levels.
LEMMA OnlyTheCoinbaseDiffers ==
  ASSUME NEW leaves \in Seq(Strings), leaves # <<>>,
         NEW other \in Seq(Strings), Len(other) = Len(leaves),
         \A i \in 2 .. Len(leaves) : other[i] = leaves[i]
  PROVE  /\ \A k \in Nat :
              /\ Len(Levels(other)[k]) = Len(Levels(leaves)[k])
              /\ \A i \in 2 .. Len(Levels(leaves)[k]) : Levels(other)[k][i] = Levels(leaves)[k][i]
         /\ Rounds(other) = Rounds(leaves)
<1> DEFINE f == Levels(leaves)
           g == Levels(other)
           S == {k \in Nat : /\ Len(g[k]) = Len(f[k])
                             /\ \A i \in 2 .. Len(f[k]) : g[k][i] = f[k][i]}
<1>1. /\ f \in [Nat -> Seq(Strings)] /\ f[0] = leaves /\ \A k \in Nat : f[k + 1] = Above(f[k])
      /\ g \in [Nat -> Seq(Strings)] /\ g[0] = other /\ \A k \in Nat : g[k + 1] = Above(g[k])
  BY LevelsFacts
<1> HIDE DEF f, g
<1>2. 0 \in S
  BY <1>1
<1>3. ASSUME NEW k \in Nat, k \in S PROVE k + 1 \in S
  <2> DEFINE below == f[k]
             beside == g[k]
  <2>1. /\ below \in Seq(Strings) /\ beside \in Seq(Strings) /\ Len(beside) = Len(below)
        /\ \A i \in 2 .. Len(below) : beside[i] = below[i]
        /\ f[k + 1] = Above(below) /\ g[k + 1] = Above(beside)
    BY <1>1, <1>3
  <2> HIDE DEF below, beside
  <2>2. /\ Len(Above(below)) = CeilHalf(Len(below)) /\ Len(Above(beside)) = CeilHalf(Len(below))
        /\ \A i \in 1 .. CeilHalf(Len(below)) :
             /\ 2 * i - 1 \in 1 .. Len(below)
             /\ Above(below)[i] = Combine(below[2 * i - 1], Sibling(below, i))
             /\ Above(beside)[i] = Combine(beside[2 * i - 1], Sibling(beside, i))
    BY <2>1, AboveFacts
  <2>3. Len(below) \in Nat /\ CeilHalf(Len(below)) \in Nat
    BY <2>1 DEF CeilHalf
  <2>4. ASSUME NEW i \in 2 .. CeilHalf(Len(below))
        PROVE  Above(beside)[i] = Above(below)[i]
    <3>1. i \in 1 .. CeilHalf(Len(below)) /\ 2 * i - 1 \in 2 .. Len(below)
      BY <2>2, <2>3
    <3>2. beside[2 * i - 1] = below[2 * i - 1]
      BY <2>1, <3>1
    <3>3. 2 * i <= Len(below) => beside[2 * i] = below[2 * i]
      BY <2>1, <2>3
    <3>4. Sibling(beside, i) = Sibling(below, i)
      BY <2>1, <3>2, <3>3 DEF Sibling
    <3> QED
      BY <2>2, <3>1, <3>2, <3>4
  <2> QED
    BY <2>1, <2>2, <2>4
<1> HIDE DEF S
<1>4. \A k \in Nat : k \in S
  BY <1>2, <1>3, Induction
<1>5. \A k \in Nat : /\ Len(g[k]) = Len(f[k])
                     /\ \A i \in 2 .. Len(f[k]) : g[k][i] = f[k][i]
  BY <1>4 DEF S
<1>6. Rounds(other) = Rounds(leaves)
  <2>1. other # <<>> /\ Len(leaves) \in Nat \ {0}
    OBVIOUS
  <2>2. Width(Len(leaves)) \in [Nat -> Nat \ {0}]
    BY <2>1, WidthFacts
  <2>3. /\ Rounds(other) \in Nat /\ FirstAt(Rounds(other), Width(Len(leaves)))
        /\ Rounds(leaves) \in Nat /\ FirstAt(Rounds(leaves), Width(Len(leaves)))
    BY <2>1, RoundsFacts
  <2> QED
    BY <2>2, <2>3, FirstIsUnique
<1> QED
  BY <1>5, <1>6 DEF f, g

-----------------------------------------------------------------------------
(* The branch.                                                             *)

Folded(hash, coinbase, branch) ==
  /\ hash[0] = coinbase
  /\ \A k \in 0 .. Len(branch) - 1 : hash[k + 1] = Combine(hash[k], branch[k + 1])
  /\ RootFromCoinbaseBranch(coinbase, branch) = hash[Len(branch)]

LEMMA FoldFacts ==
  ASSUME NEW coinbase \in Strings, NEW branch \in Seq(Strings)
  PROVE  \E hash : Folded(hash, coinbase, branch)
<1> DEFINE n == Len(branch)
           Defines(f) ==
             f = [k \in 0 .. n |-> IF k = 0 THEN coinbase ELSE Combine(f[k - 1], branch[k])]
           step == [s \in Nat \X Strings |->
                      IF s[1] + 1 <= n THEN Combine(s[2], branch[s[1] + 1]) ELSE s[2]]
<1>1. RootFromCoinbaseBranch(coinbase, branch) = (CHOOSE f : Defines(f))[n]
  BY DEF RootFromCoinbaseBranch
<1>2. n \in Nat /\ \A k \in 1 .. n : branch[k] \in Strings
  OBVIOUS
<1>3. step \in [Nat \X Strings -> Strings]
  <2>1. \A m \in Nat, v \in Strings :
          (IF m + 1 <= n THEN Combine(v, branch[m + 1]) ELSE v) \in Strings
    BY <1>2, HashIsString
  <2> QED
    BY <2>1
<1>4. \A m \in Nat, v \in Strings : m + 1 <= n => step[<<m, v>>] = Combine(v, branch[m + 1])
  OBVIOUS
<1> HIDE DEF step, n
<1>5. PICK f \in [Nat -> Strings] : Iterated(f, coinbase, step)
  BY <1>3, Iterates
<1>6. f[0] = coinbase /\ \A k \in Nat : k + 1 <= n => f[k + 1] = Combine(f[k], branch[k + 1])
  BY <1>4, <1>5 DEF Iterated
<1> DEFINE g == [k \in 0 .. n |-> f[k]]
<1>7. ASSUME NEW k \in 0 .. n
      PROVE  g[k] = IF k = 0 THEN coinbase ELSE Combine(g[k - 1], branch[k])
  <2>1. CASE k = 0
    BY <1>6, <2>1
  <2>2. CASE k # 0
    <3>1. k - 1 \in Nat /\ k - 1 \in 0 .. n /\ (k - 1) + 1 = k /\ k <= n
      BY <1>2, <2>2
    <3> QED
      BY <1>6, <2>2, <3>1
  <2> QED
    BY <2>1, <2>2
<1>8. Defines(g)
  BY <1>7
<1> DEFINE hash == CHOOSE h : Defines(h)
<1>9. Defines(hash)
  <2> HIDE DEF Defines, g
  <2> QED
    BY <1>8
<1>10. hash = [k \in 0 .. n |-> IF k = 0 THEN coinbase ELSE Combine(hash[k - 1], branch[k])]
  BY <1>9
<1>11. RootFromCoinbaseBranch(coinbase, branch) = hash[n]
  BY <1>1
<1> HIDE DEF hash
<1>12. hash[0] = coinbase
  BY <1>2, <1>10
<1>13. ASSUME NEW k \in 0 .. n - 1 PROVE hash[k + 1] = Combine(hash[k], branch[k + 1])
  <2>1. k + 1 \in 0 .. n /\ k + 1 # 0 /\ (k + 1) - 1 = k
    BY <1>2
  <2> QED
    BY <1>10, <2>1
<1> QED
  BY <1>11, <1>12, <1>13 DEF n, Folded

LEMMA BranchFacts ==
  ASSUME NEW leaves \in Seq(Strings), leaves # <<>>
  PROVE  /\ CoinbaseBranch(leaves) \in Seq(Strings)
         /\ Len(CoinbaseBranch(leaves)) = Rounds(leaves)
         /\ \A k \in 0 .. Rounds(leaves) - 1 :
              /\ Len(Levels(leaves)[k]) > 1
              /\ CoinbaseBranch(leaves)[k + 1] = Levels(leaves)[k][2]
<1> DEFINE r == Rounds(leaves)
           L == Levels(leaves)
<1>1. r \in Nat /\ FirstAt(r, Width(Len(leaves)))
  BY RoundsFacts
<1>2. L \in [Nat -> Seq(Strings)] /\ \A k \in Nat : Len(L[k]) = Width(Len(leaves))[k]
  BY LevelsFacts, LevelWidths
<1>3. CoinbaseBranch(leaves) = [k \in 1 .. r |-> Padded(L[k - 1])[2]]
  BY DEF CoinbaseBranch
<1> HIDE DEF r, L
<1>4. ASSUME NEW k \in 0 .. r - 1
      PROVE  Len(L[k]) > 1 /\ Padded(L[k])[2] = L[k][2] /\ L[k][2] \in Strings
  <2>1. k \in Nat /\ Width(Len(leaves))[k] > 1
    BY <1>1 DEF FirstAt
  <2>a. L[k] \in Seq(Strings) /\ Len(L[k]) > 1
    BY <1>2, <2>1
  <2> DEFINE level == L[k]
  <2>2. level \in Seq(Strings) /\ Len(level) > 1
    BY <2>a
  <2> HIDE DEF level
  <2>3. 2 \in 1 .. Len(level)
    BY <2>2
  <2>4. Padded(level)[2] = level[2] /\ level[2] \in Strings
    BY <2>2, <2>3 DEF Padded, Last
  <2> QED
    BY <2>2, <2>4 DEF level
<1>5. ASSUME NEW k \in 1 .. r PROVE Padded(L[k - 1])[2] \in Strings
  <2>1. k - 1 \in 0 .. r - 1
    BY <1>1
  <2> QED
    BY <1>4, <2>1
<1>6. CoinbaseBranch(leaves) \in Seq(Strings) /\ Len(CoinbaseBranch(leaves)) = r
  BY <1>1, <1>3, <1>5
<1>7. ASSUME NEW k \in 0 .. r - 1 PROVE CoinbaseBranch(leaves)[k + 1] = L[k][2]
  <2>1. k + 1 \in 1 .. r /\ (k + 1) - 1 = k
    BY <1>1
  <2> QED
    BY <1>3, <1>4, <2>1
<1> QED
  BY <1>4, <1>6, <1>7 DEF r, L

\* The branch of a job is made with a placeholder for the coinbase, and leads from any
\* coinbase to the root of the tree with that coinbase (merkle.rs:58-106).
THEOREM BranchLeadsToRoot ==
  ASSUME NEW leaves \in Seq(Strings), leaves # <<>>,
         NEW other \in Seq(Strings), Len(other) = Len(leaves),
         \A i \in 2 .. Len(leaves) : other[i] = leaves[i]
  PROVE  RootFromCoinbaseBranch(leaves[1], CoinbaseBranch(other)) = MerkleRoot(leaves)
<1> DEFINE r == Rounds(leaves)
           L == Levels(leaves)
           branch == CoinbaseBranch(other)
<1>1. /\ L \in [Nat -> Seq(Strings)] /\ L[0] = leaves /\ \A k \in Nat : L[k + 1] = Above(L[k])
  BY LevelsFacts
<1>a. r \in Nat
  BY RoundsFacts
<1>b. leaves[1] \in Strings /\ other # <<>>
  OBVIOUS
<1>2. /\ Rounds(other) = r
      /\ \A k \in Nat : /\ Len(Levels(other)[k]) = Len(L[k])
                        /\ \A i \in 2 .. Len(L[k]) : Levels(other)[k][i] = L[k][i]
  BY OnlyTheCoinbaseDiffers
<1>3. /\ branch \in Seq(Strings) /\ Len(branch) = r
      /\ \A k \in 0 .. r - 1 : Len(Levels(other)[k]) > 1 /\ branch[k + 1] = Levels(other)[k][2]
  BY <1>b, <1>2, BranchFacts
<1>4. MerkleRoot(leaves) = L[r][1]
  BY DEF MerkleRoot
<1> HIDE DEF r, L, branch
<1>c. PICK hash : Folded(hash, leaves[1], branch)
  BY <1>b, <1>3, FoldFacts
<1>5. /\ hash[0] = leaves[1]
      /\ \A k \in 0 .. r - 1 : hash[k + 1] = Combine(hash[k], branch[k + 1])
      /\ RootFromCoinbaseBranch(leaves[1], branch) = hash[r]
  BY <1>3, <1>c DEF Folded
<1>6. ASSUME NEW k \in 0 .. r - 1
      PROVE  L[k + 1][1] = Combine(L[k][1], branch[k + 1])
  <2> DEFINE level == L[k]
  <2>0. k \in Nat
    BY <1>a
  <2>1. level \in Seq(Strings) /\ L[k + 1] = Above(level)
    BY <1>1, <2>0
  <2>2. Len(level) > 1 /\ branch[k + 1] = level[2]
    BY <1>2, <1>3, <2>0
  <2> HIDE DEF level
  <2>3. Len(level) \in Nat
    BY <2>1
  <2>4. 1 \in 1 .. CeilHalf(Len(level)) /\ 2 * 1 - 1 = 1 /\ 2 * 1 = 2
    BY <2>2, <2>3 DEF CeilHalf
  <2>5. Above(level)[1] = Combine(level[1], Sibling(level, 1))
    BY <2>1, <2>4, AboveFacts
  <2>6. Sibling(level, 1) = level[2]
    BY <2>2, <2>3, <2>4 DEF Sibling
  <2> QED
    BY <2>1, <2>2, <2>5, <2>6 DEF level
<1> DEFINE S == {k \in Nat : k <= r => hash[k] = L[k][1]}
<1>7. 0 \in S
  BY <1>1, <1>5
<1>8. ASSUME NEW k \in Nat, k \in S PROVE k + 1 \in S
  <2> SUFFICES ASSUME k + 1 <= r PROVE hash[k + 1] = L[k + 1][1]
    OBVIOUS
  <2>1. k \in 0 .. r - 1 /\ k <= r
    BY <1>a
  <2> QED
    BY <1>5, <1>6, <1>8, <2>1
<1>9. r \in S
  <2> HIDE DEF S
  <2> QED
    BY <1>a, <1>7, <1>8, Induction
<1> QED
  BY <1>a, <1>4, <1>5, <1>9 DEF branch

-----------------------------------------------------------------------------
(* The consensus rule.                                                     *)

\* The row above a row of nodes, of which this many count.
Parents(row, width) ==
  [i \in Nat |->
     LET right == IF 2 * i + 1 < width THEN 2 * i + 1 ELSE 2 * i
     IN  Combine(row[2 * i], row[right])]

\* The rows of the reference definition: leaves, each row above the one before, root.
Rule(node, leaves) ==
  /\ node \in [Nat -> [Nat -> Strings]]
  /\ \A i \in 0 .. Len(leaves) - 1 : node[0][i] = leaves[i + 1]
  /\ \A h \in Nat : node[h + 1] = Parents(node[h], Width(Len(leaves))[h])

LEMMA ParentsFacts ==
  ASSUME NEW row \in [Nat -> Strings], NEW width
  PROVE  /\ Parents(row, width) \in [Nat -> Strings]
         /\ \A i \in Nat : Parents(row, width)[i] =
              Combine(row[2 * i], IF 2 * i + 1 < width THEN row[2 * i + 1] ELSE row[2 * i])
<1>1. \A i \in Nat : 2 * i \in Nat /\ 2 * i + 1 \in Nat
  OBVIOUS
<1>2. \A i \in Nat : row[2 * i] \in Strings /\ row[2 * i + 1] \in Strings
  BY <1>1
<1>3. \A i \in Nat : Combine(row[2 * i], row[2 * i]) \in Strings
                     /\ Combine(row[2 * i], row[2 * i + 1]) \in Strings
  BY <1>2, HashIsString
<1> QED
  BY <1>3 DEF Parents

LEMMA ReferenceFacts ==
  ASSUME NEW leaves \in Seq(Strings), leaves # <<>>
  PROVE  \E node : Rule(node, leaves) /\ ReferenceRoot(leaves) = node[Rounds(leaves)][0]
<1> DEFINE n == Len(leaves)
           width == Width(n)
           first == [i \in Nat |-> IF i < n THEN leaves[i + 1] ELSE <<>>]
           Defines(f) ==
             f = [h \in Nat |->
                    [i \in Nat |->
                       IF h = 0 THEN IF i < n THEN leaves[i + 1] ELSE <<>>
                       ELSE LET right == IF 2 * i + 1 < width[h - 1] THEN 2 * i + 1 ELSE 2 * i
                            IN  Combine(f[h - 1][2 * i], f[h - 1][right])]]
           Rows(f) == f = [h \in Nat |-> IF h = 0 THEN first ELSE Parents(f[h - 1], width[h - 1])]
           V == [Nat -> Strings]
           step == [s \in Nat \X V |-> Parents(s[2], width[s[1]])]
<1>1. n \in Nat \ {0} /\ \A k \in 1 .. n : leaves[k] \in Strings
  OBVIOUS
<1>2. ReferenceRoot(leaves)
        = (CHOOSE f : Defines(f))[CHOOSE h \in 0 .. n : FirstAt(h, width)][0]
  BY DEF ReferenceRoot, FirstAt
<1>3. ASSUME NEW f PROVE Defines(f) <=> Rows(f)
  <2>1. [h \in Nat |->
           [i \in Nat |->
              IF h = 0 THEN IF i < n THEN leaves[i + 1] ELSE <<>>
              ELSE LET right == IF 2 * i + 1 < width[h - 1] THEN 2 * i + 1 ELSE 2 * i
                   IN  Combine(f[h - 1][2 * i], f[h - 1][right])]]
         = [h \in Nat |-> IF h = 0 THEN first ELSE Parents(f[h - 1], width[h - 1])]
    <3> HIDE DEF width, n
    <3>1. ASSUME NEW h \in Nat
          PROVE  [i \in Nat |->
                    IF h = 0 THEN IF i < n THEN leaves[i + 1] ELSE <<>>
                    ELSE LET right == IF 2 * i + 1 < width[h - 1] THEN 2 * i + 1 ELSE 2 * i
                         IN  Combine(f[h - 1][2 * i], f[h - 1][right])]
                 = IF h = 0 THEN first ELSE Parents(f[h - 1], width[h - 1])
      <4>1. CASE h = 0
        BY <4>1
      <4>2. CASE h # 0
        BY <4>2 DEF Parents
      <4> QED
        BY <4>1, <4>2
    <3> QED
      BY <3>1
  <2> QED
    BY <2>1
<1>4. first \in V
  BY <1>1 DEF Strings
<1>5. step \in [Nat \X V -> V] /\ \A m \in Nat, v \in V : step[<<m, v>>] = Parents(v, width[m])
  <2>1. \A m \in Nat, v \in V : Parents(v, width[m]) \in V
    BY ParentsFacts
  <2> HIDE DEF V, width
  <2> QED
    BY <2>1
<1> HIDE DEF step, V, width, first
<1>6. PICK f \in [Nat -> V] : Iterated(f, first, step)
  BY <1>4, <1>5, Iterates
<1>7. f[0] = first /\ \A k \in Nat : f[k + 1] = Parents(f[k], width[k])
  BY <1>5, <1>6 DEF Iterated
<1>8. ASSUME NEW h \in Nat PROVE f[h] = IF h = 0 THEN first ELSE Parents(f[h - 1], width[h - 1])
  <2>1. CASE h = 0
    BY <1>7, <2>1
  <2>2. CASE h # 0
    <3>1. h - 1 \in Nat /\ (h - 1) + 1 = h
      BY <2>2
    <3> QED
      BY <1>7, <2>2, <3>1
  <2> QED
    BY <2>1, <2>2
<1>9. Rows(f)
  BY <1>6, <1>8
<1> DEFINE node == CHOOSE g : Defines(g)
<1>10. Defines(node)
  <2>1. Defines(f)
    BY <1>3, <1>9
  <2> HIDE DEF Defines
  <2> QED
    BY <2>1
<1>11. Rows(node)
  <2> HIDE DEF Defines, Rows
  <2> QED
    BY <1>3, <1>10
<1>12. ReferenceRoot(leaves) = node[Rounds(leaves)][0]
  <2>1. (CHOOSE h \in 0 .. n : FirstAt(h, width)) \in 0 .. n
        /\ FirstAt(CHOOSE h \in 0 .. n : FirstAt(h, width), width)
    BY <1>1, FirstExists DEF width
  <2>2. Rounds(leaves) \in Nat /\ FirstAt(Rounds(leaves), width)
    BY RoundsFacts DEF width
  <2>3. width \in [Nat -> Nat]
    BY <1>1, WidthFacts DEF width
  <2>4. (CHOOSE h \in 0 .. n : FirstAt(h, width)) = Rounds(leaves)
    <3> HIDE DEF n
    <3> DEFINE height == CHOOSE h \in 0 .. n : FirstAt(h, width)
    <3>1. height \in Nat /\ FirstAt(height, width)
      BY <1>1, <2>1
    <3> HIDE DEF height
    <3>2. height = Rounds(leaves)
      BY <2>2, <2>3, <3>1, FirstIsUnique
    <3> QED
      BY <3>2 DEF height
  <2> QED
    BY <1>2, <2>4
<1> HIDE DEF node
<1>13. node[0] = first
  BY <1>11
<1>14. ASSUME NEW h \in Nat PROVE node[h + 1] = Parents(node[h], width[h])
  <2>1. h + 1 \in Nat /\ h + 1 # 0 /\ (h + 1) - 1 = h
    OBVIOUS
  <2> QED
    BY <1>11, <2>1
<1>15. node \in [Nat -> V]
  <2> DEFINE S == {h \in Nat : node[h] \in V}
  <2>1. 0 \in S
    BY <1>4, <1>13
  <2>2. ASSUME NEW h \in Nat, h \in S PROVE h + 1 \in S
    <3>1. node[h] \in V /\ node[h + 1] = Parents(node[h], width[h])
      BY <2>2, <1>14
    <3>2. Parents(node[h], width[h]) \in V
      BY <3>1, ParentsFacts DEF V
    <3> QED
      BY <3>1, <3>2
  <2> HIDE DEF S
  <2>3. \A h \in Nat : h \in S
    BY <2>1, <2>2, Induction
  <2>4. \A h \in Nat : node[h] \in V
    BY <2>3 DEF S
  <2>5. DOMAIN node = Nat /\ node = [h \in Nat |-> node[h]]
    BY <1>11
  <2> QED
    BY <2>4, <2>5
<1>16. \A i \in 0 .. n - 1 : node[0][i] = leaves[i + 1]
  BY <1>1, <1>13 DEF first
<1> QED
  BY <1>12, <1>14, <1>15, <1>16 DEF Rule, V, width

\* The loop over the levels computes what consensus defines from the root down
\* (merkle.rs:15-56).
THEOREM RootIsConsensus ==
  ASSUME NEW leaves \in Seq(Strings), leaves # <<>>
  PROVE  MerkleRoot(leaves) = ReferenceRoot(leaves)
<1> DEFINE r == Rounds(leaves)
           L == Levels(leaves)
           width == Width(Len(leaves))
<1>1. L \in [Nat -> Seq(Strings)] /\ L[0] = leaves /\ \A k \in Nat : L[k + 1] = Above(L[k])
  BY LevelsFacts
<1>2. r \in Nat /\ FirstAt(r, width)
  BY RoundsFacts
<1>3. \A k \in Nat : Len(L[k]) = width[k]
  BY LevelWidths
<1>4. PICK node : Rule(node, leaves) /\ ReferenceRoot(leaves) = node[r][0]
  BY ReferenceFacts
<1>5. MerkleRoot(leaves) = L[r][1]
  BY DEF MerkleRoot
<1>6. Len(leaves) \in Nat \ {0} /\ width[0] = Len(leaves)
  <2>1. Len(leaves) \in Nat \ {0}
    OBVIOUS
  <2> QED
    BY <2>1, WidthFacts
<1> HIDE DEF r, L
<1> DEFINE S == {k \in Nat : \A i \in 0 .. Len(L[k]) - 1 : node[k][i] = L[k][i + 1]}
<1>7. 0 \in S
  BY <1>1, <1>4 DEF Rule
<1>8. ASSUME NEW k \in Nat, k \in S PROVE k + 1 \in S
  <2> DEFINE level == L[k]
             row == node[k]
             size == Len(level)
  <2>1. level \in Seq(Strings) /\ row \in [Nat -> Strings] /\ L[k + 1] = Above(level)
    BY <1>1, <1>4 DEF Rule
  <2>2. node[k + 1] = Parents(row, size)
    BY <1>3, <1>4 DEF Rule
  <2>3. \A i \in 0 .. size - 1 : row[i] = level[i + 1]
    BY <1>8
  <2>4. size \in Nat
    BY <2>1
  <2> HIDE DEF level, row
  <2>5. /\ Len(Above(level)) = CeilHalf(size)
        /\ \A i \in 1 .. CeilHalf(size) :
             /\ 2 * i - 1 \in 1 .. size
             /\ Above(level)[i] = Combine(level[2 * i - 1], Sibling(level, i))
    BY <2>1, AboveFacts
  <2>6. \A i \in Nat : Parents(row, size)[i] =
          Combine(row[2 * i], IF 2 * i + 1 < size THEN row[2 * i + 1] ELSE row[2 * i])
    BY <2>1, ParentsFacts
  <2>7. ASSUME NEW i \in 0 .. CeilHalf(size) - 1
        PROVE  Parents(row, size)[i] = Above(level)[i + 1]
    <3> DEFINE j == i + 1
    <3>0. CeilHalf(size) \in Nat
      BY <2>4 DEF CeilHalf
    <3>1. i \in Nat /\ j \in 1 .. CeilHalf(size) /\ 2 * j - 1 = 2 * i + 1 /\ 2 * j = 2 * i + 2
      BY <3>0
    <3>2. 2 * i + 1 \in 1 .. size
      BY <2>5, <3>1
    <3>3. row[2 * i] = level[2 * i + 1]
      <4>1. 2 * i \in 0 .. size - 1
        BY <2>4, <3>1, <3>2
      <4> QED
        BY <2>3, <4>1
    <3>4. (IF 2 * i + 1 < size THEN row[2 * i + 1] ELSE row[2 * i]) = Sibling(level, j)
      <4>1. CASE 2 * i + 1 < size
        <5>1. 2 * i + 1 \in 0 .. size - 1 /\ 2 * j <= size /\ (2 * i + 1) + 1 = 2 * j
          BY <2>4, <3>1, <4>1
        <5>2. row[2 * i + 1] = level[2 * j]
          BY <2>3, <5>1
        <5> QED
          BY <4>1, <5>1, <5>2 DEF Sibling
      <4>2. CASE ~(2 * i + 1 < size)
        <5>1. ~(2 * j <= size)
          BY <2>4, <3>1, <4>2
        <5> QED
          BY <3>1, <3>3, <4>2, <5>1 DEF Sibling
      <4> QED
        BY <4>1, <4>2
    <3> HIDE DEF j
    <3>5. Above(level)[j] = Combine(level[2 * i + 1], Sibling(level, j))
      BY <2>5, <3>1
    <3>6. Parents(row, size)[i] = Combine(level[2 * i + 1], Sibling(level, j))
      BY <2>6, <3>1, <3>3, <3>4
    <3> QED
      BY <3>5, <3>6 DEF j
  <2>8. \A i \in 0 .. Len(L[k + 1]) - 1 : node[k + 1][i] = L[k + 1][i + 1]
    BY <2>1, <2>2, <2>5, <2>7
  <2> QED
    BY <2>8
<1>9. r \in S
  <2> HIDE DEF S
  <2> QED
    BY <1>2, <1>7, <1>8, Induction
<1>10. Len(L[r]) = 1
  BY <1>2, <1>3 DEF FirstAt
<1> QED
  BY <1>4, <1>5, <1>9, <1>10

-----------------------------------------------------------------------------
(* The wire gives back what was sent.                                      *)

LEMMA WordsSwapBack ==
  ASSUME NEW bytes \in Seq(Nat), Len(bytes) % 2 = 0
  PROVE  SwapWords(SwapWords(bytes)) = bytes
<1> DEFINE n == Len(bytes)
           partner(i) == IF i % 2 = 1 THEN i + 1 ELSE i - 1
           swapped == [i \in 1 .. n |-> bytes[partner(i)]]
<1>1. n \in Nat /\ bytes = [i \in 1 .. n |-> bytes[i]]
  OBVIOUS
<1>2. ASSUME NEW i \in 1 .. n
      PROVE  partner(i) \in 1 .. n /\ partner(partner(i)) = i
  <2>1. n % 2 = 0 /\ i \in Int /\ 1 <= i /\ i <= n
    OBVIOUS
  <2> HIDE DEF n
  <2>2. CASE i % 2 = 1
    <3>1. i # n /\ n \in Int
      BY <1>1, <2>1, <2>2
    <3>2. i + 1 \in 1 .. n /\ (i + 1) - 1 = i
      BY <2>1, <3>1
    <3>3. (i + 1) % 2 # 1
      BY <2>1, <2>2
    <3> QED
      BY <2>2, <3>2, <3>3
  <2>3. CASE i % 2 # 1
    <3>1. i % 2 = 0
      BY <2>1, <2>3
    <3>2. i - 1 \in 1 .. n /\ (i - 1) % 2 = 1 /\ (i - 1) + 1 = i
      BY <1>1, <2>1, <3>1
    <3> QED
      BY <2>3, <3>2
  <2> QED
    BY <2>2, <2>3
<1>3. SwapWords(bytes) = swapped
  <2>1. \A i \in 1 .. n : (IF i % 2 = 1 THEN bytes[i + 1] ELSE bytes[i - 1]) = bytes[partner(i)]
    OBVIOUS
  <2> QED
    BY <2>1 DEF SwapWords
<1>4. Len(swapped) = n
  BY <1>1
<1>5. SwapWords(swapped) = [i \in 1 .. n |-> swapped[partner(i)]]
  <2> HIDE DEF swapped
  <2>1. \A i \in 1 .. n : (IF i % 2 = 1 THEN swapped[i + 1] ELSE swapped[i - 1]) = swapped[partner(i)]
    OBVIOUS
  <2> QED
    BY <1>4, <2>1 DEF SwapWords
<1> HIDE DEF partner
<1>6. \A i \in 1 .. n : swapped[partner(i)] = bytes[i]
  BY <1>2
<1> QED
  BY <1>1, <1>3, <1>5, <1>6

LEMMA VersionsComeBack ==
  ASSUME NEW version \in -(U32 \div 2) .. U32 \div 2 - 1
  PROVE  Signed(Unsigned(version)) = version
<1> DEFINE half == U32 \div 2
<1>1. half \in Nat /\ U32 = 2 * half
  BY WorkUnitAssumption
<1> HIDE DEF half
<1>2. version \in Int /\ -half <= version /\ version < half
  BY <1>1 DEF half
<1>3. CASE version >= 0
  <2>1. version % U32 = version
    BY <1>1, <1>2, <1>3
  <2> QED
    BY <1>2, <2>1 DEF Signed, Unsigned, half
<1>4. CASE version < 0
  <2>1. version % U32 = version + U32
    BY <1>1, <1>2, <1>4
  <2> QED
    BY <1>1, <1>2, <1>4, <2>1 DEF Signed, Unsigned, half
<1> QED
  BY <1>2, <1>3, <1>4

-----------------------------------------------------------------------------
(* The split of the coinbase.                                              *)

\* A string of three parts, and what it is cut into.
CutAt(whole, a, b, c) ==
  /\ whole \in Strings
  /\ Len(whole) = Len(a) + Len(b) + Len(c)
  /\ SubSeq(whole, Len(a) + 1, Len(a) + Len(b)) = b
  /\ SubSeq(whole, 1, Len(a)) = a
  /\ SubSeq(whole, Len(a) + Len(b) + 1, Len(whole)) = c

LEMMA Cuts ==
  ASSUME NEW a \in Strings, NEW b \in Strings, NEW c \in Strings, b # <<>>
  PROVE  CutAt((a \o b) \o c, a, b, c)
<1> DEFINE ab == a \o b
           whole == ab \o c
<1> USE DEF Strings
<1>1. /\ ab \in Seq(Nat) /\ Len(ab) = Len(a) + Len(b)
      /\ Len(a) \in Nat /\ Len(b) \in Nat \ {0} /\ Len(c) \in Nat
  BY ConcatProperties, EmptySeq
<1>2. SubSeq(ab, Len(a) + 1, Len(ab)) = b
  <2>1. Len(a) + 1 \in Len(a) + 1 .. Len(a) + Len(b) /\ Len(ab) \in Len(a) + 1 .. Len(a) + Len(b)
        /\ (Len(a) + 1) - Len(a) = 1 /\ Len(ab) - Len(a) = Len(b)
    BY <1>1
  <2>2. SubSeq(ab, Len(a) + 1, Len(ab)) = SubSeq(b, (Len(a) + 1) - Len(a), Len(ab) - Len(a))
    BY <2>1, SubSeqOfConcat2
  <2>3. SubSeq(b, 1, Len(b)) = b
    BY SubSeqFull
  <2> QED
    BY <2>1, <2>2, <2>3
<1>3. SubSeq(ab, 1, Len(a)) = a
  <2>1. CASE a = <<>>
    <3>1. Len(a) = 0 /\ SubSeq(ab, 1, 0) = <<>>
      BY <2>1, SubSeqEmpty
    <3> QED
      BY <2>1, <3>1
  <2>2. CASE a # <<>>
    <3>1. 1 \in 1 .. Len(a) /\ Len(a) \in 1 .. Len(a)
      BY <2>2, EmptySeq
    <3> HIDE DEF ab
    <3>2. SubSeq(ab, 1, Len(a)) = SubSeq(a, 1, Len(a))
      BY <3>1, SubSeqOfConcat1 DEF ab
    <3>3. SubSeq(a, 1, Len(a)) = a
      BY SubSeqFull
    <3> QED
      BY <3>2, <3>3
  <2> QED
    BY <2>1, <2>2
<1> HIDE DEF ab
<1>4. whole \in Seq(Nat) /\ Len(whole) = Len(ab) + Len(c)
  BY <1>1, ConcatProperties
<1>5. SubSeq(whole, Len(a) + 1, Len(ab)) = b
  <2>1. Len(a) + 1 \in 1 .. Len(ab) /\ Len(ab) \in 1 .. Len(ab)
    BY <1>1
  <2>2. SubSeq(whole, Len(a) + 1, Len(ab)) = SubSeq(ab, Len(a) + 1, Len(ab))
    BY <1>1, <2>1, SubSeqOfConcat1
  <2> QED
    BY <1>2, <2>2
<1>6. SubSeq(whole, 1, Len(a)) = a
  <2>1. CASE a = <<>>
    <3>1. Len(a) = 0 /\ SubSeq(whole, 1, 0) = <<>>
      BY <2>1, SubSeqEmpty
    <3> QED
      BY <2>1, <3>1
  <2>2. CASE a # <<>>
    <3>1. 1 \in 1 .. Len(ab) /\ Len(a) \in 1 .. Len(ab)
      BY <1>1, <2>2, EmptySeq
    <3>2. SubSeq(whole, 1, Len(a)) = SubSeq(ab, 1, Len(a))
      BY <1>1, <3>1, SubSeqOfConcat1
    <3> QED
      BY <1>3, <3>2
  <2> QED
    BY <2>1, <2>2
<1>7. SubSeq(whole, Len(ab) + 1, Len(whole)) = c
  <2>1. CASE c = <<>>
    <3>1. Len(whole) = Len(ab)
      BY <1>1, <1>4, <2>1
    <3>2. SubSeq(whole, Len(ab) + 1, Len(whole)) = <<>>
      BY <1>1, <3>1, SubSeqEmpty
    <3> QED
      BY <2>1, <3>2
  <2>2. CASE c # <<>>
    <3>1. Len(c) \in Nat \ {0}
      BY <2>2, EmptySeq
    <3>2. Len(ab) + 1 \in Len(ab) + 1 .. Len(ab) + Len(c)
          /\ Len(whole) \in Len(ab) + 1 .. Len(ab) + Len(c)
          /\ (Len(ab) + 1) - Len(ab) = 1 /\ Len(whole) - Len(ab) = Len(c)
      BY <1>1, <1>4, <3>1
    <3>3. SubSeq(whole, Len(ab) + 1, Len(whole))
            = SubSeq(c, (Len(ab) + 1) - Len(ab), Len(whole) - Len(ab))
      <4>1. ab \in Seq(Nat) /\ c \in Seq(Nat) /\ whole = ab \o c
        BY <1>1 DEF Strings
      <4>2. PICK m \in Len(ab) + 1 .. Len(ab) + Len(c), n \in Len(ab) + 1 .. Len(ab) + Len(c) :
              m = Len(ab) + 1 /\ n = Len(whole)
        BY <3>2
      <4>3. SubSeq(ab \o c, m, n) = SubSeq(c, m - Len(ab), n - Len(ab))
        BY <4>1, SubSeqOfConcat2
      <4> QED
        BY <4>1, <4>2, <4>3
    <3>4. SubSeq(c, 1, Len(c)) = c
      BY SubSeqFull
    <3> QED
      BY <3>2, <3>3, <3>4
  <2> QED
    BY <2>1, <2>2
<1> QED
  BY <1>1, <1>4, <1>5, <1>6, <1>7 DEF ab, CutAt

\* Named, so that the provers see which instance is meant.
Associates(a, b, c) == (a \o b) \o c = a \o (b \o c)

LEMMA Associative ==
  \A a, b, c \in Strings : Associates(a, b, c)
BY ConcatAssociative DEF Strings, Associates

LEMMA Joins ==
  ASSUME NEW a \in Strings, NEW b \in Strings
  PROVE  a \o b \in Strings /\ Len(a \o b) = Len(a) + Len(b) /\ Len(a) \in Nat /\ Len(b) \in Nat
BY ConcatProperties DEF Strings

Collects(u, x, p, q, z) == (((u \o x) \o p) \o q) \o z = u \o (((x \o p) \o q) \o z)

LEMMA Collect ==
  \A u, x, p, q, z \in Strings : Collects(u, x, p, q, z)
<1> SUFFICES ASSUME NEW u \in Strings, NEW x \in Strings, NEW p \in Strings,
                    NEW q \in Strings, NEW z \in Strings
             PROVE  Collects(u, x, p, q, z)
  BY Zenon
<1>1. x \o p \in Strings /\ (x \o p) \o q \in Strings
  BY Joins, Zenon
<1>2. Associates(u, x, p)
  BY Associative, Zenon
<1>3. Associates(u, x \o p, q)
  BY <1>1, Associative, Zenon
<1>4. Associates(u, (x \o p) \o q, z)
  BY <1>1, Associative, Zenon
<1> QED
  BY <1>2, <1>3, <1>4, Zenon DEF Associates, Collects

\* The coinbase, its parts named: they can be put together in two ways.
Regroups(a, n, h, l, e, t, x, p, q, z) ==
  /\ ((((a \o (n \o ((h \o (l \o e)) \o t))) \o x) \o p) \o q) \o z
       = ((a \o (n \o (h \o l))) \o e) \o (t \o (((x \o p) \o q) \o z))
  /\ t \o (((x \o p) \o q) \o z) \in Strings

LEMMA Regroup ==
  \A a, n, h, l, e, t, x, p, q, z \in Strings : Regroups(a, n, h, l, e, t, x, p, q, z)
<1> SUFFICES ASSUME NEW a \in Strings, NEW n \in Strings, NEW h \in Strings, NEW l \in Strings,
                    NEW e \in Strings, NEW t \in Strings,
                    NEW x \in Strings, NEW p \in Strings, NEW q \in Strings, NEW z \in Strings
             PROVE  Regroups(a, n, h, l, e, t, x, p, q, z)
  BY Zenon
<1> DEFINE k == n \o (h \o l)
           f == a \o k
           y == ((x \o p) \o q) \o z
           u == f \o (e \o t)
<1>1. /\ h \o l \in Strings /\ k \in Strings /\ f \in Strings /\ l \o e \in Strings
      /\ e \o t \in Strings /\ x \o p \in Strings /\ (x \o p) \o q \in Strings /\ y \in Strings
  BY Joins, Zenon
<1>2. u \in Strings /\ t \o y \in Strings
  <2> HIDE DEF f, y
  <2> QED
    BY <1>1, Joins, Zenon
<1>3. a \o (n \o ((h \o (l \o e)) \o t)) = u
  <2>1. Associates(h, l, e)
    BY Associative, Zenon
  <2>2. Associates(h \o l, e, t)
    BY <1>1, Associative, Zenon
  <2>3. Associates(n, h \o l, e \o t)
    BY <1>1, Associative, Zenon
  <2>4. Associates(a, k, e \o t)
    <3> HIDE DEF k
    <3> QED
      BY <1>1, Associative, Zenon
  <2> QED
    BY <2>1, <2>2, <2>3, <2>4, Zenon DEF Associates
<1>4. Collects(u, x, p, q, z)
  <2> HIDE DEF u
  <2> QED
    BY <1>2, Collect, Zenon
<1>5. u \o y = (f \o e) \o (t \o y)
  <2> HIDE DEF f, y
  <2>1. Associates(f, e \o t, y)
    BY <1>1, Associative, Zenon
  <2>2. Associates(e, t, y)
    BY <1>1, Associative, Zenon
  <2>3. Associates(f, e, t \o y)
    BY <1>1, <1>2, Associative, Zenon
  <2> QED
    BY <2>1, <2>2, <2>3, Zenon DEF Associates
<1> HIDE DEF u
<1> QED
  BY <1>1, <1>2, <1>3, <1>4, <1>5, Zenon DEF Regroups, Collects

IsActive(active) ==
  /\ active.height \in Nat /\ active.coinbase_value \in Nat
  /\ active.payout_script \in Strings /\ active.witness_commitment \in Strings

LEMMA ScriptFacts ==
  ASSUME NEW height \in Nat, NEW e \in Strings
  PROVE  /\ ScriptSig(height, e) \in Strings
         /\ Len(ScriptSig(height, e)) =
              (IF Len(e) = 0 THEN 0 ELSE 1 + Len(e)) + 2 + Len(TAG)
<1> DEFINE push == IF e = <<>> THEN <<>> ELSE PushData(e)
           tag == PushData(TAG)
<1>1. /\ push \in Strings /\ Len(push) = IF Len(e) = 0 THEN 0 ELSE 1 + Len(e)
  <2>1. CASE e = <<>>
    BY <2>1 DEF Strings
  <2>2. CASE e # <<>>
    <3>1. <<Len(e)>> \in Strings /\ Len(<<Len(e)>>) = 1 /\ Len(e) \in Nat /\ Len(e) # 0
      BY <2>2 DEF Strings
    <3>2. push = <<Len(e)>> \o e
      BY <2>2 DEF PushData
    <3> HIDE DEF push
    <3> QED
      BY <3>1, <3>2, ConcatProperties DEF Strings
  <2> QED
    BY <2>1, <2>2
<1>2. tag \in Strings /\ Len(tag) = 1 + Len(TAG) /\ Len(TAG) \in Nat
  BY WorkUnitAssumption DEF PushData, Strings
<1>3. ScriptSig(height, e) = (<<height>> \o push) \o tag
  BY DEF ScriptSig
<1> HIDE DEF push, tag
<1>4. <<height>> \o push \in Strings /\ Len(<<height>> \o push) = 1 + Len(push)
  BY <1>1 DEF Strings
<1>5. Len(push) \in Nat
  BY <1>1 DEF Strings
<1>6. /\ (<<height>> \o push) \o tag \in Strings
      /\ Len((<<height>> \o push) \o tag) = (1 + Len(push)) + Len(tag)
  BY <1>2, <1>4, Joins
<1>7. Len(ScriptSig(height, e)) = (1 + Len(push)) + Len(tag)
  BY <1>3, <1>6
<1>8. Len(e) \in Nat
  BY DEF Strings
<1>9. Len(ScriptSig(height, e)) = (IF Len(e) = 0 THEN 0 ELSE 1 + Len(e)) + 2 + Len(TAG)
  <2> DEFINE total == Len(ScriptSig(height, e))
             a == Len(push)
             b == Len(tag)
             c == Len(e)
             d == Len(TAG)
  <2>1. total = (1 + a) + b /\ b = 1 + d /\ d \in Nat /\ c \in Nat
    BY <1>2, <1>7, <1>8
  <2>2. a = IF c = 0 THEN 0 ELSE 1 + c
    BY <1>1
  <2> HIDE DEF total, a, b, c, d
  <2>3. total = (IF c = 0 THEN 0 ELSE 1 + c) + 2 + d
    BY <2>1, <2>2
  <2> QED
    BY <2>3 DEF total, c, d
<1>10. ScriptSig(height, e) \in Strings
  BY <1>3, <1>6
<1> QED
  BY <1>9, <1>10

\* What stands before the extranonce depends on its length alone, what stands
\* behind it on neither; the third byte is the length of the script.
Opening(active, size) == <<2, 1>> \o (<<size + 3 + Len(TAG)>> \o (<<active.height>> \o <<size>>))

Closing(active) ==
  PushData(TAG) \o (((<<255, 2, active.coinbase_value>> \o PushData(active.payout_script))
                       \o PushData(active.witness_commitment)) \o <<0>>)

LEMMA PushIsString ==
  ASSUME NEW data \in Strings
  PROVE  PushData(data) \in Strings
<1>1. <<Len(data)>> \in Strings
  BY DEF Strings
<1> QED
  BY <1>1 DEF PushData, Strings

LEMMA OpeningFacts ==
  ASSUME NEW active, IsActive(active), NEW size \in Nat
  PROVE  Opening(active, size) \in Strings /\ Len(Opening(active, size)) = 5
<1> DEFINE h == active.height
           n == size + 3 + Len(TAG)
<1>1. h \in Nat /\ n \in Nat
  BY WorkUnitAssumption DEF IsActive
<1>2. Opening(active, size) = <<2, 1>> \o (<<n>> \o (<<h>> \o <<size>>))
  BY DEF Opening
<1> HIDE DEF h, n
<1> DEFINE a == <<2, 1>>
           b == <<n>>
           c == <<h>>
           d == <<size>>
<1>3. /\ a \in Strings /\ b \in Strings /\ c \in Strings /\ d \in Strings
      /\ Len(a) = 2 /\ Len(b) = 1 /\ Len(c) = 1 /\ Len(d) = 1
  BY <1>1 DEF Strings
<1> HIDE DEF a, b, c, d
<1>4. c \o d \in Strings /\ Len(c \o d) = 2
  <2>1. c \o d \in Strings /\ Len(c \o d) = Len(c) + Len(d)
    BY <1>3, Joins, Zenon
  <2> QED
    BY <1>3, <2>1
<1>5. b \o (c \o d) \in Strings /\ Len(b \o (c \o d)) = 3
  <2> DEFINE w == c \o d
  <2> HIDE DEF w
  <2>1. w \in Strings /\ Len(w) = 2
    BY <1>4 DEF w
  <2>2. b \o w \in Strings /\ Len(b \o w) = Len(b) + Len(w)
    BY <1>3, <2>1, Joins, Zenon
  <2> QED
    BY <1>3, <2>1, <2>2 DEF w
<1>6. a \o (b \o (c \o d)) \in Strings /\ Len(a \o (b \o (c \o d))) = 5
  <2> DEFINE w == b \o (c \o d)
  <2> HIDE DEF w
  <2>1. w \in Strings /\ Len(w) = 3
    BY <1>5 DEF w
  <2>2. a \o w \in Strings /\ Len(a \o w) = Len(a) + Len(w)
    BY <1>3, <2>1, Joins, Zenon
  <2> QED
    BY <1>3, <2>1, <2>2 DEF w
<1> QED
  BY <1>2, <1>6 DEF a, b, c, d

LEMMA CoinbaseShape ==
  ASSUME NEW active, IsActive(active), NEW e \in Strings, e # <<>>
  PROVE  /\ SerializeLegacy(Coinbase(active, e)) = (Opening(active, Len(e)) \o e) \o Closing(active)
         /\ Closing(active) \in Strings
<1> DEFINE n == Len(ScriptSig(active.height, e))
           payout == PushData(active.payout_script)
           commitment == PushData(active.witness_commitment)
           tag == PushData(TAG)
           value == active.coinbase_value
           h == active.height
<1>1. /\ h \in Nat /\ value \in Nat /\ payout \in Strings /\ commitment \in Strings
      /\ tag \in Strings
  BY PushIsString, WorkUnitAssumption DEF IsActive, Strings
<1>2. Len(e) \in Nat \ {0} /\ Len(TAG) \in Nat
  BY WorkUnitAssumption DEF Strings
<1>3. n = Len(e) + 3 + Len(TAG) /\ n \in Nat
  <2>1. n = (IF Len(e) = 0 THEN 0 ELSE 1 + Len(e)) + 2 + Len(TAG)
    BY <1>1, ScriptFacts, Zenon
  <2> QED
    BY <1>2, <2>1
<1>4. ScriptSig(h, e) = (<<h>> \o (<<Len(e)>> \o e)) \o tag
  BY DEF ScriptSig, PushData
<1>5. SerializeLegacy(Coinbase(active, e))
        = ((((<<2, 1>> \o (<<n>> \o ScriptSig(h, e))) \o <<255, 2, value>>)
             \o payout) \o commitment) \o <<0>>
  BY DEF SerializeLegacy, Coinbase, PushData
<1>6. Opening(active, Len(e)) = <<2, 1>> \o (<<n>> \o (<<h>> \o <<Len(e)>>))
  BY <1>3 DEF Opening
<1>7. Closing(active) = tag \o (((<<255, 2, value>> \o payout) \o commitment) \o <<0>>)
  BY DEF Closing
<1>8. /\ <<2, 1>> \in Strings /\ <<n>> \in Strings /\ <<h>> \in Strings /\ <<Len(e)>> \in Strings
      /\ <<255, 2, value>> \in Strings /\ <<0>> \in Strings
  BY <1>1, <1>2, <1>3 DEF Strings
<1> DEFINE a == <<2, 1>>
           size == <<n>>
           height == <<h>>
           length == <<Len(e)>>
           x == <<255, 2, value>>
           z == <<0>>
<1> HIDE DEF n, payout, commitment, tag, value, h, a, size, height, length, x, z
<1>9. /\ a \in Strings /\ size \in Strings /\ height \in Strings /\ length \in Strings
      /\ x \in Strings /\ z \in Strings
  BY <1>8 DEF a, size, height, length, x, z
<1>10. SerializeLegacy(Coinbase(active, e))
         = ((((a \o (size \o ((height \o (length \o e)) \o tag))) \o x) \o payout) \o commitment) \o z
  BY <1>4, <1>5 DEF a, size, height, length, x, z
<1>11. Opening(active, Len(e)) = a \o (size \o (height \o length))
  BY <1>6 DEF a, size, height, length
<1>12. Closing(active) = tag \o (((x \o payout) \o commitment) \o z)
  BY <1>7 DEF x, z
<1>13. Regroups(a, size, height, length, e, tag, x, payout, commitment, z)
  BY <1>1, <1>9, Regroup, Zenon
<1> QED
  BY <1>10, <1>11, <1>12, <1>13, Zenon DEF Regroups

\* The third byte of any coinbase is the length of its script.
LEMMA ThirdByte ==
  ASSUME NEW n \in Nat, NEW b \in Strings, NEW c \in Strings
  PROVE  ((<<2, 1>> \o (<<n>> \o b)) \o c)[3] = n
<1>1. <<2, 1>> \in Seq(Nat) /\ <<n>> \in Seq(Nat) /\ Len(<<2, 1>>) = 2 /\ Len(<<n>>) = 1 /\ <<n>>[1] = n
  OBVIOUS
<1> DEFINE a == <<2, 1>>
           s == <<n>>
           w == s \o b
           v == a \o w
<1> HIDE DEF a, s
<1>2. /\ w \in Seq(Nat) /\ Len(b) \in Nat /\ Len(w) = 1 + Len(b) /\ w[1] = n
  <2>1. 1 \in 1 .. Len(s) + Len(b) /\ Len(b) \in Nat
    BY <1>1 DEF s, Strings
  <2> QED
    BY <1>1, <2>1, ConcatProperties DEF s, Strings
<1> HIDE DEF w
<1>3. /\ v \in Seq(Nat) /\ Len(v) = 3 + Len(b) /\ v[3] = n
  <2>1. 3 \in 1 .. Len(a) + Len(w) /\ ~(3 <= Len(a)) /\ 3 - Len(a) = 1
    BY <1>1, <1>2 DEF a
  <2>2. /\ v \in Seq(Nat) /\ Len(v) = Len(a) + Len(w) /\ v[3] = w[3 - Len(a)]
    BY <1>1, <1>2, <2>1, ConcatProperties DEF a
  <2> QED
    BY <1>1, <1>2, <2>1, <2>2 DEF a
<1> HIDE DEF v
<1>4. Len(c) \in Nat
  BY DEF Strings
<1>5. 3 \in 1 .. Len(v) + Len(c) /\ 3 <= Len(v)
  BY <1>2, <1>3, <1>4
<1>6. (v \o c)[3] = v[3]
  BY <1>3, <1>5, ConcatProperties DEF Strings
<1> QED
  BY <1>3, <1>6 DEF v, w, a, s

\* Every coinbase a share can claim has it there.
LEMMA CoinbaseThirdByte ==
  ASSUME NEW active, IsActive(active), NEW e \in Strings
  PROVE  SerializeLegacy(Coinbase(active, e))[3] = Len(ScriptSig(active.height, e))
<1> DEFINE script == ScriptSig(active.height, e)
           n == Len(script)
           u == <<2, 1>> \o (<<n>> \o script)
           x == <<255, 2, active.coinbase_value>>
           p == PushData(active.payout_script)
           q == PushData(active.witness_commitment)
           z == <<0>>
<1>1. script \in Strings /\ p \in Strings /\ q \in Strings
  BY ScriptFacts, PushIsString DEF IsActive
<1>2. x \in Strings /\ z \in Strings /\ <<2, 1>> \in Strings
  BY DEF IsActive, Strings
<1>3. n \in Nat /\ <<n>> \in Strings
  BY <1>1 DEF Strings
<1>4. SerializeLegacy(Coinbase(active, e)) = (((u \o x) \o p) \o q) \o z
  BY DEF SerializeLegacy, Coinbase, PushData
<1> DEFINE y == ((x \o p) \o q) \o z
<1> HIDE DEF script, n, x, p, q, z
<1>5. <<n>> \o script \in Strings
  BY <1>1, <1>3, Joins, Zenon
<1>6. u \in Strings
  BY <1>2, <1>5, Joins, Zenon
<1>7. y \in Strings
  <2>1. x \o p \in Strings
    BY <1>1, <1>2, Joins, Zenon
  <2>2. (x \o p) \o q \in Strings
    BY <1>1, <2>1, Joins, Zenon
  <2> QED
    BY <1>2, <2>2, Joins, Zenon
<1>8. Collects(u, x, p, q, z)
  <2> HIDE DEF u
  <2> QED
    BY <1>1, <1>2, <1>6, Collect, Zenon
<1> HIDE DEF y
<1>9. (u \o y)[3] = n
  BY <1>1, <1>3, <1>7, ThirdByte
<1> HIDE DEF u
<1>10. SerializeLegacy(Coinbase(active, e)) = u \o y
  BY <1>4, <1>8, Zenon DEF Collects, y
<1> QED
  BY <1>9, <1>10 DEF n, script

\* What the pool keeps of a template.
IsSplit(job, active) ==
  /\ IsActive(active)
  /\ CoinbaseFits(active, SENTINEL)
  /\ job.coinbase_prefix = Opening(active, Len(SENTINEL))
  /\ job.coinbase_suffix = Closing(active)

Spliced(job, active, e1, e2) ==
  Splice(job, e1, e2) = (Opening(active, Len(SENTINEL)) \o (e1 \o e2)) \o Closing(active)

LEMMA SpliceFacts ==
  ASSUME NEW job, NEW active, IsSplit(job, active),
         NEW e1 \in Strings, NEW e2 \in Strings, SENTINEL # <<>>
  PROVE  /\ Spliced(job, active, e1, e2)
         /\ Splice(job, e1, e2)[3] = Len(SENTINEL) + 3 + Len(TAG)
         /\ Splice(job, e1, e2) \in Strings
<1> DEFINE size == Len(SENTINEL)
           n == size + 3 + Len(TAG)
           front == Opening(active, size)
           rear == Closing(active)
           h == active.height
           e == e1 \o e2
<1>1. size \in Nat /\ n \in Nat /\ h \in Nat
  BY WorkUnitAssumption DEF IsSplit, IsActive
<1>2. SENTINEL \in Strings /\ IsActive(active)
  BY WorkUnitAssumption DEF Strings, IsSplit
<1>3. front \in Strings
  BY <1>1, <1>2, OpeningFacts
<1>4. rear \in Strings
  BY <1>2, CoinbaseShape
<1>5. front = <<2, 1>> \o (<<n>> \o (<<h>> \o <<size>>))
  BY DEF Opening
<1>6. Splice(job, e1, e2) = ((front \o e1) \o e2) \o rear
  BY DEF Splice, IsSplit
<1> HIDE DEF size, n, front, rear, h
<1>7. Associates(front, e1, e2)
  BY <1>3, Associative, Zenon
<1>8. e \in Strings
  BY Joins, Zenon
<1>9. Splice(job, e1, e2) = (front \o e) \o rear
  BY <1>6, <1>7, Zenon DEF Associates
<1> HIDE DEF e
<1>10. Associates(front, e, rear)
  BY <1>3, <1>4, <1>8, Associative, Zenon
<1>11. e \o rear \in Strings
  BY <1>4, <1>8, Joins, Zenon
<1>12. <<h>> \o <<size>> \in Strings
  <2>1. <<h>> \in Strings /\ <<size>> \in Strings
    BY <1>1 DEF Strings
  <2> QED
    BY <2>1, Joins, Zenon
<1>13. Splice(job, e1, e2) = (<<2, 1>> \o (<<n>> \o (<<h>> \o <<size>>))) \o (e \o rear)
  BY <1>5, <1>9, <1>10, Zenon DEF Associates
<1>14. Splice(job, e1, e2)[3] = n
  <2> DEFINE b == <<h>> \o <<size>>
             c == e \o rear
  <2>1. b \in Strings /\ c \in Strings
    BY <1>11, <1>12
  <2> HIDE DEF b, c
  <2>2. ((<<2, 1>> \o (<<n>> \o b)) \o c)[3] = n
    BY <1>1, <2>1, ThirdByte
  <2> QED
    BY <1>13, <2>2 DEF b, c
<1>15. front \o e \in Strings
  BY <1>3, <1>8, Joins, Zenon
<1>16. (front \o e) \o rear \in Strings
  BY <1>4, <1>15, Joins, Zenon
<1> QED
  BY <1>9, <1>14, <1>16 DEF size, n, front, rear, e, Spliced

\* The comparison of the pool accepts the announced size and no other.
LEMMA SizeDecides ==
  ASSUME NEW job, NEW active, IsSplit(job, active), SENTINEL # <<>>,
         NEW e1 \in Strings, NEW e2 \in Strings, Len(e1) + EXTRANONCE2_SIZE = Len(SENTINEL)
  PROVE  Len(e2) = EXTRANONCE2_SIZE <=>
           /\ CoinbaseFits(active, e1 \o e2)
           /\ Splice(job, e1, e2) = SerializeLegacy(Coinbase(active, e1 \o e2))
<1> DEFINE e == e1 \o e2
           h == active.height
           size == Len(SENTINEL)
           length == Len(e)
           tag == Len(TAG)
<1>1. e \in Strings /\ length = Len(e1) + Len(e2) /\ Len(e1) \in Nat /\ Len(e2) \in Nat
  BY Joins, Zenon
<1>2. SENTINEL \in Strings /\ IsActive(active) /\ h \in Nat
  BY WorkUnitAssumption DEF Strings, IsSplit, IsActive
<1>3. size \in Nat /\ size # 0 /\ tag \in Nat /\ length \in Nat /\ EXTRANONCE2_SIZE \in Nat
  BY <1>1, <1>2, WorkUnitAssumption DEF Strings
<1>4. Len(ScriptSig(h, SENTINEL)) = (IF size = 0 THEN 0 ELSE 1 + size) + 2 + tag
  BY <1>2, ScriptFacts, Zenon
<1>6. Splice(job, e1, e2) = (Opening(active, size) \o e) \o Closing(active)
  <2>1. Spliced(job, active, e1, e2)
    BY SpliceFacts, Zenon
  <2> QED
    BY <2>1, Zenon DEF Spliced
<1> HIDE DEF e, size
<1>5. Len(ScriptSig(h, e)) = (IF length = 0 THEN 0 ELSE 1 + length) + 2 + tag
  BY <1>1, <1>2, ScriptFacts, Zenon
<1>7. Len(e2) = EXTRANONCE2_SIZE <=> length = size
  <2>1. length = Len(e1) + Len(e2) /\ Len(e1) \in Nat /\ Len(e2) \in Nat
    BY <1>1
  <2>2. size = Len(e1) + EXTRANONCE2_SIZE
    BY DEF size
  <2> DEFINE a == Len(e1)
             b == Len(e2)
  <2> HIDE DEF length, a, b
  <2>3. length = a + b /\ a \in Nat /\ b \in Nat /\ size = a + EXTRANONCE2_SIZE
    BY <2>1, <2>2 DEF a, b
  <2>4. b = EXTRANONCE2_SIZE <=> length = size
    BY <1>3, <2>3
  <2> QED
    BY <2>4 DEF b
<1>8. CASE length = size
  <2>1. e # <<>>
    BY <1>3, <1>8
  <2>2. SerializeLegacy(Coinbase(active, e)) = (Opening(active, length) \o e) \o Closing(active)
    BY <1>1, <1>2, <2>1, CoinbaseShape, Zenon
  <2> HIDE DEF length, tag
  <2>3. Len(ScriptSig(h, e)) = Len(ScriptSig(h, SENTINEL))
    BY <1>4, <1>5, <1>8
  <2>4. CoinbaseFits(active, e)
    BY <2>3 DEF CoinbaseFits, IsSplit
  <2>5. Splice(job, e1, e2) = SerializeLegacy(Coinbase(active, e))
    BY <1>6, <1>8, <2>2
  <2> QED
    BY <1>7, <1>8, <2>4, <2>5 DEF e
<1>9. CASE length # size
  <2>1. Splice(job, e1, e2)[3] = size + 3 + tag
    BY SpliceFacts DEF size
  <2>2. SerializeLegacy(Coinbase(active, e))[3] = Len(ScriptSig(h, e))
    BY <1>1, <1>2, CoinbaseThirdByte
  <2> HIDE DEF length, tag
  <2>3. (IF length = 0 THEN 0 ELSE 1 + length) + 2 + tag # size + 3 + tag
    BY <1>3, <1>9
  <2>4. Splice(job, e1, e2) # SerializeLegacy(Coinbase(active, e))
    BY <1>5, <2>1, <2>2, <2>3
  <2> QED
    BY <1>7, <1>9, <2>4 DEF e
<1> QED
  BY <1>8, <1>9

LEMMA RootIsString ==
  ASSUME NEW leaves \in Seq(Strings), leaves # <<>>
  PROVE  MerkleRoot(leaves) \in Strings
<1> DEFINE r == Rounds(leaves)
           level == Levels(leaves)[r]
<1>1. r \in Nat /\ Width(Len(leaves))[r] = 1
  BY RoundsFacts DEF FirstAt
<1>2. Len(level) = 1
  BY <1>1, LevelWidths
<1>3. level \in Seq(Strings)
  BY <1>1, LevelsFacts
<1> HIDE DEF level
<1>4. level[1] \in Strings
  <2>1. 1 \in 1 .. Len(level)
    BY <1>2
  <2> QED
    BY <1>3, <2>1
<1> QED
  BY <1>4 DEF level, MerkleRoot

LEMMA MappedFacts ==
  ASSUME NEW transactions \in Strings
  PROVE  /\ Mapped(TxidOf, transactions) \in Seq(Strings)
         /\ Mapped(WtxidOf, transactions) \in Seq(Strings)
<1>1. Len(transactions) \in Nat /\ \A i \in 1 .. Len(transactions) : transactions[i] \in Nat
  BY DEF Strings
<1>2. \A i \in 1 .. Len(transactions) : <<transactions[i]>> \in Strings
      /\ <<transactions[i], 0>> \in Strings
  BY <1>1 DEF Strings
<1>3. \A i \in 1 .. Len(transactions) :
        Sha256d(<<transactions[i]>>) \in Strings /\ Sha256d(<<transactions[i], 0>>) \in Strings
  BY <1>2, HashIsString
<1>4. /\ Mapped(TxidOf, transactions) = [i \in 1 .. Len(transactions) |-> Sha256d(<<transactions[i]>>)]
      /\ Mapped(WtxidOf, transactions)
           = [i \in 1 .. Len(transactions) |-> Sha256d(<<transactions[i], 0>>)]
  BY DEF Mapped, TxidOf, WtxidOf
<1> DEFINE n == Len(transactions)
           id(i) == Sha256d(<<transactions[i]>>)
           wid(i) == Sha256d(<<transactions[i], 0>>)
<1>5. n \in Nat /\ \A i \in 1 .. n : id(i) \in Strings /\ wid(i) \in Strings
  BY <1>1, <1>3
<1> HIDE DEF n, id, wid
<1>6. [i \in 1 .. n |-> id(i)] \in Seq(Strings) /\ [i \in 1 .. n |-> wid(i)] \in Seq(Strings)
  BY <1>5
<1> QED
  BY <1>4, <1>6 DEF n, id, wid

\* The leaves of either tree: one for the coinbase, then the transactions.
LEMMA LeavesFacts ==
  ASSUME NEW first \in Strings, NEW rest \in Seq(Strings)
  PROVE  /\ <<first>> \o rest \in Seq(Strings)
         /\ <<first>> \o rest # <<>>
         /\ (<<first>> \o rest)[1] = first
         /\ Len(<<first>> \o rest) = Len(rest) + 1 /\ Len(rest) \in Nat
         /\ \A i \in 2 .. Len(rest) + 1 : (<<first>> \o rest)[i] = rest[i - 1]
<1>1. <<first>> \in Seq(Strings) /\ Len(<<first>>) = 1 /\ <<first>>[1] = first
  OBVIOUS
<1>2. Len(rest) \in Nat
  OBVIOUS
<1> DEFINE s == <<first>>
           all == s \o rest
<1> HIDE DEF s
<1>3. /\ s \in Seq(Strings) /\ Len(s) = 1 /\ s[1] = first
  BY <1>1 DEF s
<1>4. /\ all \in Seq(Strings) /\ Len(all) = Len(s) + Len(rest)
      /\ \A i \in 1 .. Len(s) + Len(rest) : all[i] = IF i <= Len(s) THEN s[i] ELSE rest[i - Len(s)]
  <2> HIDE DEF all
  <2>1. all = s \o rest
    BY DEF all
  <2> QED
    BY <1>3, <2>1, ConcatProperties
<1> HIDE DEF all
<1>5. Len(all) = Len(rest) + 1 /\ all[1] = first /\ all # <<>>
  BY <1>2, <1>3, <1>4
<1>6. \A i \in 2 .. Len(rest) + 1 : all[i] = rest[i - 1]
  BY <1>2, <1>3, <1>4
<1> QED
  BY <1>2, <1>4, <1>5, <1>6 DEF all, s

LEMMA CommitmentIsString ==
  ASSUME NEW wtxids \in Seq(Strings)
  PROVE  CommitmentScript(wtxids) \in Strings
<1>1. ZERO \in Strings
  BY HashIsString
<1>2. <<ZERO>> \o wtxids \in Seq(Strings) /\ <<ZERO>> \o wtxids # <<>>
  BY <1>1, LeavesFacts
<1>3. WitnessMerkleRoot(wtxids) \in Strings
  BY <1>2, RootIsString DEF WitnessMerkleRoot
<1>4. <<0>> \in Strings /\ <<106, 36, 170>> \in Strings
  BY DEF Strings
<1>5. WitnessMerkleRoot(wtxids) \o <<0>> \in Strings
  BY <1>3, <1>4, Joins, Zenon
<1>6. Sha256d(WitnessMerkleRoot(wtxids) \o <<0>>) \in Strings
  BY <1>5, HashIsString, Zenon
<1>7. <<106, 36, 170>> \o Sha256d(WitnessMerkleRoot(wtxids) \o <<0>>) \in Strings
  BY <1>4, <1>6, Joins, Zenon
<1> QED
  BY <1>7 DEF CommitmentScript

LEMMA UnsplitFacts ==
  ASSUME NEW template \in Templates
  PROVE  /\ IsActive(Unsplit(template))
         /\ Unsplit(template).transactions \in Strings
         /\ Unsplit(template).txids = Mapped(TxidOf, Unsplit(template).transactions)
         /\ Unsplit(template).txids \in Seq(Strings)
         /\ Unsplit(template).witness_commitment
              = CommitmentScript(Mapped(WtxidOf, Unsplit(template).transactions))
<1> DEFINE active == Unsplit(template)
           ids == Mapped(TxidOf, template.transactions)
           wids == Mapped(WtxidOf, template.transactions)
<1>1. /\ template.transactions \in Strings /\ template.payout_script \in Strings
      /\ template.height \in Nat /\ template.coinbase_value \in Nat
  BY TemplatesAssumption DEF Strings
<1>2. ids \in Seq(Strings) /\ wids \in Seq(Strings)
  BY <1>1, MappedFacts
<1>3. /\ active.transactions = template.transactions
      /\ active.payout_script = template.payout_script
      /\ active.height = template.height
      /\ active.coinbase_value = template.coinbase_value
      /\ active.txids = ids
      /\ active.witness_commitment = CommitmentScript(wids)
  BY DEF Unsplit
<1> HIDE DEF active, ids, wids
<1>4. CommitmentScript(wids) \in Strings
  BY <1>2, CommitmentIsString
<1>5. IsActive(active)
  BY <1>1, <1>3, <1>4 DEF IsActive
<1>6. ids = Mapped(TxidOf, active.transactions) /\ wids = Mapped(WtxidOf, active.transactions)
  BY <1>3 DEF ids, wids
<1> QED
  BY <1>1, <1>2, <1>3, <1>5, <1>6 DEF active

\* A sentinel that is there once is where the coinbase builder put it.
LEMMA OneMatch ==
  ASSUME NEW a \in Strings, NEW b \in Strings, Len(a) = 5, SENTINEL # <<>>,
         Cardinality(Matches((a \o SENTINEL) \o b)) = 1
  PROVE  Matches((a \o SENTINEL) \o b) = {5}
<1> DEFINE whole == (a \o SENTINEL) \o b
           size == Len(SENTINEL)
<1>1. SENTINEL \in Strings /\ size \in Nat
  BY WorkUnitAssumption DEF Strings
<1>2. CutAt(whole, a, SENTINEL, b)
  BY <1>1, Cuts, Zenon
<1>3. Len(b) \in Nat
  BY DEF Strings
<1> HIDE DEF whole, size
<1>4. Matches(whole) = {offset \in 0 .. Len(whole) - size :
                          SubSeq(whole, offset + 1, offset + size) = SENTINEL}
  BY DEF Matches, size
<1>5. 5 \in 0 .. Len(whole) - size /\ Len(whole) - size \in Int
  <2>1. Len(whole) = 5 + size + Len(b)
    BY <1>2 DEF CutAt, size
  <2> QED
    BY <1>1, <1>3, <2>1
<1>6. 5 \in Matches(whole)
  <2>1. SubSeq(whole, 5 + 1, 5 + size) = SENTINEL
    BY <1>2 DEF CutAt, size
  <2> QED
    BY <1>4, <1>5, <2>1
<1>7. IsFiniteSet(Matches(whole))
  <2>1. IsFiniteSet(0 .. Len(whole) - size)
    BY <1>5, FS_Interval
  <2>2. Matches(whole) \in SUBSET (0 .. Len(whole) - size)
    BY <1>4
  <2> QED
    BY <2>1, <2>2, FS_Subset
<1>8. \E x : Matches(whole) = {x}
  BY <1>7, FS_Singleton DEF whole
<1> QED
  BY <1>6, <1>8 DEF whole

LEMMA BuildSplits ==
  ASSUME NEW template \in Templates, Builds(template), SENTINEL # <<>>
  PROVE  IsSplit(JobOf(template), Unsplit(template))
<1> DEFINE active == Unsplit(template)
           size == Len(SENTINEL)
           front == Opening(active, size)
           rear == Closing(active)
           whole == (front \o SENTINEL) \o rear
<1>1. IsActive(active) /\ SENTINEL \in Strings /\ size \in Nat
  BY UnsplitFacts, WorkUnitAssumption DEF Strings
<1>2. front \in Strings /\ Len(front) = 5 /\ rear \in Strings
  BY <1>1, OpeningFacts, CoinbaseShape
<1>3. Serialised(template) = whole
  BY <1>1, CoinbaseShape DEF Serialised
<1>4. CoinbaseFits(active, SENTINEL) /\ Cardinality(Matches(Serialised(template))) = 1
  BY DEF Builds
<1> HIDE DEF active, size, front, rear
<1>5. Matches(whole) = {5}
  BY <1>2, <1>3, <1>4, OneMatch
<1>6. SubSeq(whole, 1, 5) = front /\ SubSeq(whole, 5 + size + 1, Len(whole)) = rear
  <2>1. CutAt(whole, front, SENTINEL, rear)
    BY <1>1, <1>2, Cuts, Zenon
  <2> HIDE DEF whole
  <2> QED
    BY <1>2, <2>1 DEF CutAt, size
<1> HIDE DEF whole
<1>7. (CHOOSE o \in Matches(whole) : \A m \in Matches(whole) : m <= o) = 5
  BY <1>5
<1>8. /\ JobOf(template).coinbase_prefix = SubSeq(whole, 1, 5)
      /\ JobOf(template).coinbase_suffix = SubSeq(whole, 5 + size + 1, Len(whole))
  BY <1>3, <1>7 DEF JobOf, size
<1> QED
  BY <1>1, <1>4, <1>6, <1>8 DEF IsSplit, active, front, rear, size

-----------------------------------------------------------------------------
(* A share of a job that was built, and what the pool makes of it.         *)

JobRecord(h, prefix, suffix, branch, v, bits, time) ==
  [prev_hash |-> h, coinbase_prefix |-> prefix, coinbase_suffix |-> suffix,
   merkle_branch |-> branch, version |-> v, bits |-> bits, time |-> time]

Exchanged(job, x, y) == [job EXCEPT !.prev_hash = x, !.version = y]

LEMMA Exchange ==
  ASSUME NEW h, NEW prefix, NEW suffix, NEW branch, NEW v, NEW bits, NEW time, NEW x, NEW y
  PROVE  Exchanged(JobRecord(h, prefix, suffix, branch, v, bits, time), x, y)
           = JobRecord(x, prefix, suffix, branch, y, bits, time)
<1> DEFINE r == JobRecord(h, prefix, suffix, branch, v, bits, time)
           one == JobRecord(x, prefix, suffix, branch, v, bits, time)
<1>1. [r EXCEPT !.prev_hash = x] = one
  BY DEF JobRecord
<1>2. [one EXCEPT !.version = y] = JobRecord(x, prefix, suffix, branch, y, bits, time)
  BY DEF JobRecord
<1> HIDE DEF r, one
<1>3. [r EXCEPT !.prev_hash = x, !.version = y] = [[r EXCEPT !.prev_hash = x] EXCEPT !.version = y]
  OBVIOUS
<1>4. [r EXCEPT !.prev_hash = x, !.version = y] = JobRecord(x, prefix, suffix, branch, y, bits, time)
  BY <1>1, <1>2, <1>3
<1> QED
  BY <1>4, Zenon DEF r, Exchanged

LEMMA WireRoundTrip ==
  ASSUME NEW template \in Templates
  PROVE  FromNotifyParams(ToNotifyParams(JobOf(template))) = JobOf(template)
<1> DEFINE job == JobOf(template)
           hash == template.prev_hash
           version == template.version
           prefix == job.coinbase_prefix
           suffix == job.coinbase_suffix
           branch == job.merkle_branch
           bits == template.bits
           time == template.time
           Fields(h, v) == JobRecord(h, prefix, suffix, branch, v, bits, time)
<1>1. job = Fields(hash, version)
  BY DEF JobOf, JobRecord
<1>0. ASSUME NEW h, NEW v PROVE Fields(h, v).prev_hash = h /\ Fields(h, v).version = v
  BY DEF JobRecord
<1>2. SwapWords(SwapWords(hash)) = hash
  BY TemplatesAssumption, WordsSwapBack
<1>3. Signed(Unsigned(version)) = version
  BY TemplatesAssumption, VersionsComeBack
<1> HIDE DEF job, hash, version, prefix, suffix, branch, bits, time
<1>4. ToNotifyParams(job) = Fields(SwapWords(hash), Unsigned(version))
  <2>1. ToNotifyParams(job) = [job EXCEPT !.prev_hash = SwapWords(job.prev_hash),
                                          !.version = Unsigned(job.version)]
    BY DEF ToNotifyParams
  <2>2. job.prev_hash = hash /\ job.version = version
    BY <1>0, <1>1
  <2>3. ToNotifyParams(job) = Exchanged(Fields(hash, version), SwapWords(hash), Unsigned(version))
    BY <1>1, <2>1, <2>2, Zenon DEF Exchanged
  <2> QED
    BY <2>3, Exchange
<1>5. FromNotifyParams(Fields(SwapWords(hash), Unsigned(version)))
        = Fields(SwapWords(SwapWords(hash)), Signed(Unsigned(version)))
  <2> DEFINE params == Fields(SwapWords(hash), Unsigned(version))
  <2>1. FromNotifyParams(params) = [params EXCEPT !.prev_hash = SwapWords(params.prev_hash),
                                                  !.version = Signed(params.version)]
    BY DEF FromNotifyParams
  <2>2. params.prev_hash = SwapWords(hash) /\ params.version = Unsigned(version)
    BY <1>0
  <2>3. FromNotifyParams(params)
          = Exchanged(params, SwapWords(SwapWords(hash)), Signed(Unsigned(version)))
    BY <2>1, <2>2, Zenon DEF Exchanged
  <2> QED
    BY <2>3, Exchange
<1> QED
  BY <1>1, <1>2, <1>3, <1>4, <1>5 DEF job

Shares(ids) ==
  [job_id : ids, extranonce1 : Extranonce1s, extranonce2 : Extranonce2s, time : Times]

\* The header that was mined on, and the one the tree leads to.
LEMMA TreeAndBranch ==
  ASSUME NEW template \in Templates, NEW e1 \in Strings, NEW e2 \in Strings, NEW time,
         Builds(template), SENTINEL # <<>>, NEW coinbase,
         Splice(JobOf(template), e1, e2) = SerializeLegacy(coinbase)
  PROVE  /\ MerkleRoot(<<Txid(coinbase)>> \o Unsplit(template).txids)
              = JobHeader(JobOf(template), e1, e2, time).merkle_root
         /\ Txid(coinbase) \in Strings
<1> DEFINE txids == Unsplit(template).txids
           id == Txid(coinbase)
           leaves == <<id>> \o txids
           other == <<ZERO>> \o txids
           job == JobOf(template)
<1>1. txids \in Seq(Strings) /\ IsSplit(job, Unsplit(template))
  BY UnsplitFacts, BuildSplits
<1>2. Splice(job, e1, e2) \in Strings
  BY <1>1, SpliceFacts
<1>3. id \in Strings /\ id = Sha256d(Splice(job, e1, e2))
  BY <1>2, HashIsString DEF Txid
<1>4. JobHeader(job, e1, e2, time).merkle_root
        = RootFromCoinbaseBranch(Sha256d(Splice(job, e1, e2)), CoinbaseBranch(other))
  BY DEF JobHeader, JobOf
<1> HIDE DEF id, job, txids
<1>5. /\ leaves \in Seq(Strings) /\ leaves # <<>> /\ leaves[1] = id
      /\ Len(leaves) = Len(txids) + 1 /\ Len(txids) \in Nat
      /\ \A i \in 2 .. Len(txids) + 1 : leaves[i] = txids[i - 1]
  BY <1>1, <1>3, LeavesFacts
<1>6. /\ other \in Seq(Strings) /\ Len(other) = Len(txids) + 1
      /\ \A i \in 2 .. Len(txids) + 1 : other[i] = txids[i - 1]
  BY <1>1, HashIsString, LeavesFacts
<1> HIDE DEF leaves, other
<1>7. Len(other) = Len(leaves) /\ \A i \in 2 .. Len(leaves) : other[i] = leaves[i]
  BY <1>5, <1>6
<1>8. RootFromCoinbaseBranch(leaves[1], CoinbaseBranch(other)) = MerkleRoot(leaves)
  BY <1>5, <1>6, <1>7, BranchLeadsToRoot
<1> QED
  BY <1>3, <1>4, <1>5, <1>8 DEF id, job, leaves, txids

\* The block a share leads to, if it leads to one.
LEMMA Judgement ==
  ASSUME NEW s \in Shares(DOMAIN jobs), NEW template \in Templates, Builds(template),
         jobs[s.job_id] = Build(template)
  PROVE  LET active == Unsplit(template)
             v == CheckShare(s)
         IN  /\ v.error = "" <=> Len(s.extranonce2) = EXTRANONCE2_SIZE
             /\ v.error = "" =>
                  /\ v.transactions = active.transactions
                  /\ v.coinbase.commitment = active.witness_commitment
                  /\ Txid(v.coinbase) \in Strings
                  /\ v.header.merkle_root = MerkleRoot(<<Txid(v.coinbase)>> \o active.txids)
                  /\ v.header = JobHeader(JobOf(template), s.extranonce1, s.extranonce2, s.time)
<1> DEFINE active == Unsplit(template)
           job == JobOf(template)
           e1 == s.extranonce1
           e2 == s.extranonce2
           coinbase == Coinbase(active, e1 \o e2)
           Fits == CoinbaseFits(active, e1 \o e2)
           Same == Splice(job, e1, e2) = SerializeLegacy(coinbase)
           root == MerkleRoot(<<Txid(coinbase)>> \o active.txids)
           header == [version |-> job.version, prev_block |-> job.prev_hash,
                      merkle_root |-> root, time |-> s.time, bits |-> job.bits]
           v == CheckShare(s)
<1>1. e1 \in Strings /\ e2 \in Strings /\ Len(e1) + EXTRANONCE2_SIZE = Len(SENTINEL)
  BY WorkUnitAssumption DEF Shares, Strings
<1>2. SENTINEL # <<>>
  BY <1>1, WorkUnitAssumption DEF Strings
<1>3. IsSplit(job, active)
  BY <1>2, BuildSplits
<1>4. Len(e2) = EXTRANONCE2_SIZE <=> Fits /\ Same
  BY <1>1, <1>2, <1>3, SizeDecides
<1>5. jobs[s.job_id].job = job /\ jobs[s.job_id].active = active
  BY DEF Build
<1>6. v = CASE ~Fits -> [error |-> "Rebuild"]
            [] Fits /\ ~Same -> [error |-> "CoinbaseMismatch"]
            [] OTHER -> Block(header, coinbase, active.transactions)
  <2> HIDE DEF job, active
  <2> QED
    BY <1>5 DEF CheckShare
<1>7. Same => /\ root = JobHeader(job, e1, e2, s.time).merkle_root
              /\ Txid(coinbase) \in Strings
  <2> HIDE DEF coinbase
  <2> SUFFICES ASSUME Same PROVE /\ root = JobHeader(job, e1, e2, s.time).merkle_root
                                 /\ Txid(coinbase) \in Strings
    OBVIOUS
  <2> QED
    BY <1>1, <1>2, TreeAndBranch
<1>8. coinbase.commitment = active.witness_commitment
  BY DEF Coinbase
<1>9. JobHeader(job, e1, e2, s.time)
        = [version |-> job.version, prev_block |-> job.prev_hash,
           merkle_root |-> JobHeader(job, e1, e2, s.time).merkle_root,
           time |-> s.time, bits |-> job.bits]
  BY DEF JobHeader
<1> HIDE DEF active, job, e1, e2, coinbase, Fits, Same, root, v
<1>10. CASE ~(Fits /\ Same)
  <2>1. v.error # ""
    BY <1>6, <1>10
  <2> QED
    BY <1>4, <1>10, <2>1 DEF v, e2
<1>11. CASE Fits /\ Same
  <2>1. v = Block(header, coinbase, active.transactions)
    BY <1>6, <1>11
  <2>2. /\ v.error = "" /\ v.header = header /\ v.coinbase = coinbase
        /\ v.transactions = active.transactions
    BY <2>1 DEF Block
  <2>3. v.header.merkle_root = root
    <3>1. header.merkle_root = root
      OBVIOUS
    <3> HIDE DEF header
    <3> QED
      BY <2>2, <3>1
  <2>4. v.header = JobHeader(job, e1, e2, s.time)
    BY <1>7, <1>9, <1>11, <2>2
  <2>5. root = MerkleRoot(<<Txid(v.coinbase)>> \o active.txids)
    BY <2>2 DEF root
  <2> QED
    BY <1>4, <1>7, <1>8, <1>11, <2>2, <2>3, <2>4, <2>5 DEF v, e1, e2, job, active
<1> QED
  BY <1>10, <1>11

-----------------------------------------------------------------------------
(* The state machine.                                                      *)

BuiltJobs == {Build(template) : template \in {t \in Templates : Builds(t)}}

JobsOK == jobs \in Seq(BuiltJobs)

\* A share is about a job that was built, and carries the header its miner made
\* of what was notified.
ShareOK ==
  /\ phase \in {"idle", "inFlight", "checked"}
  /\ phase # "idle" =>
       /\ share \in Shares(DOMAIN jobs)
       /\ mined = JobHeader(jobs[share.job_id].job, share.extranonce1, share.extranonce2, share.time)

\* What a share was found to be, it is still, whatever was announced since.
VerdictOK == phase = "checked" => verdict = CheckShare(share)

IInv == JobsOK /\ ShareOK /\ VerdictOK

LEMMA JobFacts ==
  ASSUME JobsOK, NEW id \in DOMAIN jobs
  PROVE  \E template \in Templates : Builds(template) /\ jobs[id] = Build(template)
<1>1. jobs[id] \in BuiltJobs
  BY DEF JobsOK
<1> QED
  BY <1>1 DEF BuiltJobs

LEMMA AnnounceKeeps ==
  ASSUME IInv, Announce
  PROVE  IInv'
<1>1. PICK template \in Templates : Builds(template) /\ jobs' = Append(jobs, Build(template))
  BY DEF Announce
<1>2. UNCHANGED <<phase, share, mined, verdict>>
  BY DEF Announce
<1> DEFINE built == Build(template)
<1>3. built \in BuiltJobs
  BY <1>1 DEF BuiltJobs
<1> HIDE DEF built
<1>4. jobs \in Seq(BuiltJobs) /\ jobs' = Append(jobs, built)
  BY <1>1 DEF IInv, JobsOK, built
<1>5. /\ jobs' \in Seq(BuiltJobs)
      /\ \A id \in DOMAIN jobs : id \in DOMAIN jobs' /\ jobs'[id] = jobs[id]
  BY <1>3, <1>4
<1>6. JobsOK'
  BY <1>5 DEF JobsOK
<1>7. ShareOK'
  <2> SUFFICES ASSUME phase # "idle"
               PROVE  /\ share \in Shares(DOMAIN jobs')
                      /\ mined = JobHeader(jobs'[share.job_id].job, share.extranonce1,
                                           share.extranonce2, share.time)
    BY <1>2 DEF IInv, ShareOK
  <2>1. /\ share \in Shares(DOMAIN jobs)
        /\ mined = JobHeader(jobs[share.job_id].job, share.extranonce1, share.extranonce2, share.time)
    BY DEF IInv, ShareOK
  <2>2. share.job_id \in DOMAIN jobs
    BY <2>1 DEF Shares
  <2>3. Shares(DOMAIN jobs) \subseteq Shares(DOMAIN jobs')
    BY <1>5 DEF Shares
  <2> QED
    BY <1>5, <2>1, <2>2, <2>3
<1>8. VerdictOK'
  <2> SUFFICES ASSUME phase = "checked" PROVE verdict = CheckShare(share)'
    BY <1>2 DEF VerdictOK
  <2>1. share \in Shares(DOMAIN jobs) /\ verdict = CheckShare(share)
    BY DEF IInv, ShareOK, VerdictOK
  <2>2. jobs'[share.job_id] = jobs[share.job_id]
    BY <1>5, <2>1 DEF Shares
  <2>3. CheckShare(share)' = CheckShare(share)
    BY <1>2, <2>2 DEF CheckShare
  <2> QED
    BY <2>1, <2>3
<1> QED
  BY <1>6, <1>7, <1>8 DEF IInv

LEMMA SubmitKeeps ==
  ASSUME IInv, Submit
  PROVE  IInv'
<1>1. phase' = "inFlight" /\ jobs' = jobs
  BY DEF Submit
<1>2. PICK id \in 1 .. Len(jobs), e1 \in Extranonce1s, e2 \in Extranonce2s, time \in Times :
        /\ share' = [job_id |-> id, extranonce1 |-> e1, extranonce2 |-> e2, time |-> time]
        /\ mined' = JobHeader(FromNotifyParams(ToNotifyParams(jobs[id].job)), e1, e2, time)
  BY DEF Submit
<1>3. id \in DOMAIN jobs
  BY DEF IInv, JobsOK
<1>4. FromNotifyParams(ToNotifyParams(jobs[id].job)) = jobs[id].job
  <2>1. PICK template \in Templates : Builds(template) /\ jobs[id] = Build(template)
    BY <1>3, JobFacts DEF IInv
  <2>2. jobs[id].job = JobOf(template)
    BY <2>1 DEF Build
  <2> QED
    BY <2>2, WireRoundTrip
<1>5. share' \in Shares(DOMAIN jobs)
  BY <1>2, <1>3 DEF Shares
<1>6. mined' = JobHeader(jobs[share'.job_id].job, share'.extranonce1, share'.extranonce2, share'.time)
  BY <1>2, <1>4
<1>7. JobsOK'
  BY <1>1 DEF IInv, JobsOK
<1>8. ShareOK'
  BY <1>1, <1>5, <1>6 DEF ShareOK
<1>9. VerdictOK'
  BY <1>1 DEF VerdictOK
<1> QED
  BY <1>7, <1>8, <1>9 DEF IInv

LEMMA CheckKeeps ==
  ASSUME IInv, Check
  PROVE  IInv'
<1>1. /\ phase = "inFlight" /\ phase' = "checked" /\ UNCHANGED <<jobs, share, mined>>
      /\ verdict' = CheckShare(share)
  BY DEF Check
<1>2. JobsOK'
  BY <1>1 DEF IInv, JobsOK
<1>3. ShareOK'
  BY <1>1 DEF IInv, ShareOK
<1>4. CheckShare(share)' = CheckShare(share)
  BY <1>1 DEF CheckShare
<1>5. VerdictOK'
  BY <1>1, <1>4 DEF VerdictOK
<1> QED
  BY <1>2, <1>3, <1>5 DEF IInv

\* The inductive invariant: the jobs are built from templates, a share carries the
\* header its miner made of one of them as it came over the wire, and its verdict
\* does not age while the poller goes on (job_builder.rs, byte_order.rs, validate.rs).
THEOREM InvariantHolds == Spec => []IInv
<1>1. Init => IInv
  BY DEF Init, IInv, JobsOK, ShareOK, VerdictOK
<1>2. IInv /\ [Next]_vars => IInv'
  <2> SUFFICES ASSUME IInv, [Next]_vars PROVE IInv'
    OBVIOUS
  <2>1. CASE Announce
    BY <2>1, AnnounceKeeps
  <2>2. CASE Submit
    BY <2>2, SubmitKeeps
  <2>3. CASE Check
    BY <2>3, CheckKeeps
  <2>4. CASE UNCHANGED vars
    <3>1. UNCHANGED <<jobs, phase, share, mined, verdict>>
      BY <2>4 DEF vars
    <3>2. CheckShare(share)' = CheckShare(share)
      BY <3>1 DEF CheckShare
    <3> QED
      BY <3>1, <3>2 DEF IInv, JobsOK, ShareOK, VerdictOK
  <2> QED
    BY <2>1, <2>2, <2>3, <2>4 DEF Next
<1> QED
  BY <1>1, <1>2, PTL DEF Spec

\* The facts of a verdict, in a state of the invariant.
LEMMA Checked ==
  ASSUME IInv, phase = "checked"
  PROVE  \E template \in Templates :
           LET active == Unsplit(template)
           IN  /\ Builds(template)
               /\ verdict.error = "" <=> Len(share.extranonce2) = EXTRANONCE2_SIZE
               /\ verdict.error = "" =>
                    /\ verdict.transactions = active.transactions
                    /\ verdict.coinbase.commitment = active.witness_commitment
                    /\ Txid(verdict.coinbase) \in Strings
                    /\ verdict.header.merkle_root
                         = MerkleRoot(<<Txid(verdict.coinbase)>> \o active.txids)
                    /\ verdict.header = mined
<1>1. /\ share \in Shares(DOMAIN jobs) /\ verdict = CheckShare(share)
      /\ mined = JobHeader(jobs[share.job_id].job, share.extranonce1, share.extranonce2, share.time)
  BY DEF IInv, ShareOK, VerdictOK
<1>2. share.job_id \in DOMAIN jobs
  BY <1>1 DEF Shares
<1>3. PICK template \in Templates : Builds(template) /\ jobs[share.job_id] = Build(template)
  BY <1>2, JobFacts DEF IInv
<1>4. jobs[share.job_id].job = JobOf(template)
  BY <1>3 DEF Build
<1> QED
  BY <1>1, <1>3, <1>4, Judgement

\* HeaderAgrees: the header the pool rebuilds, over its own tree, is the one the
\* miner hashed, over the branch it was given (validate.rs:3-5, merkle.rs:15-106).
THEOREM HeaderAgreesCorrect == Spec => []HeaderAgrees
<1>1. IInv => HeaderAgrees
  <2> SUFFICES ASSUME IInv, Hashed PROVE verdict.header = mined
    BY DEF HeaderAgrees
  <2> QED
    BY Checked DEF Hashed
<1> QED
  BY <1>1, InvariantHolds, PTL

\* AnnouncedSizeDecides: the coinbase that was split around the sentinel fits every
\* extranonce of the announced size, and no other (job_builder.rs:8-16,
\* validate.rs:90-96).
THEOREM AnnouncedSizeDecidesCorrect == Spec => []AnnouncedSizeDecides
<1>1. IInv => AnnouncedSizeDecides
  <2> SUFFICES ASSUME IInv, phase = "checked"
               PROVE  Hashed <=> Len(share.extranonce2) = EXTRANONCE2_SIZE
    BY DEF AnnouncedSizeDecides
  <2> QED
    BY Checked DEF Hashed
<1> QED
  BY <1>1, InvariantHolds, PTL

\* BlockIsWhole: a block that is submitted commits to its transactions by both of
\* its trees, as consensus defines them (block.rs:56-65, witness.rs:12-30).
THEOREM BlockIsWholeCorrect == Spec => []BlockIsWhole
<1>1. IInv => BlockIsWhole
  <2> SUFFICES ASSUME IInv, Hashed
               PROVE  LET txids == Mapped(TxidOf, verdict.transactions)
                          wtxids == Mapped(WtxidOf, verdict.transactions)
                      IN  /\ verdict.header.merkle_root
                               = ReferenceRoot(<<Txid(verdict.coinbase)>> \o txids)
                          /\ verdict.coinbase.commitment =
                               <<106, 36, 170>> \o Sha256d(ReferenceRoot(<<ZERO>> \o wtxids) \o <<0>>)
    BY DEF BlockIsWhole
  <2>1. phase = "checked" /\ verdict.error = ""
    BY DEF Hashed
  <2>2. PICK template \in Templates :
          LET active == Unsplit(template)
          IN  /\ verdict.transactions = active.transactions
              /\ verdict.coinbase.commitment = active.witness_commitment
              /\ Txid(verdict.coinbase) \in Strings
              /\ verdict.header.merkle_root
                   = MerkleRoot(<<Txid(verdict.coinbase)>> \o active.txids)
    BY <2>1, Checked
  <2> DEFINE active == Unsplit(template)
             txids == Mapped(TxidOf, verdict.transactions)
             wtxids == Mapped(WtxidOf, verdict.transactions)
             id == Txid(verdict.coinbase)
  <2>3. /\ active.transactions \in Strings /\ active.txids = Mapped(TxidOf, active.transactions)
        /\ active.witness_commitment = CommitmentScript(Mapped(WtxidOf, active.transactions))
    BY UnsplitFacts
  <2> HIDE DEF active
  <2>4. /\ verdict.transactions = active.transactions
        /\ verdict.coinbase.commitment = active.witness_commitment
        /\ id \in Strings /\ verdict.header.merkle_root = MerkleRoot(<<id>> \o active.txids)
    BY <2>2 DEF active
  <2>5. txids \in Seq(Strings) /\ wtxids \in Seq(Strings)
    BY <2>3, <2>4, MappedFacts
  <2>6. active.txids = txids /\ active.witness_commitment = CommitmentScript(wtxids)
    BY <2>3, <2>4
  <2> HIDE DEF txids, wtxids, id
  <2>7. <<id>> \o txids \in Seq(Strings) /\ <<id>> \o txids # <<>>
    BY <2>4, <2>5, LeavesFacts
  <2>8. ZERO \in Strings
    BY HashIsString
  <2>9. <<ZERO>> \o wtxids \in Seq(Strings) /\ <<ZERO>> \o wtxids # <<>>
    BY <2>5, <2>8, LeavesFacts
  <2>10. MerkleRoot(<<id>> \o txids) = ReferenceRoot(<<id>> \o txids)
    BY <2>7, RootIsConsensus
  <2>11. MerkleRoot(<<ZERO>> \o wtxids) = ReferenceRoot(<<ZERO>> \o wtxids)
    BY <2>9, RootIsConsensus
  <2>12. verdict.header.merkle_root = ReferenceRoot(<<id>> \o txids)
    BY <2>4, <2>6, <2>10
  <2>13. verdict.coinbase.commitment
           = <<106, 36, 170>> \o Sha256d(ReferenceRoot(<<ZERO>> \o wtxids) \o <<0>>)
    BY <2>4, <2>6, <2>11 DEF CommitmentScript, WitnessMerkleRoot
  <2> QED
    BY <2>12, <2>13 DEF id, txids, wtxids
<1> QED
  BY <1>1, InvariantHolds, PTL

-----------------------------------------------------------------------------
(* The order of hashes and targets.                                        *)

\* Big-endian numbers are compared at the first place where they differ.
Lower(a, b) ==
  \E d \in 1 .. Size : a[d] < b[d] /\ \A j \in 1 .. d - 1 : a[j] = b[j]

LEMMA FirstDifferenceFacts ==
  ASSUME Size \in Nat, NEW a \in [1 .. Size -> Int], NEW b \in [1 .. Size -> Int]
  PROVE  LET d == Nonce!FirstDifference(a, b)
         IN  \/ d = 0 /\ a = b
             \/ d \in 1 .. Size /\ a[d] # b[d] /\ \A j \in 1 .. d - 1 : a[j] = b[j]
<1> DEFINE differs == [i \in 1 .. Size |-> a[i] # b[i]]
           I == {i \in 1 .. Size : a[i] # b[i]}
           d == Nonce!FirstDifference(a, b)
<1>1. d = IF I # {} THEN Nonce!Min(I) ELSE 0
  <2>1. Len(differs) = Size
    OBVIOUS
  <2>2. d = IF {i \in 1 .. Len(differs) : differs[i]} # {}
            THEN Nonce!Min({i \in 1 .. Len(differs) : differs[i]}) ELSE 0
    BY DEF Nonce!FirstDifference, Nonce!SelectInSeq
  <2>3. {i \in 1 .. Len(differs) : differs[i]} = I
    BY <2>1
  <2> QED
    BY <2>2, <2>3
<1> HIDE DEF d
<1>2. CASE I = {}
  <2>1. \A i \in 1 .. Size : a[i] = b[i]
    BY <1>2
  <2> QED
    BY <1>1, <1>2, <2>1 DEF d
<1>3. CASE I # {}
  <2> HIDE DEF I
  <2>1. d = CHOOSE x \in I : \A y \in I : x <= y
    BY <1>1, <1>3 DEF Nonce!Min
  <2>2. I \in SUBSET Nat
    BY DEF I
  <2>3. \E x \in I : \A y \in I : x <= y
    BY <1>3, <2>2, Least
  <2>4. d \in I /\ \A y \in I : d <= y
    BY <2>1, <2>3
  <2>5. \A j \in 1 .. d - 1 : j \in 1 .. Size /\ ~(d <= j)
    BY <2>4 DEF I
  <2>6. \A j \in 1 .. d - 1 : a[j] = b[j]
    BY <2>4, <2>5 DEF I
  <2> QED
    BY <2>4, <2>6 DEF I, d
<1> QED
  BY <1>2, <1>3

LEMMA LowerIs ==
  ASSUME Size \in Nat, NEW a \in [1 .. Size -> Int], NEW b \in [1 .. Size -> Int]
  PROVE  LET d == Nonce!FirstDifference(a, b)
         IN  /\ d # 0 /\ a[d] < b[d] <=> Lower(a, b)
             /\ d = 0 \/ a[d] < b[d] <=> ~Lower(b, a)
<1> DEFINE d == Nonce!FirstDifference(a, b)
<1>1. \/ d = 0 /\ a = b
      \/ d \in 1 .. Size /\ a[d] # b[d] /\ \A j \in 1 .. d - 1 : a[j] = b[j]
  BY FirstDifferenceFacts
<1> HIDE DEF d
<1>2. CASE d = 0 /\ a = b
  BY <1>2 DEF Lower, d
<1>3. CASE d \in 1 .. Size /\ a[d] # b[d] /\ \A j \in 1 .. d - 1 : a[j] = b[j]
  <2>1. a[d] \in Int /\ b[d] \in Int /\ d # 0
    BY <1>3
  <2>2. ASSUME NEW x \in [1 .. Size -> Int], NEW y \in [1 .. Size -> Int],
               x[d] # y[d], \A j \in 1 .. d - 1 : x[j] = y[j]
        PROVE  Lower(x, y) <=> x[d] < y[d]
    <3>1. ASSUME NEW e \in 1 .. Size, x[e] < y[e], \A j \in 1 .. e - 1 : x[j] = y[j]
          PROVE  e = d
      <4>1. x[e] # y[e]
        BY <3>1
      <4>2. ~(e \in 1 .. d - 1)
        BY <2>2, <4>1
      <4>3. ~(d \in 1 .. e - 1)
        BY <2>2, <3>1
      <4> QED
        BY <1>3, <4>2, <4>3
    <3> QED
      BY <1>3, <2>2, <3>1 DEF Lower
  <2>3. Lower(a, b) <=> a[d] < b[d]
    BY <1>3, <2>2
  <2>4. Lower(b, a) <=> b[d] < a[d]
    BY <1>3, <2>2
  <2> QED
    BY <1>3, <2>1, <2>3, <2>4 DEF d
<1> QED
  BY <1>1, <1>2, <1>3

LEMMA LowerIsTransitive ==
  ASSUME Size \in Nat, NEW a \in [1 .. Size -> Int], NEW b \in [1 .. Size -> Int],
         NEW c \in [1 .. Size -> Int], Lower(a, b), Lower(b, c)
  PROVE  Lower(a, c)
<1>1. PICK d \in 1 .. Size : a[d] < b[d] /\ \A j \in 1 .. d - 1 : a[j] = b[j]
  BY DEF Lower
<1>2. PICK e \in 1 .. Size : b[e] < c[e] /\ \A j \in 1 .. e - 1 : b[j] = c[j]
  BY DEF Lower
<1>3. /\ a[d] \in Int /\ b[d] \in Int /\ c[d] \in Int
      /\ a[e] \in Int /\ b[e] \in Int /\ c[e] \in Int
  OBVIOUS
<1>4. CASE d < e
  <2>1. d \in 1 .. e - 1 /\ \A j \in 1 .. d - 1 : j \in 1 .. e - 1
    BY <1>4
  <2>2. a[d] < c[d] /\ \A j \in 1 .. d - 1 : a[j] = c[j]
    BY <1>1, <1>2, <2>1
  <2> QED
    BY <2>2 DEF Lower
<1>5. CASE d = e
  <2>1. a[d] < c[d] /\ \A j \in 1 .. d - 1 : a[j] = c[j]
    BY <1>1, <1>2, <1>3, <1>5
  <2> QED
    BY <2>1 DEF Lower
<1>6. CASE e < d
  <2>1. e \in 1 .. d - 1 /\ \A j \in 1 .. e - 1 : j \in 1 .. d - 1
    BY <1>6
  <2>2. a[e] < c[e] /\ \A j \in 1 .. e - 1 : a[j] = c[j]
    BY <1>1, <1>2, <2>1
  <2> QED
    BY <2>2 DEF Lower
<1> QED
  BY <1>4, <1>5, <1>6

LEMMA LowerIsStrict ==
  ASSUME NEW a \in [1 .. Size -> Int]
  PROVE  ~Lower(a, a)
BY DEF Lower

LEMMA LowerIsTotal ==
  ASSUME Size \in Nat, NEW a \in [1 .. Size -> Int], NEW b \in [1 .. Size -> Int]
  PROVE  a = b \/ Lower(a, b) \/ Lower(b, a)
<1> DEFINE d == Nonce!FirstDifference(a, b)
<1>1. CASE a = b
  BY <1>1
<1>2. CASE a # b
  <2>1. d \in 1 .. Size /\ a[d] # b[d]
    BY <1>2, FirstDifferenceFacts
  <2>2. d # 0 /\ a[d] < b[d] <=> Lower(a, b)
    BY LowerIs
  <2>3. d = 0 \/ a[d] < b[d] <=> ~Lower(b, a)
    BY LowerIs
  <2> HIDE DEF d
  <2> QED
    BY <2>1, <2>2, <2>3
<1> QED
  BY <1>1, <1>2

-----------------------------------------------------------------------------
(* The search of one range.                                                *)

BigEndian(h) == Nonce!Reverse(h)

LEMMA ComparisonFacts ==
  ASSUME Size \in Nat, NEW h \in Nonce!Hashes, NEW o \in Nonce!Hashes, NEW target \in Nonce!Hashes
  PROVE  /\ BigEndian(h) \in [1 .. Size -> Int]
         /\ Nonce!IsMetBy(target, h) <=> ~Lower(target, BigEndian(h))
         /\ Nonce!IsBelow(h, o) <=> Lower(BigEndian(h), BigEndian(o))
<1>1. ASSUME NEW x \in Nonce!Hashes PROVE BigEndian(x) \in [1 .. Size -> Int]
  <2>1. x \in [1 .. Size -> Int] /\ Len(x) = Size
    BY DEF Nonce!Hashes
  <2>2. \A i \in 1 .. Size : Size - i + 1 \in 1 .. Size
    OBVIOUS
  <2> QED
    BY <2>1, <2>2 DEF BigEndian, Nonce!Reverse
<1>2. target \in [1 .. Size -> Int]
  BY DEF Nonce!Hashes
<1>3. Nonce!IsMetBy(target, h) <=> ~Lower(target, BigEndian(h))
  <2> DEFINE b == BigEndian(h)
             d == Nonce!FirstDifference(b, target)
  <2>1. b \in [1 .. Size -> Int]
    BY <1>1
  <2>2. Nonce!IsMetBy(target, h) <=> d = 0 \/ b[d] < target[d]
    BY DEF Nonce!IsMetBy, BigEndian
  <2> HIDE DEF b
  <2>3. d = 0 \/ b[d] < target[d] <=> ~Lower(target, b)
    BY <1>2, <2>1, LowerIs
  <2> HIDE DEF d
  <2> QED
    BY <2>2, <2>3 DEF b
<1>4. Nonce!IsBelow(h, o) <=> Lower(BigEndian(h), BigEndian(o))
  <2> DEFINE b == BigEndian(h)
             c == BigEndian(o)
             d == Nonce!FirstDifference(b, c)
  <2>1. b \in [1 .. Size -> Int] /\ c \in [1 .. Size -> Int]
    BY <1>1
  <2>2. Nonce!IsBelow(h, o) <=> d # 0 /\ b[d] < c[d]
    BY DEF Nonce!IsBelow, BigEndian
  <2> HIDE DEF b, c
  <2>3. d # 0 /\ b[d] < c[d] <=> Lower(b, c)
    BY <2>1, LowerIs
  <2> HIDE DEF d
  <2> QED
    BY <2>2, <2>3 DEF b, c
<1> QED
  BY <1>1, <1>3, <1>4

\* IsBelow is a strict order of which "not met" is a part.
LEMMA BelowFacts ==
  ASSUME Size \in Nat, NEW target \in Nonce!Hashes
  PROVE  /\ \A h \in Nonce!Hashes : ~Nonce!IsBelow(h, h)
         /\ \A h, o, p \in Nonce!Hashes :
              Nonce!IsBelow(h, o) /\ Nonce!IsBelow(o, p) => Nonce!IsBelow(h, p)
         /\ \A h, o \in Nonce!Hashes :
              ~Nonce!IsMetBy(target, h) /\ Nonce!IsMetBy(target, o) => ~Nonce!IsBelow(h, o)
<1> DEFINE T == [1 .. Size -> Int]
<1>1. ASSUME NEW h \in Nonce!Hashes PROVE ~Nonce!IsBelow(h, h)
  <2>1. BigEndian(h) \in T /\ (Nonce!IsBelow(h, h) <=> Lower(BigEndian(h), BigEndian(h)))
    BY ComparisonFacts
  <2> QED
    BY <2>1, LowerIsStrict
<1>2. ASSUME NEW h \in Nonce!Hashes, NEW o \in Nonce!Hashes, NEW p \in Nonce!Hashes,
             Nonce!IsBelow(h, o), Nonce!IsBelow(o, p)
      PROVE  Nonce!IsBelow(h, p)
  <2>1. BigEndian(h) \in T /\ BigEndian(o) \in T /\ BigEndian(p) \in T
    BY ComparisonFacts
  <2>2. Lower(BigEndian(h), BigEndian(o)) /\ Lower(BigEndian(o), BigEndian(p))
    BY <1>2, ComparisonFacts
  <2>3. Lower(BigEndian(h), BigEndian(p))
    BY <2>1, <2>2, LowerIsTransitive
  <2> QED
    BY <2>3, ComparisonFacts
<1>3. ASSUME NEW h \in Nonce!Hashes, NEW o \in Nonce!Hashes,
             ~Nonce!IsMetBy(target, h), Nonce!IsMetBy(target, o), Nonce!IsBelow(h, o)
      PROVE  FALSE
  <2>0. target \in T
    BY DEF Nonce!Hashes
  <2>1. BigEndian(h) \in T /\ BigEndian(o) \in T
    BY ComparisonFacts
  <2>2. Lower(target, BigEndian(h)) /\ ~Lower(target, BigEndian(o)) /\ Lower(BigEndian(h), BigEndian(o))
    BY <1>3, ComparisonFacts
  <2> QED
    BY <2>0, <2>1, <2>2, LowerIsTransitive
<1> QED
  BY <1>1, <1>2, <1>3

LEMMA LowestExists ==
  ASSUME Size \in Nat, NEW hash \in [Nonce!Nonces -> Nonce!Hashes],
         NEW B \in SUBSET Nonce!Nonces, B # {}, NONCES \in Nat
  PROVE  \E n \in B : \A o \in B : ~Nonce!IsBelow(hash[o], hash[n])
<1> DEFINE Below(o, n) == Nonce!IsBelow(hash[o], hash[n])
           Has(C) == \E n \in C : \A o \in C : ~Below(o, n)
           S == {k \in Nat : \A C \in SUBSET Nonce!Nonces : C # {} /\ C \subseteq 0 .. k => Has(C)}
<1>1. /\ \A n \in Nonce!Nonces : ~Below(n, n)
      /\ \A n, o, p \in Nonce!Nonces : Below(n, o) /\ Below(o, p) => Below(n, p)
  <2>1. \A n \in Nonce!Nonces : hash[n] \in Nonce!Hashes
    OBVIOUS
  <2>2. Nonce!Hashes # {} => \E t \in Nonce!Hashes : TRUE
    OBVIOUS
  <2>3. CASE Nonce!Nonces = {}
    BY <2>3
  <2>4. CASE Nonce!Nonces # {}
    <3>1. PICK t \in Nonce!Hashes : TRUE
      BY <2>1, <2>4
    <3> QED
      BY <2>1, <3>1, BelowFacts
  <2> QED
    BY <2>3, <2>4
<1> HIDE DEF Below
<1>2. 0 \in S
  <2> SUFFICES ASSUME NEW C \in SUBSET Nonce!Nonces, C # {}, C \subseteq 0 .. 0 PROVE Has(C)
    OBVIOUS
  <2>0. \A n \in 0 .. 0 : n = 0
    OBVIOUS
  <2>1. C = {0}
    BY <2>0
  <2> QED
    BY <1>1, <2>1
<1>3. ASSUME NEW k \in Nat, k \in S PROVE k + 1 \in S
  <2> SUFFICES ASSUME NEW C \in SUBSET Nonce!Nonces, C # {}, C \subseteq 0 .. k + 1 PROVE Has(C)
    OBVIOUS
  <2> DEFINE D == C \ {k + 1}
  <2>1. D \in SUBSET Nonce!Nonces /\ D \subseteq 0 .. k
    OBVIOUS
  <2>2. CASE D = {}
    <3>1. C = {k + 1} /\ k + 1 \in Nonce!Nonces
      BY <2>2
    <3> QED
      BY <1>1, <3>1
  <2>3. CASE D # {}
    <3>1. Has(D)
      BY <1>3, <2>1, <2>3
    <3>2. PICK n \in D : \A o \in D : ~Below(o, n)
      BY <3>1
    <3>3. CASE k + 1 \in C /\ Below(k + 1, n)
      <4>1. \A o \in C : ~Below(o, k + 1)
        BY <1>1, <2>1, <3>2, <3>3
      <4> QED
        BY <3>3, <4>1
    <3>4. CASE ~(k + 1 \in C /\ Below(k + 1, n))
      <4>1. \A o \in C : ~Below(o, n)
        BY <3>2, <3>4
      <4> QED
        BY <3>2, <4>1
    <3> QED
      BY <3>3, <3>4
  <2> QED
    BY <2>2, <2>3
<1> HIDE DEF S
<1>4. \A k \in Nat : k \in S
  BY <1>2, <1>3, Induction
<1>5. NONCES \in S /\ B \subseteq 0 .. NONCES
  BY <1>4 DEF Nonce!Nonces
<1>6. Has(B)
  BY <1>5 DEF S
<1> QED
  BY <1>6 DEF Below

LEMMA CardinalityOfRange ==
  ASSUME NEW first \in Int, NEW last \in Int, first <= last
  PROVE  Nonce!Cardinality(first .. last) = last - first + 1
<1>1. \A S : Nonce!Cardinality(S) = Cardinality(S)
  BY DEF Nonce!Cardinality, Cardinality
<1> QED
  BY <1>1, FS_Interval

Solving(hash, target) == {nonce \in Nonce!Nonces : Nonce!IsMetBy(target, hash[nonce])}

\* What a search of one range has done when it ends.
Searched(result, hash, target, first, last) ==
  LET solving == Solving(hash, target) \cap first .. last
      tried == {nonce \in first .. last : \A s \in solving : nonce <= s}
  IN  /\ solving = {} => result.solution = {} /\ result.hashes = last - first + 1
      /\ solving # {} => \E s \in solving : /\ \A m \in solving : s <= m
                                            /\ result.solution = {s}
                                            /\ result.hashes = s - first + 1
      /\ \A n \in tried : ~Nonce!IsBelow(hash[n], result.best)
      /\ result.best = Nonce!Highest \/ \E n \in tried : hash[n] = result.best

LEMMA SearchFacts ==
  ASSUME Size \in Nat, NONCES \in Nat, Byte \in Nat \ {0},
         NEW hash \in [Nonce!Nonces -> Nonce!Hashes], NEW target \in Nonce!Hashes,
         NEW first \in Nonce!Nonces, NEW last \in Nonce!Nonces, first <= last
  PROVE  Searched(Nonce!Search(hash, target, first, last), hash, target, first, last)
<1> DEFINE solving == Solving(hash, target) \cap first .. last
           tried == {nonce \in first .. last : \A s \in solving : nonce <= s}
           better == {nonce \in tried : Nonce!IsBelow(hash[nonce], Nonce!Highest)}
           Lowest(nonces, n) == n \in nonces /\ \A o \in nonces : ~Nonce!IsBelow(hash[o], hash[n])
           Best(nonces) == CHOOSE n \in nonces : \A o \in nonces : ~Nonce!IsBelow(hash[o], hash[n])
           result == Nonce!Search(hash, target, first, last)
<1>0. /\ first \in Int /\ last \in Int /\ 0 <= first /\ last <= NONCES - 1
      /\ first .. last \subseteq Nonce!Nonces
  BY DEF Nonce!Nonces
<1>1. solving = {nonce \in first .. last : Nonce!IsMetBy(target, hash[nonce])}
  BY <1>0 DEF Solving
<1>2. result = [solution |-> tried \cap solving, hashes |-> Nonce!Cardinality(tried),
                best |-> IF tried \cap solving # {} THEN hash[Best(tried \cap solving)]
                         ELSE IF better # {} THEN hash[Best(better)] ELSE Nonce!Highest]
  <2> HIDE DEF solving
  <2> QED
    BY <1>1 DEF Nonce!Search
<1> HIDE DEF result, better
<1>3. \A n \in first .. last : n \in Nonce!Nonces /\ hash[n] \in Nonce!Hashes
  BY <1>0
<1>4. Nonce!Highest \in Nonce!Hashes
  BY DEF Nonce!Highest, Nonce!Hashes
<1>5. CASE solving # {}
  <2>1. solving \in SUBSET Nat
    BY <1>0
  <2>2. PICK s \in solving : \A m \in solving : s <= m
    BY <1>5, <2>1, Least
  <2>3. s \in first .. last /\ Nonce!IsMetBy(target, hash[s])
    BY <1>1
  <2>4. \A n \in first .. last : n < s => ~Nonce!IsMetBy(target, hash[n])
    <3> SUFFICES ASSUME NEW n \in first .. last, n < s, Nonce!IsMetBy(target, hash[n]) PROVE FALSE
      OBVIOUS
    <3>1. n \in solving
      BY <1>1
    <3> QED
      BY <1>0, <2>2, <2>3, <3>1
  <2> HIDE DEF solving
  <2>5. tried = first .. s
    <3>1. \A n \in first .. last : n <= s => \A m \in solving : n <= m
      <4> SUFFICES ASSUME NEW n \in first .. last, n <= s, NEW m \in solving PROVE n <= m
        OBVIOUS
      <4> QED
        BY <1>0, <2>1, <2>2, <2>3
    <3> QED
      BY <1>0, <2>2, <2>3, <3>1
  <2>6. tried \cap solving = {s}
    <3>1. \A n \in first .. s : n \in solving => n = s
      BY <1>0, <2>1, <2>2, <2>3
    <3>2. s \in first .. s
      BY <1>0, <2>3
    <3> QED
      BY <2>2, <2>5, <3>1, <3>2
  <2>7. Nonce!Cardinality(tried) = s - first + 1
    <3>1. s \in Int /\ first \in Int /\ first <= s
      BY <1>0, <2>3
    <3> HIDE DEF tried
    <3> QED
      BY <2>5, <3>1, CardinalityOfRange
  <2>8. Best({s}) = s
    <3>1. ~Nonce!IsBelow(hash[s], hash[s])
      BY <1>3, <2>3, BelowFacts
    <3> QED
      BY <3>1
  <2> HIDE DEF tried
  <2>9. result.solution = {s} /\ result.hashes = s - first + 1 /\ result.best = hash[s]
    BY <1>2, <2>6, <2>7, <2>8
  <2>10. \A n \in tried : ~Nonce!IsBelow(hash[n], hash[s])
    <3> SUFFICES ASSUME NEW n \in first .. last, n <= s PROVE ~Nonce!IsBelow(hash[n], hash[s])
      BY <1>0, <2>3, <2>5
    <3>1. CASE n = s
      BY <1>3, <2>3, <3>1, BelowFacts
    <3>2. CASE n < s
      BY <1>3, <2>3, <2>4, <3>2, BelowFacts
    <3> QED
      BY <1>0, <2>3, <3>1, <3>2
  <2>11. s \in tried
    BY <2>6
  <2> QED
    BY <1>5, <2>2, <2>9, <2>10, <2>11 DEF Searched, result, solving, tried
<1>6. CASE solving = {}
  <2>1. tried = first .. last /\ tried \cap solving = {}
    BY <1>6
  <2>2. Nonce!Cardinality(tried) = last - first + 1
    BY <1>0, <2>1, CardinalityOfRange
  <2> HIDE DEF tried, solving, Best
  <2>3. /\ result.solution = {} /\ result.hashes = last - first + 1
        /\ result.best = IF better # {} THEN hash[Best(better)] ELSE Nonce!Highest
    BY <1>2, <2>1, <2>2
  <2>4. CASE better = {}
    <3>1. \A n \in tried : ~Nonce!IsBelow(hash[n], Nonce!Highest)
      BY <2>4 DEF better
    <3>2. result.best = Nonce!Highest
      BY <2>3, <2>4
    <3> QED
      BY <1>6, <2>3, <3>1, <3>2 DEF Searched, result, solving, tried
  <2>5. CASE better # {}
    <3>1. better \in SUBSET Nonce!Nonces
      BY <1>0, <2>1 DEF better
    <3>2. \E n \in better : \A o \in better : ~Nonce!IsBelow(hash[o], hash[n])
      BY <2>5, <3>1, LowestExists
    <3> DEFINE b == Best(better)
    <3>3. b \in better /\ \A o \in better : ~Nonce!IsBelow(hash[o], hash[b])
      BY <3>2 DEF Best
    <3>4. result.best = hash[b]
      BY <2>3, <2>5
    <3> HIDE DEF b
    <3>5. b \in tried /\ Nonce!IsBelow(hash[b], Nonce!Highest)
      BY <3>3 DEF better
    <3>6. \A n \in tried : ~Nonce!IsBelow(hash[n], hash[b])
      <4> SUFFICES ASSUME NEW n \in tried, Nonce!IsBelow(hash[n], hash[b]) PROVE FALSE
        OBVIOUS
      <4>1. Nonce!IsBelow(hash[n], Nonce!Highest)
        BY <1>3, <1>4, <2>1, <3>5, BelowFacts
      <4>2. n \in better
        BY <4>1 DEF better
      <4> QED
        BY <3>3, <4>2
    <3> QED
      BY <1>6, <2>3, <3>4, <3>5, <3>6 DEF Searched, result, solving, tried
  <2> QED
    BY <2>4, <2>5
<1> QED
  BY <1>5, <1>6

-----------------------------------------------------------------------------
(* The sweep. Its batches are numbered from 1.                             *)

First(k) == (k - 1) * BATCH

Until(k) == Nonce!BatchEnd(First(k))

BatchOf(hash, target, k) == Nonce!Search(hash, target, First(k), Until(k))

EndsSweep(hash, target, k) == BatchOf(hash, target, k).solution # {} \/ Until(k) = NONCES - 1

Swept(hash, target, last) ==
  /\ last \in 1 .. NONCES
  /\ EndsSweep(hash, target, last)
  /\ \A k \in 1 .. last - 1 : ~EndsSweep(hash, target, k)

LEMMA FirstFacts ==
  ASSUME BATCH \in Nat \ {0}
  PROVE  /\ First(1) = 0
         /\ \A k \in Nat \ {0} : /\ First(k) \in Nat
                                 /\ First(k + 1) = First(k) + BATCH
                                 /\ First(k) >= k - 1
<1>1. ASSUME NEW k \in Nat \ {0}
      PROVE  First(k) \in Nat /\ First(k + 1) = First(k) + BATCH /\ First(k) >= k - 1
  <2>1. PICK m \in Nat : m = k - 1
    OBVIOUS
  <2>2. PICK b \in Nat : b = BATCH - 1
    OBVIOUS
  <2>3. m * b \in Nat /\ m * b + m = m * (b + 1)
    OBVIOUS
  <2>4. First(k) = m * b + m
    BY <2>1, <2>2, <2>3 DEF First
  <2>5. First(k + 1) = (m + 1) * BATCH /\ (m + 1) * BATCH = m * BATCH + BATCH
    BY <2>1 DEF First
  <2>6. First(k) = m * BATCH
    BY <2>1 DEF First
  <2>7. First(k) \in Nat /\ First(k) >= m
    BY <2>3, <2>4
  <2> QED
    BY <2>1, <2>5, <2>6, <2>7
<1> QED
  BY <1>1 DEF First

LEMMA SweepEnds ==
  ASSUME BATCH \in Nat \ {0}, NONCES \in Nat \ {0}, NEW hash, NEW target
  PROVE  \E last : /\ Swept(hash, target, last)
                   /\ Nonce!Sweep(hash, target) = [k \in 1 .. last |-> BatchOf(hash, target, k)]
<1> DEFINE Ends(k) == EndsSweep(hash, target, k)
           last == CHOOSE k \in 1 .. NONCES : Ends(k) /\ \A j \in 1 .. k - 1 : ~Ends(j)
           E == {k \in 1 .. NONCES : Ends(k)}
<1>1. Until(NONCES) = NONCES - 1
  <2>1. First(NONCES) \in Nat /\ First(NONCES) >= NONCES - 1
    BY FirstFacts
  <2> QED
    BY <2>1 DEF Until, Nonce!BatchEnd
<1>2. Ends(NONCES)
  BY <1>1 DEF EndsSweep
<1>3. Nonce!Sweep(hash, target) = [k \in 1 .. last |-> BatchOf(hash, target, k)]
  BY DEF Nonce!Sweep, BatchOf, EndsSweep, First, Until
<1> HIDE DEF Ends
<1>4. E \in SUBSET Nat /\ E # {}
  BY <1>2
<1>5. PICK e \in E : \A m \in E : e <= m
  BY <1>4, Least
<1>6. \A j \in 1 .. e - 1 : ~Ends(j)
  <2>1. \A j \in 1 .. e - 1 : j \in 1 .. NONCES /\ ~(e <= j)
    BY <1>4
  <2> QED
    BY <1>5, <2>1
<1>7. last \in 1 .. NONCES /\ Ends(last) /\ \A j \in 1 .. last - 1 : ~Ends(j)
  BY <1>5, <1>6
<1> HIDE DEF last
<1> QED
  BY <1>3, <1>7 DEF Swept, Ends

\* What is known of the constants and of the hashes of a header.
Sweeping(hash, target) ==
  /\ Size \in Nat /\ NONCES \in Nat \ {0} /\ Byte \in Nat \ {0} /\ BATCH \in Nat \ {0}
  /\ hash \in [Nonce!Nonces -> Nonce!Hashes]
  /\ target \in Nonce!Hashes

\* One batch begins where the one before it ended.
LEMMA BatchPlaces ==
  ASSUME NEW hash, NEW target, Sweeping(hash, target), NEW last, Swept(hash, target, last),
         NEW k \in 1 .. last
  PROVE  /\ First(k) \in Nat /\ Until(k) \in Nat /\ First(k) <= Until(k) /\ Until(k) <= NONCES - 1
         /\ k < last => First(k + 1) = Until(k) + 1
<1>0. BATCH \in Nat \ {0} /\ NONCES \in Nat \ {0} /\ last \in 1 .. NONCES /\ k \in Nat \ {0}
  BY DEF Sweeping, Swept
<1>1. /\ First(1) = 0
      /\ \A m \in Nat \ {0} : First(m) \in Nat /\ First(m + 1) = First(m) + BATCH
  BY <1>0, FirstFacts
<1>2. ASSUME NEW m \in Nat \ {0}, m < last
      PROVE  First(m + 1) = Until(m) + 1 /\ First(m + 1) <= NONCES - 1
  <2>1. m \in 1 .. last - 1
    BY <1>0, <1>2
  <2>2. Until(m) # NONCES - 1
    BY <2>1 DEF Swept, EndsSweep
  <2>3. First(m) \in Nat /\ First(m + 1) = First(m) + BATCH
    BY <1>1
  <2>4. Until(m) = IF First(m) + BATCH - 1 < NONCES THEN First(m) + BATCH - 1 ELSE NONCES - 1
    BY DEF Until, Nonce!BatchEnd
  <2> QED
    BY <1>0, <2>2, <2>3, <2>4
<1>3. First(k) <= NONCES - 1
  <2>1. CASE k = 1
    BY <1>0, <1>1, <2>1
  <2>2. CASE k # 1
    <3>1. k - 1 \in Nat \ {0} /\ k - 1 < last /\ (k - 1) + 1 = k
      BY <1>0, <2>2
    <3> QED
      BY <1>2, <3>1
  <2> QED
    BY <2>1, <2>2
<1>4. First(k) \in Nat
  BY <1>0, <1>1
<1>5. Until(k) \in Nat /\ First(k) <= Until(k) /\ Until(k) <= NONCES - 1
  BY <1>0, <1>3, <1>4 DEF Until, Nonce!BatchEnd
<1> QED
  BY <1>0, <1>2, <1>4, <1>5

LEMMA BatchFacts ==
  ASSUME NEW hash, NEW target, Sweeping(hash, target), NEW last, Swept(hash, target, last),
         NEW k \in 1 .. last
  PROVE  /\ Searched(BatchOf(hash, target, k), hash, target, First(k), Until(k))
         /\ k < last => BatchOf(hash, target, k).solution = {}
<1>1. First(k) \in Nonce!Nonces /\ Until(k) \in Nonce!Nonces /\ First(k) <= Until(k)
  <2>1. First(k) \in Nat /\ Until(k) \in Nat /\ First(k) <= Until(k) /\ Until(k) <= NONCES - 1
    BY BatchPlaces
  <2>2. NONCES \in Nat
    BY DEF Sweeping
  <2> QED
    BY <2>1, <2>2 DEF Nonce!Nonces
<1>2. Searched(BatchOf(hash, target, k), hash, target, First(k), Until(k))
  <2>1. Size \in Nat /\ NONCES \in Nat /\ Byte \in Nat \ {0}
    BY DEF Sweeping
  <2>2. hash \in [Nonce!Nonces -> Nonce!Hashes] /\ target \in Nonce!Hashes
    BY DEF Sweeping
  <2>3. Searched(Nonce!Search(hash, target, First(k), Until(k)), hash, target, First(k), Until(k))
    BY <1>1, <2>1, <2>2, SearchFacts
  <2> QED
    BY <2>3 DEF BatchOf
<1>3. ASSUME k < last PROVE BatchOf(hash, target, k).solution = {}
  <2>1. last \in Nat /\ k \in 1 .. last - 1
    BY <1>3 DEF Swept
  <2> QED
    BY <2>1 DEF Swept, EndsSweep
<1> QED
  BY <1>2, <1>3

LEMMA BatchesCover ==
  ASSUME NEW hash, NEW target, Sweeping(hash, target), NEW last, Swept(hash, target, last)
  PROVE  \A n \in Nat : n < First(last) => \E k \in 1 .. last - 1 : n \in First(k) .. Until(k)
<1> DEFINE Covered(k) == \A n \in Nat : n < First(k) => \E j \in 1 .. k - 1 : n \in First(j) .. Until(j)
           S == {m \in Nat : m < last => Covered(m + 1)}
<1>0. last \in Nat \ {0}
  BY DEF Sweeping, Swept
<1>1. 0 \in S
  <2>1. First(1) = 0
    BY FirstFacts DEF Sweeping
  <2>2. Covered(1)
    BY <2>1
  <2> HIDE DEF Covered
  <2> QED
    BY <2>2
<1>2. ASSUME NEW m \in Nat, m \in S PROVE m + 1 \in S
  <2> SUFFICES ASSUME m + 1 < last PROVE Covered(m + 2)
    <3> HIDE DEF Covered
    <3>1. (m + 1) + 1 = m + 2 /\ m + 1 \in Nat
      OBVIOUS
    <3> QED
      BY <3>1
  <2>1. Covered(m + 1)
    <3> HIDE DEF Covered
    <3> QED
      BY <1>0, <1>2
  <2>2. m + 1 \in 1 .. last
    BY <1>0
  <2>3. /\ First(m + 1) \in Nat /\ Until(m + 1) \in Nat
        /\ First((m + 1) + 1) = Until(m + 1) + 1
    BY <2>2, BatchPlaces
  <2>4. First(m + 2) = Until(m + 1) + 1
    BY <2>3
  <2> SUFFICES ASSUME NEW n \in Nat, n < First(m + 2)
               PROVE  \E j \in 1 .. m + 1 : n \in First(j) .. Until(j)
    OBVIOUS
  <2>5. CASE n < First(m + 1)
    <3>1. PICK j \in 1 .. m : n \in First(j) .. Until(j)
      BY <2>1, <2>5
    <3> QED
      BY <3>1
  <2>6. CASE ~(n < First(m + 1))
    <3>1. n \in First(m + 1) .. Until(m + 1)
      BY <2>3, <2>4, <2>6
    <3> QED
      BY <3>1
  <2> QED
    BY <2>5, <2>6
<1> HIDE DEF S, Covered
<1>3. \A m \in Nat : m \in S
  BY <1>1, <1>2, Induction
<1>4. last - 1 \in Nat /\ last - 1 < last /\ (last - 1) + 1 = last
  BY <1>0
<1>5. Covered(last)
  <2>1. last - 1 \in S
    BY <1>3, <1>4
  <2>2. last - 1 < last => Covered((last - 1) + 1)
    BY <2>1 DEF S
  <2> QED
    BY <1>4, <2>2
<1> QED
  BY <1>5 DEF Covered

\* Nothing solves the header before the last batch, and each of the batches before it
\* hashes all of its nonces.
LEMMA EarlierBatches ==
  ASSUME NEW hash, NEW target, Sweeping(hash, target), NEW last, Swept(hash, target, last)
  PROVE  /\ \A k \in 1 .. last - 1 :
              BatchOf(hash, target, k).hashes = Until(k) - First(k) + 1
              /\ \A n \in First(k) .. Until(k) :
                   ~Nonce!IsBelow(hash[n], BatchOf(hash, target, k).best)
         /\ \A n \in Nat : n < First(last) => n \notin Solving(hash, target)
<1>1. ASSUME NEW k \in 1 .. last - 1
      PROVE  Solving(hash, target) \cap First(k) .. Until(k) = {}
  <2>1. k \in 1 .. last /\ k < last
    BY DEF Swept
  <2>2. /\ Searched(BatchOf(hash, target, k), hash, target, First(k), Until(k))
        /\ BatchOf(hash, target, k).solution = {}
    BY <2>1, BatchFacts
  <2> QED
    BY <2>2 DEF Searched
<1>2. ASSUME NEW k \in 1 .. last - 1
      PROVE  BatchOf(hash, target, k).hashes = Until(k) - First(k) + 1
              /\ \A n \in First(k) .. Until(k) :
                   ~Nonce!IsBelow(hash[n], BatchOf(hash, target, k).best)
  <2>1. k \in 1 .. last
    BY DEF Swept
  <2>2. Searched(BatchOf(hash, target, k), hash, target, First(k), Until(k))
    BY <2>1, BatchFacts
  <2> QED
    BY <1>1, <2>2 DEF Searched
<1>3. ASSUME NEW n \in Nat, n < First(last), n \in Solving(hash, target) PROVE FALSE
  <2>1. PICK k \in 1 .. last - 1 : n \in First(k) .. Until(k)
    BY <1>3, BatchesCover
  <2> QED
    BY <1>1, <1>3, <2>1
<1> QED
  BY <1>2, <1>3

Tried(hash, target) == {nonce \in Nonce!Nonces : \A s \in Solving(hash, target) : nonce <= s}

\* A batch that begins at first tries the nonces up to end, as the sweep does.
EndsAt(end, result, hash, target, first) ==
  /\ first <= end /\ end <= NONCES - 1
  /\ Tried(hash, target) = 0 .. end
  /\ result.solution = Tried(hash, target) \cap Solving(hash, target)
  /\ result.hashes = end - first + 1
  /\ \A n \in first .. end : ~Nonce!IsBelow(hash[n], result.best)
  /\ result.best = Nonce!Highest \/ \E n \in first .. end : hash[n] = result.best

\* The last batch ends at the first nonce that solves, or at the last nonce.
LEMMA LastBatch ==
  ASSUME NEW hash, NEW target, Sweeping(hash, target), NEW last, Swept(hash, target, last)
  PROVE  \E end \in Nat : EndsAt(end, BatchOf(hash, target, last), hash, target, First(last))
<1> DEFINE result == BatchOf(hash, target, last)
           first == First(last)
           until == Until(last)
           solving == Solving(hash, target)
           near == solving \cap first .. until
           tried == {nonce \in first .. until : \A s \in near : nonce <= s}
<1>0. NONCES \in Nat \ {0} /\ last \in 1 .. last /\ (result.solution # {} \/ until = NONCES - 1)
  BY DEF Sweeping, Swept, EndsSweep
<1>1. first \in Nat /\ until \in Nat /\ first <= until /\ until <= NONCES - 1
  BY <1>0, BatchPlaces
<1>2. \A n \in Nat : n < first => n \notin solving
  BY EarlierBatches
<1>3. solving \subseteq 0 .. NONCES - 1
  BY DEF Solving, Nonce!Nonces
<1>4. Searched(result, hash, target, first, until)
  BY <1>0, BatchFacts
<1>5. /\ near = {} => result.solution = {} /\ result.hashes = until - first + 1
      /\ near # {} => \E s \in near : /\ \A m \in near : s <= m
                                      /\ result.solution = {s}
                                      /\ result.hashes = s - first + 1
      /\ \A n \in tried : ~Nonce!IsBelow(hash[n], result.best)
      /\ result.best = Nonce!Highest \/ \E n \in tried : hash[n] = result.best
  BY <1>4 DEF Searched
<1> HIDE DEF result, first, until, solving
<1>6. CASE near # {}
  <2>1. PICK s \in near : /\ \A m \in near : s <= m
                          /\ result.solution = {s}
                          /\ result.hashes = s - first + 1
    BY <1>5, <1>6
  <2>2. s \in Nat /\ s \in solving /\ first <= s /\ s <= until
    BY <1>1
  <2>3. \A m \in solving : s <= m
    <3> SUFFICES ASSUME NEW m \in solving, ~(s <= m) PROVE FALSE
      OBVIOUS
    <3>1. m \in Nat /\ m < s
      BY <1>0, <1>3, <2>2
    <3>2. m \in near
      BY <1>1, <1>2, <2>2, <3>1
    <3>3. s <= m
      <4> HIDE DEF near
      <4> QED
        BY <2>1, <3>2
    <3> QED
      BY <2>2, <3>1, <3>3
  <2>4. Tried(hash, target) = 0 .. s
    <3>1. Tried(hash, target) = {n \in 0 .. NONCES - 1 : \A m \in solving : n <= m}
      BY DEF Tried, solving, Nonce!Nonces
    <3>2. \A n \in 0 .. NONCES - 1 : (\A m \in solving : n <= m) <=> n <= s
      <4> SUFFICES ASSUME NEW n \in 0 .. NONCES - 1, n <= s, NEW m \in solving PROVE n <= m
        BY <2>2
      <4> QED
        BY <1>0, <1>3, <2>2, <2>3
    <3>3. {n \in 0 .. NONCES - 1 : n <= s} = 0 .. s
      BY <1>0, <1>1, <2>2
    <3> QED
      BY <3>1, <3>2, <3>3
  <2>5. Tried(hash, target) \cap solving = {s}
    <3>1. \A m \in 0 .. s : m \in solving => m = s
      BY <2>2, <2>3
    <3> QED
      BY <2>2, <2>4, <3>1
  <2>6. tried = first .. s
    <3>1. \A n \in first .. until : (\A m \in near : n <= m) <=> n <= s
      <4> SUFFICES ASSUME NEW n \in first .. until, n <= s, NEW m \in near PROVE n <= m
        OBVIOUS
      <4> QED
        BY <1>1, <2>1, <2>2
    <3> QED
      BY <1>1, <2>2, <3>1
  <2>7. s <= NONCES - 1
    BY <1>0, <1>1, <2>2
  <2> HIDE DEF near, tried
  <2>8. /\ \A n \in first .. s : ~Nonce!IsBelow(hash[n], result.best)
        /\ result.best = Nonce!Highest \/ \E n \in first .. s : hash[n] = result.best
    BY <1>5, <2>6
  <2> QED
    BY <2>1, <2>2, <2>4, <2>5, <2>7, <2>8 DEF EndsAt, result, first, solving
<1>7. CASE near = {}
  <2>1. until = NONCES - 1 /\ result.solution = {} /\ result.hashes = until - first + 1
    BY <1>0, <1>5, <1>7
  <2>2. solving = {}
    <3> SUFFICES ASSUME NEW m \in solving PROVE FALSE
      OBVIOUS
    <3>1. m \in Nat /\ m <= until
      BY <1>0, <1>3, <2>1
    <3> QED
      BY <1>1, <1>2, <1>7, <3>1
  <2>3. Tried(hash, target) = 0 .. until
    BY <2>1, <2>2 DEF Tried, solving, Nonce!Nonces
  <2>4. tried = first .. until
    BY <1>7
  <2> HIDE DEF near, tried
  <2>5. /\ \A n \in first .. until : ~Nonce!IsBelow(hash[n], result.best)
        /\ result.best = Nonce!Highest \/ \E n \in first .. until : hash[n] = result.best
    BY <1>5, <2>4
  <2>6. result.solution = Tried(hash, target) \cap solving
    BY <2>1, <2>2
  <2> QED
    BY <1>1, <2>1, <2>3, <2>5, <2>6 DEF EndsAt, result, first, solving
<1> QED
  BY <1>6, <1>7

\* The running count of the hashes of the batches.
Counts(f, results) ==
  f = [i \in 0 .. Len(results) |-> IF i = 0 THEN 0 ELSE f[i - 1] + results[i].hashes]

LEMMA CountOfHashes ==
  ASSUME NEW last \in Nat \ {0}, NEW results, DOMAIN results = 1 .. last, Len(results) = last,
         NEW at \in [1 .. last -> Nat], at[1] = 0,
         \A k \in 1 .. last - 1 : at[k] + results[k].hashes = at[k + 1]
  PROVE  /\ \E f : Counts(f, results)
         /\ \A f : Counts(f, results) => f[last] = at[last] + results[last].hashes
<1> DEFINE w == [i \in 0 .. last |-> IF i < last THEN at[i + 1] ELSE at[last] + results[last].hashes]
<1>1. Counts(w, results)
  <2>1. ASSUME NEW i \in 0 .. last
        PROVE  w[i] = IF i = 0 THEN 0 ELSE w[i - 1] + results[i].hashes
    <3>1. CASE i = 0
      BY <3>1
    <3>2. CASE i # 0 /\ i < last
      <4>1. i \in 1 .. last - 1 /\ i - 1 \in 0 .. last /\ i - 1 < last /\ (i - 1) + 1 = i
        BY <3>2
      <4>2. w[i - 1] = at[i] /\ w[i] = at[i + 1]
        BY <3>2, <4>1
      <4> HIDE DEF w
      <4> QED
        BY <3>2, <4>1, <4>2
    <3>3. CASE i # 0 /\ i = last
      <4>1. i - 1 \in 0 .. last /\ i - 1 < last /\ (i - 1) + 1 = last /\ ~(i < last)
        BY <3>3
      <4>2. w[i - 1] = at[last] /\ w[i] = at[last] + results[last].hashes
        BY <4>1
      <4> HIDE DEF w
      <4> QED
        BY <3>3, <4>2
    <3> QED
      BY <3>1, <3>2, <3>3
  <2>2. w = [i \in 0 .. last |-> w[i]]
    OBVIOUS
  <2> HIDE DEF w
  <2>3. [i \in 0 .. last |-> w[i]]
          = [i \in 0 .. last |-> IF i = 0 THEN 0 ELSE w[i - 1] + results[i].hashes]
    BY <2>1
  <2> QED
    BY <2>2, <2>3 DEF Counts
<1>2. ASSUME NEW f, Counts(f, results) PROVE f[last] = at[last] + results[last].hashes
  <2>1. \A i \in 0 .. last : f[i] = IF i = 0 THEN 0 ELSE f[i - 1] + results[i].hashes
    BY <1>2 DEF Counts
  <2> DEFINE S == {m \in Nat : m < last => f[m] = at[m + 1]}
  <2>2. 0 \in S
    <3>1. 0 \in 0 .. last /\ 0 + 1 = 1
      OBVIOUS
    <3> QED
      BY <2>1, <3>1
  <2>3. ASSUME NEW m \in Nat, m \in S PROVE m + 1 \in S
    <3> SUFFICES ASSUME m + 1 < last PROVE f[m + 1] = at[(m + 1) + 1]
      OBVIOUS
    <3>1. m + 1 \in 1 .. last - 1 /\ m + 1 \in 0 .. last /\ m + 1 # 0 /\ (m + 1) - 1 = m
      OBVIOUS
    <3>2. f[m] = at[m + 1]
      BY <2>3
    <3>3. f[m + 1] = f[m] + results[m + 1].hashes
      BY <2>1, <3>1
    <3> QED
      BY <3>1, <3>2, <3>3
  <2> HIDE DEF S
  <2>4. \A m \in Nat : m \in S
    BY <2>2, <2>3, Induction
  <2>5. last - 1 \in Nat /\ last - 1 < last /\ (last - 1) + 1 = last /\ last \in 0 .. last /\ last # 0
    OBVIOUS
  <2>6. f[last - 1] = at[last]
    BY <2>4, <2>5 DEF S
  <2>7. f[last] = f[last - 1] + results[last].hashes
    BY <2>1, <2>5
  <2> QED
    BY <2>6, <2>7
<1> QED
  BY <1>1, <1>2

\* The batches of a sweep find the first nonce that solves a header, if there is one,
\* and hash every nonce up to it, or all of them, exactly once; the lowest hash they
\* report is the lowest. Whatever the batch size, the last one is cut short at the end of
\* the range and none is left out (worker.rs:185-188).
THEOREM SweepMissesNoNonce ==
  ASSUME Size \in Nat, NONCES \in Nat \ {0}, Byte \in Nat \ {0}, BATCH \in Nat \ {0},
         NEW hash \in [Nonce!Nonces -> Nonce!Hashes], NEW target \in Nonce!Hashes
  PROVE  Nonce!SweepIsComplete(hash, target)
<1> DEFINE results == Nonce!Sweep(hash, target)
           tried == Tried(hash, target)
           solving == Solving(hash, target)
<1>1. Sweeping(hash, target)
  BY DEF Sweeping
<1>2. PICK last : /\ Swept(hash, target, last)
                  /\ results = [k \in 1 .. last |-> BatchOf(hash, target, k)]
  BY SweepEnds
<1> HIDE DEF results, tried, solving
<1>3. last \in Nat \ {0} /\ last \in 1 .. last
  <2>1. last \in 1 .. NONCES
    BY <1>2 DEF Swept
  <2> QED
    BY <2>1
<1>4. /\ DOMAIN results = 1 .. last /\ Len(results) = last
      /\ \A k \in 1 .. last : results[k] = BatchOf(hash, target, k)
  BY <1>2, <1>3
<1>5. PICK end \in Nat : EndsAt(end, results[last], hash, target, First(last))
  <2>1. results[last] = BatchOf(hash, target, last)
    BY <1>3, <1>4
  <2> QED
    BY <1>1, <1>2, <2>1, LastBatch
<1>5a. /\ First(last) <= end /\ end <= NONCES - 1
       /\ tried = 0 .. end
       /\ results[last].solution = tried \cap solving
       /\ results[last].hashes = end - First(last) + 1
       /\ \A n \in First(last) .. end : ~Nonce!IsBelow(hash[n], results[last].best)
       /\ \/ results[last].best = Nonce!Highest
          \/ \E n \in First(last) .. end : hash[n] = results[last].best
  BY <1>5 DEF EndsAt, tried, solving
<1>6. \A k \in 1 .. last : First(k) \in Nat /\ Until(k) \in Nat
      /\ (k < last => First(k + 1) = Until(k) + 1)
  BY <1>1, <1>2, BatchPlaces
<1>7. \A k \in 1 .. last - 1 :
        /\ results[k].hashes = Until(k) - First(k) + 1
        /\ \A n \in First(k) .. Until(k) : ~Nonce!IsBelow(hash[n], results[k].best)
  <2>1. \A k \in 1 .. last - 1 : results[k] = BatchOf(hash, target, k)
    BY <1>3, <1>4
  <2> QED
    BY <1>1, <1>2, <2>1, EarlierBatches
<1>8. \A k \in 1 .. last - 1 : Until(k) < First(last)
  <2> DEFINE S == {m \in Nat : m <= last => \A k \in 1 .. m - 1 : Until(k) < First(m)}
  <2>1. 0 \in S
    OBVIOUS
  <2>2. ASSUME NEW m \in Nat, m \in S PROVE m + 1 \in S
    <3> SUFFICES ASSUME m + 1 <= last, NEW k \in 1 .. m PROVE Until(k) < First(m + 1)
      OBVIOUS
    <3>1. m \in 1 .. last /\ m < last /\ k \in 1 .. last
      BY <1>3
    <3>2. First(m) \in Nat /\ Until(m) \in Nat /\ First(m + 1) = Until(m) + 1 /\ Until(k) \in Nat
      BY <1>6, <3>1
    <3>3. First(m) <= Until(m)
      BY <1>1, <1>2, <3>1, BatchPlaces
    <3>4. CASE k = m
      BY <3>2, <3>4
    <3>5. CASE k \in 1 .. m - 1
      <4>1. Until(k) < First(m)
        BY <2>2, <3>1, <3>5
      <4> QED
        BY <3>2, <3>3, <4>1
    <3> QED
      BY <3>4, <3>5
  <2> HIDE DEF S
  <2>3. last \in S
    BY <1>3, <2>1, <2>2, Induction
  <2> QED
    BY <1>3, <2>3 DEF S
<1>9. Nonce!Last(results).solution = tried \cap solving
  BY <1>4, <1>5a DEF Nonce!Last
<1>10. /\ \E f : Counts(f, results)
       /\ \A f : Counts(f, results) => f[last] = Nonce!Cardinality(tried)
  <2> DEFINE at == [k \in 1 .. last |-> First(k)]
  <2>1. at \in [1 .. last -> Nat] /\ at[1] = 0 /\ at[last] = First(last)
    <3>1. First(1) = 0
      BY FirstFacts
    <3> QED
      BY <1>3, <1>6, <3>1
  <2>2. \A k \in 1 .. last - 1 : at[k] + results[k].hashes = at[k + 1]
    <3> SUFFICES ASSUME NEW k \in 1 .. last - 1 PROVE at[k] + results[k].hashes = at[k + 1]
      OBVIOUS
    <3>1. k \in 1 .. last /\ k + 1 \in 1 .. last /\ k < last
      BY <1>3
    <3>2. at[k] = First(k) /\ at[k + 1] = First(k + 1)
      BY <3>1
    <3> HIDE DEF at
    <3> QED
      BY <1>6, <1>7, <3>1, <3>2
  <2> HIDE DEF at
  <2>3. /\ \E f : Counts(f, results)
        /\ \A f : Counts(f, results) => f[last] = at[last] + results[last].hashes
    BY <1>3, <1>4, <2>1, <2>2, CountOfHashes
  <2>4. at[last] + results[last].hashes = end + 1
    <3>1. First(last) \in Nat
      BY <1>3, <1>6
    <3> QED
      BY <1>5a, <2>1, <3>1
  <2>5. Nonce!Cardinality(tried) = end + 1
    <3>1. 0 \in Int /\ end \in Int /\ 0 <= end
      OBVIOUS
    <3>2. Nonce!Cardinality(0 .. end) = end - 0 + 1
      BY <3>1, CardinalityOfRange
    <3> QED
      BY <1>5a, <3>2
  <2> QED
    BY <2>3, <2>4, <2>5
<1>11. \A nonce \in tried : \E i \in DOMAIN results : ~Nonce!IsBelow(hash[nonce], results[i].best)
  <2> SUFFICES ASSUME NEW nonce \in 0 .. end
               PROVE  \E i \in 1 .. last : ~Nonce!IsBelow(hash[nonce], results[i].best)
    BY <1>4, <1>5a
  <2>1. CASE nonce < First(last)
    <3>1. PICK k \in 1 .. last - 1 : nonce \in First(k) .. Until(k)
      BY <1>1, <1>2, <2>1, BatchesCover
    <3> QED
      BY <1>3, <1>7, <3>1
  <2>2. CASE ~(nonce < First(last))
    <3>1. nonce \in First(last) .. end
      BY <1>3, <1>6, <2>2
    <3> QED
      BY <1>3, <1>5a, <3>1
  <2> QED
    BY <2>1, <2>2
<1>12. \A i \in DOMAIN results :
         results[i].best = Nonce!Highest \/ \E nonce \in tried : hash[nonce] = results[i].best
  <2> SUFFICES ASSUME NEW i \in 1 .. last
               PROVE  results[i].best = Nonce!Highest
                      \/ \E nonce \in 0 .. end : hash[nonce] = results[i].best
    BY <1>4, <1>5a
  <2>0. First(last) \in Nat /\ First(i) \in Nat /\ Until(i) \in Nat
    BY <1>3, <1>6
  <2>1. CASE i = last
    <3>1. \A n \in First(last) .. end : n \in 0 .. end
      BY <2>0
    <3> QED
      BY <1>5a, <2>1, <3>1
  <2>2. CASE i # last
    <3>1. i \in 1 .. last - 1
      BY <1>3, <2>2
    <3>2. \A n \in First(i) .. Until(i) : n \in 0 .. end
      BY <1>5a, <1>8, <2>0, <3>1
    <3>3. Searched(BatchOf(hash, target, i), hash, target, First(i), Until(i))
      BY <1>1, <1>2, BatchFacts
    <3>4. results[i] = BatchOf(hash, target, i)
      BY <1>4
    <3> QED
      BY <3>2, <3>3, <3>4 DEF Searched
  <2> QED
    BY <2>1, <2>2
<1> DEFINE Defines(f) ==
             f = [i \in 0 .. Len(results) |-> IF i = 0 THEN 0 ELSE f[i - 1] + results[i].hashes]
           hashes == CHOOSE f : Defines(f)
<1>13. hashes[Len(results)] = Nonce!Cardinality(tried)
  <2>1. \A f : Defines(f) <=> Counts(f, results)
    BY DEF Counts
  <2> HIDE DEF Defines
  <2>2. Counts(hashes, results)
    BY <1>10, <2>1
  <2> HIDE DEF hashes
  <2> QED
    BY <1>4, <1>10, <2>2
<1>14. /\ solving = {nonce \in Nonce!Nonces : Nonce!IsMetBy(target, hash[nonce])}
       /\ tried = {nonce \in Nonce!Nonces : \A s \in solving : nonce <= s}
  BY DEF solving, tried, Solving, Tried
<1> QED
  BY <1>9, <1>11, <1>12, <1>13, <1>14 DEF Nonce!SweepIsComplete, results

-----------------------------------------------------------------------------
(* Numbers. A big-endian number's value is that of its first places, times *)
(* Byte, and the next place.                                               *)

Accumulates(v, a, size) ==
  /\ v \in [0 .. size -> Int]
  /\ v[0] = 0
  /\ \A n \in 1 .. size : v[n] = a[n] + Byte * v[n - 1]

LEMMA ValueFacts ==
  ASSUME Byte \in Nat, NEW size \in Nat, NEW a \in [1 .. size -> Int]
  PROVE  \E v : Accumulates(v, a, size) /\ Nonce!Value(a) = v[size]
<1> DEFINE Defines(f) == f = [n \in 0 .. size |-> IF n = 0 THEN 0 ELSE a[n] + Byte * f[n - 1]]
           digit(n) == IF n \in 1 .. size THEN a[n] ELSE 0
           step == [s \in Nat \X Int |-> digit(s[1] + 1) + Byte * s[2]]
           v == CHOOSE f : Defines(f)
<1>1. Len(a) = size
  OBVIOUS
<1>2. Nonce!Value(a) = v[size]
  BY <1>1 DEF Nonce!Value
<1>3. \A n \in Nat : digit(n) \in Int
  OBVIOUS
<1> HIDE DEF digit
<1>4. step \in [Nat \X Int -> Int] /\ \A n \in Nat, x \in Int : step[<<n, x>>] = digit(n + 1) + Byte * x
  <2>1. \A n \in Nat, x \in Int : digit(n + 1) + Byte * x \in Int
    <3> SUFFICES ASSUME NEW n \in Nat, NEW x \in Int PROVE digit(n + 1) + Byte * x \in Int
      OBVIOUS
    <3>1. digit(n + 1) \in Int /\ Byte * x \in Int
      BY <1>3
    <3> QED
      BY <3>1
  <2> QED
    BY <2>1
<1> HIDE DEF step
<1>5. PICK f \in [Nat -> Int] : Iterated(f, 0, step)
  <2>1. 0 \in Int /\ step \in [Nat \X Int -> Int]
    BY <1>4
  <2> QED
    BY <2>1, Iterates, Zenon
<1>6. f[0] = 0 /\ \A n \in Nat : f[n + 1] = digit(n + 1) + Byte * f[n]
  BY <1>4, <1>5 DEF Iterated
<1> DEFINE w == [n \in 0 .. size |-> f[n]]
<1>7. Defines(w)
  <2>1. ASSUME NEW n \in 0 .. size PROVE w[n] = IF n = 0 THEN 0 ELSE a[n] + Byte * w[n - 1]
    <3>1. CASE n = 0
      BY <1>6, <3>1
    <3>2. CASE n # 0
      <4>1. n - 1 \in Nat /\ n - 1 \in 0 .. size /\ (n - 1) + 1 = n /\ n \in 1 .. size
        BY <3>2
      <4>2. f[n] = digit(n) + Byte * f[n - 1] /\ digit(n) = a[n]
        BY <1>6, <4>1 DEF digit
      <4>3. w[n] = f[n] /\ w[n - 1] = f[n - 1]
        BY <4>1
      <4> HIDE DEF w
      <4> QED
        BY <3>2, <4>2, <4>3
    <3> QED
      BY <3>1, <3>2
  <2>2. w = [n \in 0 .. size |-> w[n]]
    OBVIOUS
  <2> HIDE DEF w
  <2>3. [n \in 0 .. size |-> w[n]] = [n \in 0 .. size |-> IF n = 0 THEN 0 ELSE a[n] + Byte * w[n - 1]]
    BY <2>1
  <2> QED
    BY <2>2, <2>3
<1>8. Defines(v)
  <2> HIDE DEF Defines, w
  <2> QED
    BY <1>7
<1> HIDE DEF v
<1>9. v[0] = 0 /\ \A n \in 1 .. size : v[n] = a[n] + Byte * v[n - 1]
  <2>1. 0 \in 0 .. size /\ \A n \in 1 .. size : n \in 0 .. size /\ n # 0
    OBVIOUS
  <2> QED
    BY <1>8, <2>1
<1>10. v \in [0 .. size -> Int]
  <2> DEFINE S == {n \in Nat : n <= size => v[n] \in Int}
  <2>1. 0 \in S
    BY <1>9
  <2>2. ASSUME NEW n \in Nat, n \in S PROVE n + 1 \in S
    <3> SUFFICES ASSUME n + 1 <= size PROVE v[n + 1] \in Int
      OBVIOUS
    <3>1. n + 1 \in 1 .. size /\ (n + 1) - 1 = n /\ v[n] \in Int
      BY <2>2
    <3>2. a[n + 1] \in Int /\ Byte * v[n] \in Int
      BY <3>1
    <3> QED
      BY <1>9, <3>1, <3>2
  <2> HIDE DEF S
  <2>3. \A n \in Nat : n \in S
    BY <2>1, <2>2, Induction
  <2>4. \A n \in 0 .. size : v[n] \in Int
    BY <2>3 DEF S
  <2>5. v = [n \in 0 .. size |-> v[n]]
    BY <1>8
  <2> QED
    BY <2>4, <2>5
<1> QED
  BY <1>2, <1>9, <1>10 DEF Accumulates

\* A number that is lower at the first place that differs is lower.
LEMMA LowerIsLess ==
  ASSUME Byte \in Nat \ {0}, Size \in Nat,
         NEW a \in [1 .. Size -> 0 .. Byte - 1], NEW b \in [1 .. Size -> 0 .. Byte - 1],
         Lower(a, b)
  PROVE  Nonce!Value(a) < Nonce!Value(b)
<1>1. a \in [1 .. Size -> Int] /\ b \in [1 .. Size -> Int]
  OBVIOUS
<1>2. PICK v : Accumulates(v, a, Size) /\ Nonce!Value(a) = v[Size]
  BY <1>1, ValueFacts
<1>3. PICK w : Accumulates(w, b, Size) /\ Nonce!Value(b) = w[Size]
  BY <1>1, ValueFacts
<1>4. PICK d \in 1 .. Size : a[d] < b[d] /\ \A j \in 1 .. d - 1 : a[j] = b[j]
  BY DEF Lower
<1> DEFINE S == {n \in Nat : n <= Size => (n < d => v[n] = w[n]) /\ (n >= d => v[n] < w[n])}
<1>5. 0 \in S
  BY <1>2, <1>3 DEF Accumulates
<1>6. ASSUME NEW n \in Nat, n \in S PROVE n + 1 \in S
  <2> SUFFICES ASSUME n + 1 <= Size
               PROVE  (n + 1 < d => v[n + 1] = w[n + 1]) /\ (n + 1 >= d => v[n + 1] < w[n + 1])
    OBVIOUS
  <2>1. n + 1 \in 1 .. Size /\ n \in 0 .. Size /\ n + 1 \in 0 .. Size /\ (n + 1) - 1 = n
    OBVIOUS
  <2>2. PICK x \in Int, y \in Int : x = v[n] /\ y = w[n]
    BY <1>2, <1>3, <2>1 DEF Accumulates
  <2>3. PICK p \in 0 .. Byte - 1, q \in 0 .. Byte - 1 : p = a[n + 1] /\ q = b[n + 1]
    BY <2>1
  <2>4. v[n + 1] = p + Byte * x /\ w[n + 1] = q + Byte * y
    BY <1>2, <1>3, <2>1, <2>2, <2>3 DEF Accumulates
  <2>5. CASE n + 1 < d
    <3>1. x = y
      BY <1>6, <2>2, <2>5
    <3>2. n + 1 \in 1 .. d - 1
      BY <2>5
    <3>3. p = q
      BY <1>4, <2>3, <3>2
    <3>4. v[n + 1] = w[n + 1]
      BY <2>4, <3>1, <3>3, Zenon
    <3>5. ~(n + 1 >= d)
      BY <2>5
    <3> QED
      BY <3>4, <3>5
  <2>6. CASE n + 1 = d
    <3>1. x = y
      BY <1>6, <2>2, <2>6
    <3>2. p < q
      BY <1>4, <2>3, <2>6
    <3>3. Byte * x \in Int
      OBVIOUS
    <3> QED
      BY <2>4, <2>6, <3>1, <3>2, <3>3
  <2>7. CASE n + 1 > d
    <3>1. x < y
      BY <1>6, <2>2, <2>7
    <3>2. PICK z \in Nat : y = x + 1 + z
      <4>1. y - x - 1 \in Nat /\ y = x + 1 + (y - x - 1)
        BY <3>1
      <4> QED
        BY <4>1
    <3>3. Byte * z \in Nat /\ Byte * x \in Int
      OBVIOUS
    <3>4. Byte * y = Byte * x + Byte + Byte * z
      BY <3>2
    <3>5. p + Byte * x < q + (Byte * x + Byte + Byte * z)
      BY <3>3
    <3>6. v[n + 1] < w[n + 1]
      BY <2>4, <3>4, <3>5, Zenon
    <3>7. ~(n + 1 < d)
      BY <2>7
    <3> QED
      BY <3>6, <3>7
  <2> QED
    BY <2>5, <2>6, <2>7
<1> HIDE DEF S
<1>7. Size \in S
  BY <1>5, <1>6, Induction
<1>8. v[Size] < w[Size]
  BY <1>7 DEF S
<1> QED
  BY <1>2, <1>3, <1>8

\* A hash, whose bytes are stored in the opposite order, meets a target if and only if
\* it is no greater as a number, whatever their size (hash.rs, "is_met_by"): no byte is
\* compared with the wrong one, and equality counts.
THEOREM TargetsCompareAsNumbers ==
  ASSUME Byte \in Nat \ {0}, Size \in Nat, NEW hash \in Nonce!Hashes, NEW target \in Nonce!Hashes
  PROVE  Nonce!IsMetBy(target, hash) <=> Nonce!Value(Nonce!Reverse(hash)) <= Nonce!Value(target)
<1> DEFINE number == BigEndian(hash)
           Bytes == 0 .. Byte - 1
<1>1. target \in [1 .. Size -> Bytes]
  BY DEF Nonce!Hashes
<1>2. number \in [1 .. Size -> Bytes]
  <2>1. hash \in [1 .. Size -> Bytes] /\ Len(hash) = Size
    BY DEF Nonce!Hashes
  <2>2. \A i \in 1 .. Size : Size - i + 1 \in 1 .. Size
    OBVIOUS
  <2> HIDE DEF Bytes
  <2> QED
    BY <2>1, <2>2 DEF BigEndian, Nonce!Reverse
<1>3. Nonce!IsMetBy(target, hash) <=> ~Lower(target, number)
  BY ComparisonFacts
<1>4. number \in [1 .. Size -> Int] /\ target \in [1 .. Size -> Int]
  <2> HIDE DEF number
  <2> QED
    BY <1>1, <1>2
<1>5. Nonce!Reverse(hash) = number
  BY DEF BigEndian
<1> HIDE DEF number
<1>6. Nonce!Value(number) \in Int /\ Nonce!Value(target) \in Int
  <2>1. PICK v : Accumulates(v, number, Size) /\ Nonce!Value(number) = v[Size]
    BY <1>4, ValueFacts
  <2>2. PICK w : Accumulates(w, target, Size) /\ Nonce!Value(target) = w[Size]
    BY <1>4, ValueFacts
  <2> QED
    BY <2>1, <2>2 DEF Accumulates
<1>7. CASE Lower(target, number)
  <2>1. Nonce!Value(target) < Nonce!Value(number)
    BY <1>1, <1>2, <1>7, LowerIsLess
  <2> QED
    BY <1>3, <1>5, <1>6, <1>7, <2>1
<1>8. CASE Lower(number, target)
  <2>1. Nonce!Value(number) < Nonce!Value(target)
    BY <1>1, <1>2, <1>8, LowerIsLess
  <2>2. ~Lower(target, number)
    <3>1. ASSUME Lower(target, number) PROVE FALSE
      BY <1>4, <1>8, <3>1, LowerIsTransitive, LowerIsStrict
    <3> QED
      BY <3>1
  <2> QED
    BY <1>3, <1>5, <1>6, <2>1, <2>2
<1>9. CASE number = target
  <2>1. ~Lower(target, number)
    BY <1>4, <1>9, LowerIsStrict
  <2> QED
    BY <1>3, <1>5, <1>6, <1>9, <2>1
<1> QED
  BY <1>4, <1>7, <1>8, <1>9, LowerIsTotal

-----------------------------------------------------------------------------
(* The hash of a header.                                                   *)

\* What the compression function makes of a message of two blocks, and of one.
LEMMA Absorbed ==
  ASSUME NEW message
  PROVE  LET padded == Header!Pad(message)
             second == Header!Compress(Header!H0, SubSeq(padded, 1, 64))
         IN  /\ Len(padded) = 64 => Header!Sha256(message) = Header!Digest(second)
             /\ Len(padded) = 128 =>
                  Header!Sha256(message)
                    = Header!Digest(Header!Compress(second, SubSeq(padded, 65, 128)))
<1> DEFINE padded == Header!Pad(message)
           Defines(f, blocks) ==
             f = [n \in 0 .. blocks |->
                    IF n = 0 THEN Header!H0
                    ELSE Header!Compress(f[n - 1], SubSeq(padded, (n - 1) * 64 + 1, n * 64))]
           one == Header!Compress(Header!H0, SubSeq(padded, 1, 64))
           two == Header!Compress(one, SubSeq(padded, 65, 128))
<1>1. Header!Sha256(message)
        = Header!Digest((CHOOSE f : Defines(f, Len(padded) \div 64))[Len(padded) \div 64])
  BY DEF Header!Sha256, Header!BLOCK
<1> HIDE DEF padded
<1>2. \A f : Defines(f, 1) => f[1] = one
  <2> SUFFICES ASSUME NEW f, Defines(f, 1) PROVE f[1] = one
    OBVIOUS
  <2>1. 0 \in 0 .. 1 /\ 1 \in 0 .. 1 /\ (1 - 1) * 64 + 1 = 1 /\ 1 * 64 = 64 /\ 1 - 1 = 0 /\ 1 # 0
    OBVIOUS
  <2> QED
    BY <2>1
<1>3. \E f : Defines(f, 1)
  <2> DEFINE w == [n \in 0 .. 1 |-> IF n = 0 THEN Header!H0 ELSE one]
  <2>1. \A n \in 0 .. 1 : n = 0 \/ n = 1
    OBVIOUS
  <2>2. (1 - 1) * 64 + 1 = 1 /\ 1 * 64 = 64 /\ 1 - 1 = 0 /\ 0 \in 0 .. 1
    OBVIOUS
  <2>3. w[0] = Header!H0
    OBVIOUS
  <2>4. \A n \in 0 .. 1 :
          w[n] = IF n = 0 THEN Header!H0
                 ELSE Header!Compress(w[n - 1], SubSeq(padded, (n - 1) * 64 + 1, n * 64))
    BY <2>1, <2>2, <2>3
  <2>5. Defines(w, 1)
    BY <2>4
  <2> QED
    BY <2>5
<1>4. \A f : Defines(f, 2) => f[2] = two
  <2> SUFFICES ASSUME NEW f, Defines(f, 2) PROVE f[2] = two
    OBVIOUS
  <2>1. /\ 0 \in 0 .. 2 /\ 1 \in 0 .. 2 /\ 2 \in 0 .. 2 /\ 1 # 0 /\ 2 # 0
        /\ (1 - 1) * 64 + 1 = 1 /\ 1 * 64 = 64 /\ 1 - 1 = 0
        /\ (2 - 1) * 64 + 1 = 65 /\ 2 * 64 = 128 /\ 2 - 1 = 1
    OBVIOUS
  <2>2. f[0] = Header!H0
    BY <2>1
  <2>3. f[1] = one
    BY <2>1, <2>2
  <2>4. f[2] = Header!Compress(f[1], SubSeq(padded, 65, 128))
    BY <2>1
  <2> QED
    BY <2>3, <2>4
<1>5. \E f : Defines(f, 2)
  <2> DEFINE w == [n \in 0 .. 2 |-> IF n = 0 THEN Header!H0 ELSE IF n = 1 THEN one ELSE two]
  <2>1. \A n \in 0 .. 2 : n = 0 \/ n = 1 \/ n = 2
    OBVIOUS
  <2>2. /\ (1 - 1) * 64 + 1 = 1 /\ 1 * 64 = 64 /\ 1 - 1 = 0 /\ 0 \in 0 .. 2 /\ 1 \in 0 .. 2
        /\ (2 - 1) * 64 + 1 = 65 /\ 2 * 64 = 128 /\ 2 - 1 = 1 /\ 2 \in 0 .. 2
    OBVIOUS
  <2>3. w[0] = Header!H0 /\ w[1] = one /\ w[2] = two
    BY <2>2
  <2>4. ASSUME NEW n \in 0 .. 2
        PROVE  w[n] = IF n = 0 THEN Header!H0
                 ELSE Header!Compress(w[n - 1], SubSeq(padded, (n - 1) * 64 + 1, n * 64))
    <3> HIDE DEF w, one, two
    <3>1. CASE n = 0
      BY <2>3, <3>1
    <3>2. CASE n = 1
      BY <2>2, <2>3, <3>2 DEF one
    <3>3. CASE n = 2
      BY <2>2, <2>3, <3>3 DEF two
    <3> QED
      BY <2>1, <3>1, <3>2, <3>3
  <2>5. Defines(w, 2)
    BY <2>4
  <2> QED
    BY <2>5
<1>6. ASSUME Len(padded) = 64 PROVE Header!Sha256(message) = Header!Digest(one)
  <2>1. Len(padded) \div 64 = 1
    BY <1>6
  <2> HIDE DEF Defines, one
  <2>2. Header!Sha256(message) = Header!Digest((CHOOSE f : Defines(f, 1))[1])
    BY <1>1, <2>1
  <2> QED
    BY <1>2, <1>3, <2>2
<1>7. ASSUME Len(padded) = 128 PROVE Header!Sha256(message) = Header!Digest(two)
  <2>1. Len(padded) \div 64 = 2
    BY <1>7
  <2> HIDE DEF Defines, two
  <2>2. Header!Sha256(message) = Header!Digest((CHOOSE f : Defines(f, 2))[2])
    BY <1>1, <2>1
  <2> QED
    BY <1>4, <1>5, <2>2
<1> QED
  BY <1>6, <1>7 DEF padded

LEMMA ZerosFacts ==
  ASSUME NEW n \in Nat
  PROVE  Header!Zeros(n) \in Strings /\ Len(Header!Zeros(n)) = n
<1>1. Header!Zeros(n) \in [1 .. n -> Nat]
  BY DEF Header!Zeros
<1> QED
  BY <1>1 DEF Strings

LEMMA BitLengthFacts ==
  ASSUME NEW n \in Nat
  PROVE  Header!BitLength(n) \in Strings /\ Len(Header!BitLength(n)) = 8
<1> DEFINE two == <<(n * 8) \div 256, (n * 8) % 256>>
<1>1. (n * 8) \div 256 \in Nat /\ (n * 8) % 256 \in Nat
  OBVIOUS
<1>2. two \in Strings /\ Len(two) = 2
  BY <1>1 DEF Strings
<1>3. Header!Zeros(6) \in Strings /\ Len(Header!Zeros(6)) = 6
  BY ZerosFacts
<1> HIDE DEF two
<1>4. /\ Header!Zeros(6) \o two \in Strings
      /\ Len(Header!Zeros(6) \o two) = Len(Header!Zeros(6)) + Len(two)
  BY <1>2, <1>3, Joins, Zenon
<1>5. Len(Header!Zeros(6)) + Len(two) = 8
  <2>1. 6 + 2 = 8
    OBVIOUS
  <2> QED
    BY <1>2, <1>3, <2>1, Zenon
<1> QED
  BY <1>4, <1>5 DEF Header!BitLength, two

\* A padded message is whole blocks, as many as padded_len says, whatever its length
\* (padding.rs:51-58): the buffer it is written to is as long as what is written.
THEOREM PaddingFillsTheBlocks ==
  ASSUME NEW length \in Nat
  PROVE  Header!PaddingIsWhole(length)
<1> DEFINE message == Header!Zeros(length)
           gap == (56 - (length + 1)) % 64
<1>1. message \in Strings /\ Len(message) = length
  BY ZerosFacts
<1>2. gap \in Nat
  OBVIOUS
<1>3. /\ Header!Zeros(gap) \in Strings /\ Len(Header!Zeros(gap)) = gap
      /\ Header!BitLength(length) \in Strings /\ Len(Header!BitLength(length)) = 8
      /\ <<128>> \in Strings /\ Len(<<128>>) = 1
  BY <1>2, ZerosFacts, BitLengthFacts DEF Strings
<1>4. Header!Pad(message)
        = ((message \o <<128>>) \o Header!Zeros(gap)) \o Header!BitLength(length)
  BY <1>1 DEF Header!Pad, Header!BLOCK
<1> HIDE DEF message, gap
<1>5. message \o <<128>> \in Strings /\ Len(message \o <<128>>) = length + 1
  BY <1>1, <1>3, Joins
<1> DEFINE marked == message \o <<128>>
<1>6. /\ marked \o Header!Zeros(gap) \in Strings
      /\ Len(marked \o Header!Zeros(gap)) = Len(marked) + Len(Header!Zeros(gap))
  BY <1>3, <1>5, Joins, Zenon
<1>7. Len(Header!Pad(message)) = length + 1 + gap + 8
  <2> DEFINE filled == marked \o Header!Zeros(gap)
  <2>1. filled \in Strings /\ Len(filled) = length + 1 + gap
    BY <1>2, <1>3, <1>5, <1>6
  <2>2. Header!Pad(message) = filled \o Header!BitLength(length)
    BY <1>4
  <2> HIDE DEF filled
  <2>3. Len(filled \o Header!BitLength(length)) = Len(filled) + Len(Header!BitLength(length))
    BY <1>3, <2>1, Joins, Zenon
  <2> QED
    BY <1>2, <1>3, <2>1, <2>2, <2>3
<1>8. length + 1 + gap + 8 = ((length + 9 + 64 - 1) \div 64) * 64
  <2>1. PICK q \in Int, r \in 0 .. 63 : 56 - (length + 1) = 64 * q + r
    <3>1. PICK x \in Int : x = 56 - (length + 1)
      OBVIOUS
    <3>2. x % 64 \in 0 .. 63 /\ x \div 64 \in Int /\ x = 64 * (x \div 64) + (x % 64)
      OBVIOUS
    <3> QED
      BY <3>1, <3>2
  <2>2. gap = r
    BY <2>1 DEF gap
  <2>3. length + 9 + 64 - 1 = 64 * (1 - q) + (63 - r)
    BY <2>1
  <2>4. (length + 9 + 64 - 1) \div 64 = 1 - q
    BY <2>1, <2>3
  <2> QED
    BY <2>1, <2>2, <2>4
<1> QED
  BY <1>1, <1>7, <1>8 DEF Header!PaddingIsWhole, Header!PaddedLen, Header!BLOCK, message

LEMMA SequenceOf ==
  ASSUME NEW S, NEW n \in Nat, NEW f \in [1 .. n -> S]
  PROVE  f \in Seq(S) /\ Len(f) = n
OBVIOUS

\* Named, so that the provers see which sequence is meant, and arithmetic is a step of
\* its own.
IsOf(s, S, n) == s \in Seq(S) /\ Len(s) = n

Follows(s, a, m, b, n) ==
  \A i \in 1 .. m + n : s[i] = IF i <= m THEN a[i] ELSE b[i - m]

LEMMA Concatenated ==
  \A S : \A m, n \in Nat : \A a, b :
    IsOf(a, S, m) /\ IsOf(b, S, n) => IsOf(a \o b, S, m + n) /\ Follows(a \o b, a, m, b, n)
<1> SUFFICES ASSUME NEW S, NEW m \in Nat, NEW n \in Nat, NEW a, NEW b, IsOf(a, S, m), IsOf(b, S, n)
             PROVE  IsOf(a \o b, S, m + n) /\ Follows(a \o b, a, m, b, n)
  BY Zenon
<1>1. a \in Seq(S) /\ b \in Seq(S) /\ Len(a) = m /\ Len(b) = n
  BY DEF IsOf
<1>2. /\ a \o b \in Seq(S)
      /\ Len(a \o b) = Len(a) + Len(b)
      /\ \A i \in 1 .. Len(a) + Len(b) : (a \o b)[i] = IF i <= Len(a) THEN a[i] ELSE b[i - Len(a)]
  BY <1>1, ConcatProperties, Zenon
<1> QED
  BY <1>1, <1>2, Zenon DEF IsOf, Follows

LEMMA Gap == (56 - (80 + 1)) % 64 = 39
<1>1. \A x \in Int : x % 64 \in 0 .. 63 /\ x = 64 * (x \div 64) + (x % 64)
  OBVIOUS
<1>2. PICK x \in Int : x = 56 - (80 + 1)
  OBVIOUS
<1>3. PICK q \in Int, r \in 0 .. 63 : x = 64 * q + r /\ r = x % 64
  <2>1. x \div 64 \in Int
    OBVIOUS
  <2> QED
    BY <1>1, <2>1
<1>4. q = -1 /\ r = 39
  BY <1>2, <1>3
<1> QED
  BY <1>2, <1>3, <1>4

\* The second hash is of the 32 bytes of the first, which its block has room for.
LEMMA SecondIsSha256 ==
  ASSUME NEW first
  PROVE  Header!SecondHash(first) = Header!Sha256(Header!Digest(first))
<1> DEFINE V == Nat \cup {<<i, first>> : i \in 1 .. 32}
           digest == Header!Digest(first)
           zeros == Header!Zeros(23)
           bits == Header!BitLength(32)
           padded == ((digest \o <<128>>) \o zeros) \o bits
<1>1. digest \in Seq(V) /\ Len(digest) = 32
  <2>1. \A i \in 1 .. 32 : <<i, first>> \in V
    OBVIOUS
  <2>2. digest = [i \in 1 .. 32 |-> <<i, first>>]
    BY DEF Header!Digest
  <2> HIDE DEF V, digest
  <2>3. digest \in [1 .. 32 -> V]
    BY <2>1, <2>2
  <2>4. 32 \in Nat
    OBVIOUS
  <2> QED
    BY <2>3, <2>4, SequenceOf, Zenon
<1>2. zeros \in Seq(V) /\ Len(zeros) = 23 /\ bits \in Seq(V) /\ Len(bits) = 8
  <2>1. zeros \in Seq(Nat) /\ Len(zeros) = 23 /\ bits \in Seq(Nat) /\ Len(bits) = 8
    BY ZerosFacts, BitLengthFacts DEF Strings
  <2>2. Nat \subseteq V
    OBVIOUS
  <2> HIDE DEF V, zeros, bits
  <2>3. \A s \in Seq(Nat) : s \in Seq(V)
    BY <2>2
  <2> QED
    BY <2>1, <2>3
<1>3. <<128>> \in Seq(V) /\ Len(<<128>>) = 1
  <2>1. 128 \in V
    OBVIOUS
  <2> HIDE DEF V
  <2> QED
    BY <2>1
<1>4. Header!Pad(digest) = padded
  <2>1. (56 - (32 + 1)) % 64 = 23
    OBVIOUS
  <2> HIDE DEF digest
  <2> QED
    BY <1>1, <2>1 DEF Header!Pad, Header!BLOCK
<1>5. padded \in Seq(V) /\ Len(padded) = 64
  <2>1. IsOf(digest, V, 32) /\ IsOf(<<128>>, V, 1) /\ IsOf(zeros, V, 23) /\ IsOf(bits, V, 8)
    BY <1>1, <1>2, <1>3 DEF IsOf
  <2> HIDE DEF V, digest, zeros, bits
  <2>2. PICK m \in Nat, n \in Nat, k \in Nat, l \in Nat : m = 32 /\ n = 1 /\ k = 23 /\ l = 8
    OBVIOUS
  <2>3. IsOf(digest, V, m) /\ IsOf(<<128>>, V, n) /\ IsOf(zeros, V, k) /\ IsOf(bits, V, l)
    BY <2>1, <2>2, Zenon
  <2>4. m + n \in Nat /\ (m + n) + k \in Nat /\ ((m + n) + k) + l = 64
    BY <2>2
  <2>5. IsOf(digest \o <<128>>, V, m + n)
    BY <2>3, Concatenated, Zenon
  <2>6. IsOf((digest \o <<128>>) \o zeros, V, (m + n) + k)
    BY <2>3, <2>4, <2>5, Concatenated, Zenon
  <2>7. IsOf(padded, V, ((m + n) + k) + l)
    BY <2>3, <2>4, <2>6, Concatenated, Zenon
  <2> HIDE DEF padded
  <2> QED
    BY <2>4, <2>7 DEF IsOf
<1> HIDE DEF padded, V
<1>6. SubSeq(padded, 1, 64) = padded
  BY <1>5, SubSeqFull
<1>7. Header!Sha256(digest) = Header!Digest(Header!Compress(Header!H0, padded))
  BY <1>4, <1>5, <1>6, Absorbed
<1>8. Header!SecondHash(first) = Header!Digest(Header!Compress(Header!H0, padded))
  BY DEF Header!SecondHash, padded
<1> QED
  BY <1>7, <1>8

IsPart(s, whole, a, b) ==
  s \in Strings /\ Len(s) = b - a + 1 /\ \A i \in 1 .. b - a + 1 : s[i] = whole[a + i - 1]

LEMMA Part ==
  \A whole \in Strings : \A a, b \in Nat :
    1 <= a /\ a <= b /\ b <= Len(whole) => IsPart(SubSeq(whole, a, b), whole, a, b)
<1> SUFFICES ASSUME NEW whole \in Strings, NEW a \in Nat, NEW b \in Nat,
                    1 <= a, a <= b, b <= Len(whole)
             PROVE  IsPart(SubSeq(whole, a, b), whole, a, b)
  OBVIOUS
<1>1. \A i \in a .. b : whole[i] \in Nat
  BY DEF Strings
<1> QED
  BY <1>1, SubSeqProperties DEF Strings, IsPart

\* What follows the header in its last block.
Padding == (<<128>> \o Header!Zeros(39)) \o Header!BitLength(80)

LEMMA PaddingFacts ==
  /\ Padding \in Strings /\ Len(Padding) = 48
  /\ \A s \in Strings :
       ((s \o <<128>>) \o Header!Zeros(39)) \o Header!BitLength(80) = s \o Padding
<1> DEFINE a == <<128>>
           b == Header!Zeros(39)
           c == Header!BitLength(80)
<1>1. a \in Strings /\ Len(a) = 1 /\ b \in Strings /\ Len(b) = 39 /\ c \in Strings /\ Len(c) = 8
  <2>1. a \in Strings /\ Len(a) = 1
    BY DEF Strings
  <2>2. 39 \in Nat /\ 80 \in Nat
    OBVIOUS
  <2> QED
    BY <2>1, <2>2, ZerosFacts, BitLengthFacts, Zenon
<1>2. Padding = (a \o b) \o c
  BY DEF Padding
<1> HIDE DEF a, b, c
<1>3. a \o b \in Strings /\ Len(a \o b) = Len(a) + Len(b)
  BY <1>1, Joins, Zenon
<1>4. (a \o b) \o c \in Strings /\ Len((a \o b) \o c) = Len(a \o b) + Len(c)
  BY <1>1, <1>3, Joins, Zenon
<1>6. Len((a \o b) \o c) = 48
  <2>1. ASSUME NEW p, NEW q, p = 1 + 39, q = p + 8 PROVE q = 48
    BY <2>1
  <2> QED
    BY <1>1, <1>3, <1>4, <2>1
<1>7. ASSUME NEW s \in Strings PROVE ((s \o a) \o b) \o c = s \o ((a \o b) \o c)
  <2>1. Associates(s, a, b)
    BY <1>1, Associative, Zenon
  <2>2. Associates(s, a \o b, c)
    BY <1>1, <1>3, Associative, Zenon
  <2> QED
    BY <2>1, <2>2, Zenon DEF Associates
<1> QED
  BY <1>2, <1>4, <1>6, <1>7 DEF a, b, c

\* Hashing the first block once and patching the nonce into a copy of the prepared rest
\* is the double SHA-256 of the whole header, for every header and nonce
\* (midstate.rs:20-33): what the search takes for a solution is one to the network.
THEOREM MidstateHashesTheHeader ==
  ASSUME NEW header \in [1 .. 80 -> Nat], NEW nonce \in [1 .. 4 -> Nat]
  PROVE  Header!MidstateIsShortcut(header, nonce)
<1> DEFINE whole == Header!WithBytes(header, 76, nonce)
           padded == whole \o Padding
           rest == SubSeq(header, 65, 80)
           tail == rest \o Padding
           patched == Header!WithBytes(tail, 12, nonce)
           midstate == Header!Compress(Header!H0, SubSeq(header, 1, 64))
           first == Header!Compress(midstate, patched)
<1>1. header \in Strings /\ Len(header) = 80
  <2>1. PICK n \in Nat : n = 80
    OBVIOUS
  <2>2. header \in [1 .. n -> Nat]
    BY <2>1
  <2>3. header \in Seq(Nat) /\ Len(header) = n
    BY <2>2, SequenceOf
  <2> QED
    BY <2>1, <2>3 DEF Strings
<1>2a. whole \in [1 .. 80 -> Nat]
  BY DEF Header!WithBytes
<1>2. \A i \in 1 .. 80 : whole[i] = IF i - 76 \in 1 .. 4 THEN nonce[i - 76] ELSE header[i]
  BY DEF Header!WithBytes
<1>3. rest \in Strings /\ Len(rest) = 16 /\ \A i \in 1 .. 16 : rest[i] = header[64 + i]
  <2>1. rest \in Strings /\ Len(rest) = 16 /\ \A i \in 1 .. 16 : rest[i] = header[65 + i - 1]
    <3>1. PICK a \in Nat, b \in Nat : a = 65 /\ b = 80
      OBVIOUS
    <3>2. 1 <= a /\ a <= b /\ b <= Len(header)
      BY <1>1, <3>1
    <3>3. header \in Strings
      BY <1>1
    <3>4. IsPart(rest, header, a, b)
      <4>1. IsPart(SubSeq(header, a, b), header, a, b)
        BY <3>2, <3>3, Part, Zenon
      <4> QED
        BY <3>1, <4>1
    <3> HIDE DEF rest
    <3> QED
      BY <3>1, <3>4 DEF IsPart
  <2>2. \A i \in 1 .. 16 : 65 + i - 1 = 64 + i
    OBVIOUS
  <2> HIDE DEF rest
  <2> QED
    BY <2>1, <2>2
<1> HIDE DEF whole, rest
<1>4. whole \in Strings /\ Len(whole) = 80
  <2>1. 80 \in Nat
    OBVIOUS
  <2> QED
    BY <1>2a, <2>1, SequenceOf, Zenon DEF Strings
<1>5. Padding \in Strings /\ Len(Padding) = 48
  BY PaddingFacts
<1>6. /\ padded \in Strings /\ Len(padded) = 128
      /\ \A i \in 1 .. 128 : padded[i] = IF i <= 80 THEN whole[i] ELSE Padding[i - 80]
  <2>1. PICK m \in Nat, n \in Nat : m = 80 /\ n = 48
    OBVIOUS
  <2>2. IsOf(whole, Nat, m) /\ IsOf(Padding, Nat, n)
    BY <1>4, <1>5, <2>1, Zenon DEF IsOf, Strings
  <2>3. IsOf(padded, Nat, m + n) /\ Follows(padded, whole, m, Padding, n)
    BY <2>2, Concatenated, Zenon
  <2> HIDE DEF padded
  <2> QED
    BY <2>1, <2>3 DEF IsOf, Follows, Strings
<1>7. /\ tail \in Strings /\ Len(tail) = 64
      /\ \A i \in 1 .. 64 : tail[i] = IF i <= 16 THEN rest[i] ELSE Padding[i - 16]
  <2>1. PICK m \in Nat, n \in Nat : m = 16 /\ n = 48
    OBVIOUS
  <2>2. IsOf(rest, Nat, m) /\ IsOf(Padding, Nat, n)
    BY <1>3, <1>5, <2>1, Zenon DEF IsOf, Strings
  <2>3. IsOf(tail, Nat, m + n) /\ Follows(tail, rest, m, Padding, n)
    BY <2>2, Concatenated, Zenon
  <2> HIDE DEF tail
  <2> QED
    BY <2>1, <2>3 DEF IsOf, Follows, Strings
<1>8. Header!Pad(whole) = padded
  <2>1. (56 - (80 + 1)) % 64 = 39
    BY Gap
  <2>2. Header!Pad(whole)
          = ((whole \o <<128>>) \o Header!Zeros(39)) \o Header!BitLength(80)
    BY <1>4, <2>1 DEF Header!Pad, Header!BLOCK
  <2> QED
    BY <1>4, <2>2, PaddingFacts
<1> HIDE DEF padded, tail
<1>9. SubSeq(padded, 1, 64) = SubSeq(header, 1, 64)
  <2> DEFINE s == SubSeq(padded, 1, 64)
             t == SubSeq(header, 1, 64)
  <2>1. s \in Strings /\ Len(s) = 64 /\ \A i \in 1 .. 64 : s[i] = padded[1 + i - 1]
    <3>1. PICK a \in Nat, b \in Nat : a = 1 /\ b = 64
      OBVIOUS
    <3>2. 1 <= a /\ a <= b /\ b <= Len(padded)
      BY <1>6, <3>1
    <3>3. padded \in Strings
      BY <1>6
    <3>4. IsPart(s, padded, a, b)
      <4>1. IsPart(SubSeq(padded, a, b), padded, a, b)
        BY <3>2, <3>3, Part, Zenon
      <4> QED
        BY <3>1, <4>1
    <3> HIDE DEF s
    <3> QED
      BY <3>1, <3>4 DEF IsPart
  <2>2. t \in Strings /\ Len(t) = 64 /\ \A i \in 1 .. 64 : t[i] = header[1 + i - 1]
    <3>1. PICK a \in Nat, b \in Nat : a = 1 /\ b = 64
      OBVIOUS
    <3>2. 1 <= a /\ a <= b /\ b <= Len(header)
      BY <1>1, <3>1
    <3>3. header \in Strings
      BY <1>1
    <3>4. IsPart(t, header, a, b)
      <4>1. IsPart(SubSeq(header, a, b), header, a, b)
        BY <3>2, <3>3, Part, Zenon
      <4> QED
        BY <3>1, <4>1
    <3> HIDE DEF t
    <3> QED
      BY <3>1, <3>4 DEF IsPart
  <2> HIDE DEF s, t
  <2>3. ASSUME NEW i \in 1 .. 64 PROVE s[i] = t[i]
    <3>1. /\ 1 + i - 1 = i /\ i \in 1 .. 128 /\ i \in 1 .. 80
          /\ i <= 80 /\ ~(i - 76 \in 1 .. 4)
      OBVIOUS
    <3> QED
      BY <1>2, <1>6, <2>1, <2>2, <3>1
  <2>5. s = t
    BY <2>1, <2>2, <2>3, SeqEqual DEF Strings
  <2> QED
    BY <2>5 DEF s, t
<1>10. SubSeq(padded, 65, 128) = patched
  <2> DEFINE s == SubSeq(padded, 65, 128)
  <2>1. s \in Strings /\ Len(s) = 64 /\ \A i \in 1 .. 64 : s[i] = padded[65 + i - 1]
    <3>1. PICK a \in Nat, b \in Nat : a = 65 /\ b = 128
      OBVIOUS
    <3>2. 1 <= a /\ a <= b /\ b <= Len(padded)
      BY <1>6, <3>1
    <3>3. padded \in Strings
      BY <1>6
    <3>4. IsPart(s, padded, a, b)
      <4>1. IsPart(SubSeq(padded, a, b), padded, a, b)
        BY <3>2, <3>3, Part, Zenon
      <4> QED
        BY <3>1, <4>1
    <3> HIDE DEF s
    <3> QED
      BY <3>1, <3>4 DEF IsPart
  <2>2. /\ DOMAIN patched = 1 .. 64
        /\ \A i \in 1 .. 64 : patched[i] = IF i - 12 \in 1 .. 4 THEN nonce[i - 12] ELSE tail[i]
    <3>1. DOMAIN tail = 1 .. 64
      BY <1>7 DEF Strings
    <3> QED
      BY <3>1 DEF Header!WithBytes
  <2>3. patched = [i \in 1 .. 64 |-> patched[i]]
    <3>1. DOMAIN tail = 1 .. 64
      BY <1>7 DEF Strings
    <3> QED
      BY <3>1 DEF Header!WithBytes
  <2> HIDE DEF s, patched
  <2>4. ASSUME NEW i \in 1 .. 64 PROVE s[i] = patched[i]
    <3>1. /\ 65 + i - 1 = 64 + i /\ 64 + i \in 1 .. 128
          /\ (64 + i) - 76 = i - 12 /\ (64 + i) - 80 = i - 16 /\ (64 + i <= 80 <=> i <= 16)
      OBVIOUS
    <3>2. s[i] = IF i <= 16 THEN whole[64 + i] ELSE Padding[i - 16]
      BY <1>6, <2>1, <3>1
    <3>3. CASE i <= 16
      <4>1. 64 + i \in 1 .. 80 /\ i \in 1 .. 16
        BY <3>3
      <4>2. whole[64 + i] = IF i - 12 \in 1 .. 4 THEN nonce[i - 12] ELSE header[64 + i]
        BY <1>2, <3>1, <4>1
      <4>3. tail[i] = header[64 + i]
        BY <1>3, <1>7, <3>3, <4>1
      <4> QED
        BY <2>2, <3>2, <3>3, <4>2, <4>3
    <3>4. CASE ~(i <= 16)
      <4>1. ~(i - 12 \in 1 .. 4)
        BY <3>4
      <4>2. tail[i] = Padding[i - 16]
        BY <1>7, <3>4
      <4> QED
        BY <2>2, <3>2, <3>4, <4>1, <4>2
    <3> QED
      BY <3>3, <3>4
  <2>5. s \in Seq(Nat) /\ Len(s) = 64
    BY <2>1 DEF Strings
  <2>6. s = [i \in 1 .. 64 |-> s[i]]
    BY <2>5
  <2>7. [i \in 1 .. 64 |-> s[i]] = [i \in 1 .. 64 |-> patched[i]]
    BY <2>4
  <2>8. s = patched
    BY <2>3, <2>6, <2>7, Zenon
  <2> QED
    BY <2>8 DEF s
<1>11. Header!Sha256(whole) = Header!Digest(first)
  <2> HIDE DEF patched
  <2>1. Header!Sha256(whole)
          = Header!Digest(Header!Compress(Header!Compress(Header!H0, SubSeq(padded, 1, 64)),
                                          SubSeq(padded, 65, 128)))
    BY <1>6, <1>8, Absorbed
  <2> QED
    BY <1>9, <1>10, <2>1
<1>12. /\ Header!New(header).midstate = midstate
       /\ Header!New(header).tail = tail
  <2>1. rest \o Padding
          = ((rest \o <<128>>) \o Header!Zeros(39)) \o Header!BitLength(80)
    BY <1>3, PaddingFacts
  <2>2. Header!New(header)
          = [midstate |-> midstate,
             tail |-> ((rest \o <<128>>) \o Header!Zeros(39)) \o Header!BitLength(80)]
    <3>1. 64 + 1 = 65
      OBVIOUS
    <3> QED
      BY <3>1 DEF Header!New, Header!BLOCK, Header!HEADER_SIZE, rest
  <2>3. Header!New(header) = [midstate |-> midstate, tail |-> tail]
    BY <2>1, <2>2, Zenon DEF tail
  <2> HIDE DEF midstate, tail
  <2> QED
    BY <2>3
<1>13. Header!HashNonce(Header!New(header), nonce) = Header!SecondHash(first)
  BY <1>12 DEF Header!HashNonce, Header!NONCE_IN_TAIL, Header!NONCE_OFFSET, Header!BLOCK
<1> HIDE DEF first
<1>14. Header!Sha256d(whole) = Header!SecondHash(first)
  BY <1>11, SecondIsSha256 DEF Header!Sha256d
<1> QED
  BY <1>13, <1>14 DEF Header!MidstateIsShortcut, Header!NONCE_OFFSET, whole

-----------------------------------------------------------------------------
(* Pushes.                                                                 *)

\* The opcode and what follows it say where the data begins and how long it is.
LEMMA Announces ==
  ASSUME NEW n \in 0 .. 520, NEW script, NEW op, op = Scripts!PushOpcode(n),
         \A i \in 1 .. Len(op) : script[i] = op[i]
  PROVE  /\ op \in Strings /\ Len(op) \in 1 .. 3
         /\ Scripts!Pushed(script) = SubSeq(script, Len(op) + 1, Len(op) + n)
<1> DEFINE Body ==
      CASE script[1] <= 75 -> [first |-> 2, length |-> script[1]]
        [] script[1] = 76 -> [first |-> 3, length |-> script[2]]
        [] script[1] = 77 -> [first |-> 4, length |-> script[2] + 256 * script[3]]
           small == n <= 75
           medium == n \in 76 .. 255
           large == n \in 256 .. 520
<1>0. /\ small => ~medium /\ ~large
      /\ medium => ~small /\ ~large
      /\ large => ~small /\ ~medium
      /\ small \/ medium \/ large
  OBVIOUS
<1>5. op = CASE small -> <<n>>
             [] medium -> <<76, n>>
             [] large -> <<77, n % 256, n \div 256>>
  BY DEF Scripts!PushOpcode, Scripts!OP_PUSHDATA1, Scripts!OP_PUSHDATA2,
         Scripts!MAX_SCRIPT_ELEMENT
<1> HIDE DEF small, medium, large
<1>1. Scripts!Pushed(script) = SubSeq(script, Body.first, Body.first + Body.length - 1)
  BY DEF Scripts!Pushed, Scripts!OP_PUSHDATA1, Scripts!OP_PUSHDATA2
<1>2. CASE small
  <2>1. op = <<n>>
    BY <1>0, <1>2, <1>5
  <2>2. op \in Strings /\ Len(op) = 1 /\ script[1] = n
    BY <2>1 DEF Strings
  <2>3. Body = [first |-> 2, length |-> n]
    BY <1>2, <2>2 DEF small
  <2> HIDE DEF Body
  <2>4. Body.first = Len(op) + 1 /\ Body.first + Body.length - 1 = Len(op) + n
    BY <2>2, <2>3
  <2>5. Scripts!Pushed(script) = SubSeq(script, Len(op) + 1, Len(op) + n)
    BY <1>1, <2>4, Zenon
  <2> QED
    BY <2>2, <2>5
<1>3. CASE medium
  <2>1. op = <<76, n>>
    BY <1>0, <1>3, <1>5
  <2>2. op \in Strings /\ Len(op) = 2 /\ script[1] = 76 /\ script[2] = n
    BY <2>1 DEF Strings
  <2>3. Body = [first |-> 3, length |-> n]
    BY <2>2
  <2> HIDE DEF Body
  <2>4. Body.first = Len(op) + 1 /\ Body.first + Body.length - 1 = Len(op) + n
    BY <2>2, <2>3
  <2>5. Scripts!Pushed(script) = SubSeq(script, Len(op) + 1, Len(op) + n)
    BY <1>1, <2>4, Zenon
  <2> QED
    BY <2>2, <2>5
<1>4. CASE large
  <2>1. op = <<77, n % 256, n \div 256>>
    BY <1>0, <1>4, <1>5
  <2>2. n % 256 \in Nat /\ n \div 256 \in Nat /\ (n % 256) + 256 * (n \div 256) = n
    <3>1. PICK x \in Nat : x = n
      OBVIOUS
    <3>2. x % 256 \in Nat /\ x \div 256 \in Nat /\ (x % 256) + 256 * (x \div 256) = x
      OBVIOUS
    <3> QED
      BY <3>1, <3>2
  <2>3. op \in Strings /\ Len(op) = 3 /\ script[1] = 77 /\ script[2] = n % 256 /\ script[3] = n \div 256
    BY <2>1, <2>2 DEF Strings
  <2>4. Body = [first |-> 4, length |-> n]
    BY <2>2, <2>3
  <2> HIDE DEF Body
  <2>5. Body.first = Len(op) + 1 /\ Body.first + Body.length - 1 = Len(op) + n
    BY <2>3, <2>4
  <2> QED
    BY <1>1, <2>3, <2>5
<1> QED
  BY <1>0, <1>2, <1>3, <1>4

\* A push gives back the data, any that the panic in push_data lets through, whatever
\* comes after it: the three forms meet at 75 and 255 bytes (script.rs:14-18).
THEOREM PushGivesDataBack ==
  ASSUME NEW data \in Strings, Len(data) <= 520, NEW rest \in Strings
  PROVE  Scripts!Pushed(Scripts!PushData(data) \o rest) = data
<1> DEFINE n == Len(data)
           op == Scripts!PushOpcode(n)
           script == (op \o data) \o rest
<1>1. n \in 0 .. 520
  <2>1. PICK m \in Nat : m = Len(data)
    BY DEF Strings
  <2>2. m <= 520
    BY <2>1, Zenon
  <2>3. m \in 0 .. 520
    BY <2>2
  <2> QED
    BY <2>1, <2>3, Zenon
<1>2. Scripts!PushData(data) \o rest = script
  BY DEF Scripts!PushData
<1>3. op \in Strings /\ Len(op) \in 1 .. 3
  <2> HIDE DEF op, n
  <2> DEFINE s == op
  <2>1. \A i \in 1 .. Len(op) : s[i] = op[i]
    OBVIOUS
  <2> QED
    BY <1>1, <2>1, Announces DEF op
<1> HIDE DEF op
<1>4. \A i \in 1 .. Len(op) : script[i] = op[i]
  <2>1. op \o data \in Strings /\ \A i \in 1 .. Len(op) : (op \o data)[i] = op[i]
    BY <1>3, ConcatProperties DEF Strings
  <2>2. Len(op \o data) = Len(op) + Len(data) /\ Len(data) \in Nat /\ Len(op) \in Nat
    BY <1>3, Joins
  <2>3. \A i \in 1 .. Len(op \o data) : script[i] = (op \o data)[i]
    <3> DEFINE front == op \o data
    <3>1. front \in Strings
      BY <2>1
    <3> HIDE DEF front
    <3>2. \A i \in 1 .. Len(front) : (front \o rest)[i] = front[i]
      BY <3>1, ConcatProperties DEF Strings
    <3> QED
      BY <3>2 DEF front
  <2>4. \A i \in 1 .. Len(op) : i \in 1 .. Len(op \o data)
    BY <2>2
  <2> QED
    BY <2>1, <2>3, <2>4, Zenon
<1>5. Scripts!Pushed(script) = SubSeq(script, Len(op) + 1, Len(op) + n)
  <2> HIDE DEF script, n
  <2> QED
    BY <1>1, <1>4, Announces DEF op
<1>6. SubSeq(script, Len(op) + 1, Len(op) + n) = data
  <2>1. CASE data = <<>>
    <3>1. n = 0 /\ Len(op) \in Int
      BY <1>3, <2>1
    <3> HIDE DEF script, n
    <3>2. SubSeq(script, Len(op) + 1, Len(op) + n) = <<>>
      BY <3>1, SubSeqEmpty
    <3> QED
      BY <2>1, <3>2
  <2>2. CASE data # <<>>
    <3>1. CutAt(script, op, data, rest)
      BY <1>3, <2>2, Cuts
    <3> HIDE DEF script
    <3> QED
      BY <3>1 DEF CutAt
  <2> QED
    BY <2>1, <2>2
<1> QED
  BY <1>2, <1>5, <1>6

-----------------------------------------------------------------------------
(* Induction over what has a rank, and functions that a loop or a descent  *)
(* defines.                                                                *)

\* Induction over anything that has a rank.
\* It holds of what it holds of everything lower.
Inherits(D, rank, S) == \A x \in D : (\A y \in D : rank[y] < rank[x] => y \in S) => x \in S

LEMMA RankInduction ==
  ASSUME NEW D, NEW rank \in [D -> Nat], NEW S,
         \A x \in D : (\A y \in D : rank[y] < rank[x] => y \in S) => x \in S
  PROVE  \A x \in D : x \in S
<1> SUFFICES ASSUME NEW z \in D, z \notin S PROVE FALSE
  OBVIOUS
<1> DEFINE Ranks == {rank[x] : x \in {y \in D : y \notin S}}
<1>1. Ranks \in SUBSET Nat /\ rank[z] \in Ranks
  OBVIOUS
<1>2. PICK n \in Ranks : \A m \in Ranks : n <= m
  <2> HIDE DEF Ranks
  <2>1. Ranks # {}
    BY <1>1
  <2> QED
    BY <1>1, <2>1, Least
<1>3. PICK x \in D : x \notin S /\ rank[x] = n
  OBVIOUS
<1>4. ASSUME NEW y \in D, rank[y] < rank[x] PROVE y \in S
  <2>1. y \notin S => rank[y] \in Ranks
    OBVIOUS
  <2>2. rank[y] \in Nat /\ rank[x] \in Nat
    OBVIOUS
  <2> HIDE DEF Ranks
  <2> QED
    BY <1>2, <1>3, <1>4, <2>1, <2>2
<1> QED
  BY <1>3, <1>4

LEMMA InheritedByAll ==
  ASSUME NEW D, NEW rank \in [D -> Nat], NEW S, Inherits(D, rank, S)
  PROVE  \A x \in D : x \in S
BY RankInduction, Zenon DEF Inherits

\* A function whose value at a place is given, or made from its value at a place of
\* lower rank.
Descended(f, D, base, start, down, step) ==
  \A x \in D : f[x] = IF x \in base THEN start[x] ELSE step[<<x, f[down[x]]>>]

LEMMA Descends ==
  ASSUME NEW D, NEW V, NEW rank \in [D -> Nat], NEW base, NEW start \in [D -> V],
         NEW down \in [D -> D], NEW step \in [D \X V -> V],
         \A x \in D : x \notin base => rank[down[x]] < rank[x]
  PROVE  \E f \in [D -> V] : Descended(f, D, base, start, down, step)
<1> DEFINE Extended(g) == [x \in D |-> IF x \in base THEN start[x] ELSE step[<<x, g[down[x]]>>]]
           next == [s \in Nat \X [D -> V] |-> Extended(s[2])]
<1>1. ASSUME NEW g \in [D -> V] PROVE Extended(g) \in [D -> V]
  <2>1. ASSUME NEW x \in D PROVE start[x] \in V /\ step[<<x, g[down[x]]>>] \in V
    OBVIOUS
  <2> QED
    BY <2>1
<1>2. next \in [Nat \X [D -> V] -> [D -> V]]
      /\ \A n \in Nat, g \in [D -> V] : next[<<n, g>>] = Extended(g)
  <2> HIDE DEF Extended
  <2> QED
    BY <1>1
<1> HIDE DEF next
<1>3. PICK F \in [Nat -> [D -> V]] : Iterated(F, start, next)
  BY <1>2, Iterates, Zenon
<1>4. ASSUME NEW n \in Nat PROVE F[n + 1] = Extended(F[n])
  <2>1. F[n + 1] = next[<<n, F[n]>>] /\ F[n] \in [D -> V]
    BY <1>3 DEF Iterated
  <2> HIDE DEF Extended
  <2> QED
    BY <1>2, <2>1
<1>5. ASSUME NEW n \in Nat, NEW x \in D
      PROVE  F[n + 1][x] = IF x \in base THEN start[x] ELSE step[<<x, F[n][down[x]]>>]
  BY <1>4
\* After as many steps as its rank, a place keeps its value.
<1> DEFINE Settled(n) == \A x \in D : rank[x] < n => F[n + 1][x] = F[n][x]
           S == {n \in Nat : Settled(n)}
<1>6. ASSUME NEW n \in Nat PROVE Settled(n)
  <2>1. 0 \in S
    OBVIOUS
  <2>2. ASSUME NEW m \in Nat, m \in S PROVE m + 1 \in S
    <3> SUFFICES ASSUME NEW x \in D, rank[x] < m + 1 PROVE F[(m + 1) + 1][x] = F[m + 1][x]
      OBVIOUS
    <3>1. CASE x \in base
      <4>1. m + 1 \in Nat
        OBVIOUS
      <4>2. F[(m + 1) + 1][x] = start[x]
        BY <1>5, <3>1, <4>1
      <4>3. F[m + 1][x] = start[x]
        BY <1>5, <3>1
      <4> QED
        BY <4>2, <4>3
    <3>2. CASE x \notin base
      <4>1. rank[down[x]] < rank[x] /\ rank[down[x]] \in Nat /\ rank[x] \in Nat /\ down[x] \in D
        BY <3>2
      <4>2. rank[down[x]] < m /\ m + 1 \in Nat
        BY <4>1
      <4>3. F[m + 1][down[x]] = F[m][down[x]]
        BY <2>2, <4>1, <4>2
      <4>4. F[(m + 1) + 1][x] = step[<<x, F[m + 1][down[x]]>>]
        BY <1>5, <3>2, <4>2
      <4>5. F[m + 1][x] = step[<<x, F[m][down[x]]>>]
        BY <1>5, <3>2
      <4> QED
        BY <4>3, <4>4, <4>5
    <3> QED
      BY <3>1, <3>2
  <2> HIDE DEF S
  <2>3. n \in S
    BY <2>1, <2>2, Induction
  <2> QED
    BY <2>3 DEF S
<1>7. ASSUME NEW x \in D, NEW n \in Nat, rank[x] < n PROVE F[n][x] = F[rank[x] + 1][x]
  <2> DEFINE T == {k \in Nat : F[(rank[x] + 1) + k][x] = F[rank[x] + 1][x]}
  <2>1. rank[x] \in Nat
    OBVIOUS
  <2>2. 0 \in T
    BY <2>1
  <2>3. ASSUME NEW k \in Nat, k \in T PROVE k + 1 \in T
    <3>1. (rank[x] + 1) + k \in Nat /\ rank[x] < (rank[x] + 1) + k
          /\ (rank[x] + 1) + (k + 1) = ((rank[x] + 1) + k) + 1
      BY <2>1
    <3>2. F[((rank[x] + 1) + k) + 1][x] = F[(rank[x] + 1) + k][x]
      <4> HIDE DEF T
      <4> QED
        BY <1>6, <3>1
    <3> QED
      BY <2>3, <3>1, <3>2
  <2> HIDE DEF T
  <2>4. \A k \in Nat : k \in T
    BY <2>2, <2>3, Induction
  <2>5. n - (rank[x] + 1) \in Nat /\ (rank[x] + 1) + (n - (rank[x] + 1)) = n
    BY <1>7, <2>1
  <2> QED
    BY <2>4, <2>5 DEF T
<1> DEFINE f == [x \in D |-> F[rank[x] + 1][x]]
<1>8. f \in [D -> V]
  <2>1. ASSUME NEW x \in D PROVE F[rank[x] + 1][x] \in V
    <3>1. rank[x] + 1 \in Nat
      OBVIOUS
    <3> QED
      BY <3>1
  <2> QED
    BY <2>1
<1>9. ASSUME NEW x \in D PROVE f[x] = IF x \in base THEN start[x] ELSE step[<<x, f[down[x]]>>]
  <2>1. rank[x] \in Nat /\ down[x] \in D
    OBVIOUS
  <2>2. f[x] = F[rank[x] + 1][x] /\ f[down[x]] = F[rank[down[x]] + 1][down[x]]
    BY <2>1
  <2>3. F[rank[x] + 1][x] = IF x \in base THEN start[x] ELSE step[<<x, F[rank[x]][down[x]]>>]
    BY <1>5, <2>1
  <2>4. x \notin base => F[rank[x]][down[x]] = F[rank[down[x]] + 1][down[x]]
    BY <1>7, <2>1
  <2> HIDE DEF f
  <2> QED
    BY <2>2, <2>3, <2>4
<1> QED
  <2> HIDE DEF f
  <2> QED
    BY <1>8, <1>9 DEF Descended

\* A function on the first numbers, as a loop fills it.
Filled(f, m, start, step) == f[0] = start /\ \A n \in 1 .. m : f[n] = step[<<n, f[n - 1]>>]

LEMMA Fills ==
  ASSUME NEW m \in Nat, NEW V, NEW start \in V, NEW step \in [(1 .. m) \X V -> V]
  PROVE  \E f \in [0 .. m -> V] : Filled(f, m, start, step)
<1> DEFINE D == 0 .. m
           rank == [n \in D |-> n]
           down == [n \in D |-> IF n = 0 THEN 0 ELSE n - 1]
           starts == [n \in D |-> start]
           steps == [s \in D \X V |-> IF s[1] = 0 THEN start ELSE step[s]]
<1>1. rank \in [D -> Nat] /\ down \in [D -> D] /\ starts \in [D -> V]
  OBVIOUS
<1>2. steps \in [D \X V -> V] /\ \A n \in 1 .. m, x \in V : steps[<<n, x>>] = step[<<n, x>>]
  <2>1. ASSUME NEW n \in D, NEW x \in V, n # 0 PROVE step[<<n, x>>] \in V
    <3>1. n \in 1 .. m
      BY <2>1
    <3> QED
      BY <3>1
  <2>2. ASSUME NEW s \in D \X V PROVE (IF s[1] = 0 THEN start ELSE step[s]) \in V
    <3>1. PICK n \in D, x \in V : s = <<n, x>>
      OBVIOUS
    <3> QED
      BY <2>1, <3>1
  <2>3. \A n \in 1 .. m : n \in D /\ n # 0
    OBVIOUS
  <2> HIDE DEF D
  <2> QED
    BY <2>2, <2>3
<1>3. \A n \in D : n \notin {0} => rank[down[n]] < rank[n]
  OBVIOUS
<1>4. PICK f \in [D -> V] : Descended(f, D, {0}, starts, down, steps)
  <2> HIDE DEF D, rank, down, starts, steps
  <2> QED
    BY <1>1, <1>2, <1>3, Descends
<1>5. f[0] = start
  <2>1. 0 \in D /\ 0 \in {0} /\ starts[0] = start
    OBVIOUS
  <2> HIDE DEF D, down, steps, starts
  <2> QED
    BY <1>4, <2>1 DEF Descended
<1>6. ASSUME NEW n \in 1 .. m PROVE f[n] = step[<<n, f[n - 1]>>]
  <2>1. n \in D /\ n \notin {0} /\ down[n] = n - 1 /\ n - 1 \in D
    OBVIOUS
  <2> HIDE DEF D, down, steps, starts
  <2>2. f[n] = steps[<<n, f[n - 1]>>] /\ f[n - 1] \in V
    BY <1>4, <2>1 DEF Descended
  <2> QED
    BY <1>2, <2>2
<1> QED
  BY <1>5, <1>6 DEF Filled

-----------------------------------------------------------------------------
(* Script numbers: the bytes of a magnitude and its sign, read back.       *)

\* A byte put in front of a string.
LEMMA Prepended ==
  ASSUME NEW b \in Nat, NEW s \in Strings
  PROVE  /\ <<b>> \o s \in Strings /\ Len(<<b>> \o s) = Len(s) + 1
         /\ (<<b>> \o s)[1] = b
         /\ \A i \in 1 .. Len(s) : (<<b>> \o s)[i + 1] = s[i]
<1>1. <<b>> \in Seq(Nat) /\ Len(<<b>>) = 1 /\ <<b>>[1] = b /\ s \in Seq(Nat) /\ Len(s) \in Nat
  BY DEF Strings
<1>2. /\ <<b>> \o s \in Seq(Nat)
      /\ Len(<<b>> \o s) = Len(<<b>>) + Len(s)
      /\ \A i \in 1 .. Len(<<b>>) + Len(s) :
           (<<b>> \o s)[i] = IF i <= Len(<<b>>) THEN <<b>>[i] ELSE s[i - Len(<<b>>)]
  BY <1>1, ConcatProperties
<1> DEFINE whole == <<b>> \o s
<1> HIDE DEF whole
<1>3. whole \in Seq(Nat) /\ Len(whole) = 1 + Len(s)
      /\ \A i \in 1 .. 1 + Len(s) : whole[i] = IF i <= 1 THEN <<b>>[i] ELSE s[i - 1]
  BY <1>1, <1>2 DEF whole
<1>4. whole[1] = b
  BY <1>1, <1>3
<1>5. ASSUME NEW i \in 1 .. Len(s) PROVE whole[i + 1] = s[i]
  <2>1. i + 1 \in 1 .. 1 + Len(s) /\ ~(i + 1 <= 1) /\ (i + 1) - 1 = i
    BY <1>1
  <2> QED
    BY <1>3, <2>1
<1> QED
  BY <1>1, <1>3, <1>4, <1>5 DEF Strings, whole

\* The digits of a number, least significant first, and the number they stand for.
LEMMA MagnitudeFacts ==
  \E digits \in [Nat -> Strings] :
    /\ digits[0] = <<>>
    /\ \A n \in Nat \ {0} : digits[n] = <<n % 256>> \o digits[n \div 256]
    /\ \A n \in Nat : Scripts!Magnitude(n) = digits[n]
<1> DEFINE Defines(f) == f = [n \in Nat |-> IF n = 0 THEN <<>> ELSE <<n % 256>> \o f[n \div 256]]
           digits == CHOOSE f : Defines(f)
           rank == [n \in Nat |-> n]
           down == [n \in Nat |-> n \div 256]
           start == [n \in Nat |-> <<>>]
           step == [s \in Nat \X Strings |-> <<s[1] % 256>> \o s[2]]
<1>1. \A n \in Nat : Scripts!Magnitude(n) = digits[n]
  BY DEF Scripts!Magnitude
<1>2. \A n \in Nat : n % 256 \in Nat /\ n \div 256 \in Nat /\ (n # 0 => n \div 256 < n)
  OBVIOUS
<1>3. rank \in [Nat -> Nat] /\ down \in [Nat -> Nat] /\ start \in [Nat -> Strings]
  BY <1>2 DEF Strings
<1>4. step \in [Nat \X Strings -> Strings]
      /\ \A n \in Nat, s \in Strings : step[<<n, s>>] = <<n % 256>> \o s
  <2>1. \A n \in Nat, s \in Strings : <<n % 256>> \o s \in Strings
    BY <1>2, Prepended
  <2> QED
    BY <2>1
<1>5. \A n \in Nat : n \notin {0} => rank[down[n]] < rank[n]
  BY <1>2
<1>6. PICK f \in [Nat -> Strings] : Descended(f, Nat, {0}, start, down, step)
  <2> HIDE DEF rank, down, start, step
  <2> QED
    BY <1>3, <1>4, <1>5, Descends
<1>7. /\ f[0] = <<>>
      /\ \A n \in Nat \ {0} : f[n] = <<n % 256>> \o f[n \div 256]
  <2>1. f[0] = start[0] /\ start[0] = <<>>
    <3>1. 0 \in Nat /\ 0 \in {0} /\ start[0] = <<>>
      OBVIOUS
    <3> HIDE DEF start, step, down
    <3> QED
      BY <1>6, <3>1 DEF Descended
  <2>2. ASSUME NEW n \in Nat \ {0} PROVE f[n] = <<n % 256>> \o f[n \div 256]
    <3>1. n \in Nat /\ n \notin {0} /\ down[n] = n \div 256 /\ n \div 256 \in Nat
      BY <1>2
    <3> HIDE DEF start, step, down
    <3>2. f[n] = step[<<n, f[n \div 256]>>] /\ f[n \div 256] \in Strings
      BY <1>6, <3>1 DEF Descended
    <3>3. step[<<n, f[n \div 256]>>] = <<n % 256>> \o f[n \div 256]
      <4>1. \A s \in Strings : step[<<n, s>>] = <<n % 256>> \o s
        BY <1>4
      <4> QED
        BY <3>2, <4>1
    <3> QED
      BY <3>2, <3>3, Zenon
  <2> QED
    BY <2>1, <2>2
<1>8. Defines(f)
  <2>1. f = [n \in Nat |-> f[n]]
    OBVIOUS
  <2>2. \A n \in Nat : f[n] = IF n = 0 THEN <<>> ELSE <<n % 256>> \o f[n \div 256]
    BY <1>7
  <2>3. [n \in Nat |-> f[n]] = [n \in Nat |-> IF n = 0 THEN <<>> ELSE <<n % 256>> \o f[n \div 256]]
    BY <2>2
  <2> QED
    BY <2>1, <2>3
<1>9. Defines(digits)
  <2> HIDE DEF Defines
  <2> QED
    BY <1>8
<1>10. /\ digits[0] = <<>>
       /\ \A n \in Nat \ {0} : digits[n] = <<n % 256>> \o digits[n \div 256]
       /\ digits = [n \in Nat |-> digits[n]]
  <2> HIDE DEF digits
  <2> QED
    BY <1>9
<1>11. \A n \in Nat : digits[n] \in Strings
  <2> DEFINE S == {n \in Nat : digits[n] \in Strings}
  <2>1. ASSUME NEW n \in Nat, \A m \in Nat : rank[m] < rank[n] => m \in S PROVE n \in S
    <3>1. CASE n = 0
      <4>1. <<>> \in Strings
        BY DEF Strings
      <4> HIDE DEF digits
      <4>2. digits[n] \in Strings
        BY <1>10, <3>1, <4>1
      <4> QED
        BY <4>2
    <3>2. CASE n # 0
      <4>1. n \div 256 \in Nat /\ n \div 256 < n /\ n % 256 \in Nat
        BY <1>2, <3>2
      <4>2. n \div 256 \in S
        <5>1. rank[n \div 256] < rank[n]
          BY <4>1
        <5> HIDE DEF S, rank
        <5> QED
          BY <2>1, <4>1, <5>1
      <4> HIDE DEF digits
      <4>3. <<n % 256>> \o digits[n \div 256] \in Strings
        BY <4>1, <4>2, Prepended
      <4> QED
        BY <1>10, <3>2, <4>3
    <3> QED
      BY <3>1, <3>2
  <2> HIDE DEF S, rank
  <2>2. \A n \in Nat : n \in S
    <3>1. rank \in [Nat -> Nat] /\ Inherits(Nat, rank, S)
      BY <1>3, <2>1, Zenon DEF Inherits
    <3> QED
      BY <3>1, InheritedByAll
  <2> QED
    BY <2>2 DEF S
<1> HIDE DEF digits
<1>12. digits \in [Nat -> Strings]
  BY <1>10, <1>11
<1> QED
  BY <1>1, <1>10, <1>12

\* The bytes of a number before its sign, from the last one down.
Weighs(v, data) ==
  /\ v \in [0 .. Len(data) - 1 -> Int]
  /\ v[0] = data[Len(data)] % 128
  /\ \A i \in 1 .. Len(data) - 1 : v[i] = data[Len(data) - i] + 256 * v[i - 1]

LEMMA NumberFacts ==
  ASSUME NEW data \in Strings, Len(data) > 0, data[Len(data)] < 128
  PROVE  \E v : Weighs(v, data) /\ Scripts!Number(data) = v[Len(data) - 1]
<1> DEFINE length == Len(data)
           m == length - 1
           Defines(f) == f = [i \in 0 .. m |->
                                IF i = 0 THEN data[length] % 128 ELSE data[length - i] + 256 * f[i - 1]]
           v == CHOOSE f : Defines(f)
           step == [s \in (1 .. m) \X Int |-> data[length - s[1]] + 256 * s[2]]
           start == data[length] % 128
<1>1. length \in Nat /\ m \in Nat /\ data \in [1 .. length -> Nat] /\ length \in 1 .. length
  BY DEF Strings
<1>2. Scripts!Number(data) = v[m]
  <2>1. length # 0 /\ ~(length > 0 /\ data[length] >= 128) /\ length > 0 /\ data[length] \in Nat
    BY <1>1
  <2> QED
    BY <2>1 DEF Scripts!Number
<1>3. start \in Int /\ data[length] \in Nat
  BY <1>1
<1>4. \A i \in 1 .. m : length - i \in 1 .. length /\ data[length - i] \in Int /\ i - 1 \in 0 .. m
      /\ i \in 0 .. m
  BY <1>1
<1>5. /\ step \in [(1 .. m) \X Int -> Int]
      /\ \A i \in 1 .. m, x \in Int : step[<<i, x>>] = data[length - i] + 256 * x
  <2> HIDE DEF length, m
  <2>1. \A i \in 1 .. m, x \in Int : data[length - i] + 256 * x \in Int
    BY <1>4
  <2> QED
    BY <2>1
<1>6. PICK f \in [0 .. m -> Int] : Filled(f, m, start, step)
  <2> HIDE DEF m, start, step
  <2> QED
    BY <1>1, <1>3, <1>5, Fills
<1>7. f[0] = start /\ \A i \in 1 .. m : f[i] = data[length - i] + 256 * f[i - 1]
  <2> HIDE DEF m, start, step, length
  <2>1. f[0] = start /\ \A i \in 1 .. m : f[i] = step[<<i, f[i - 1]>>]
    BY <1>6, Zenon DEF Filled
  <2>2. ASSUME NEW i \in 1 .. m PROVE f[i] = data[length - i] + 256 * f[i - 1]
    <3>1. f[i - 1] \in Int
      BY <1>4, <1>6
    <3>2. \A x \in Int : step[<<i, x>>] = data[length - i] + 256 * x
      BY <1>5
    <3>3. step[<<i, f[i - 1]>>] = data[length - i] + 256 * f[i - 1]
      BY <3>1, <3>2
    <3> QED
      BY <2>1, <3>3
  <2> QED
    BY <2>1, <2>2
<1>8. Defines(f)
  <2>1. f = [i \in 0 .. m |-> f[i]]
    OBVIOUS
  <2>2. \A i \in 0 .. m : i = 0 \/ i \in 1 .. m
    OBVIOUS
  <2> HIDE DEF m, length
  <2>3. \A i \in 0 .. m : f[i] = IF i = 0 THEN data[length] % 128 ELSE data[length - i] + 256 * f[i - 1]
    BY <1>7, <2>2
  <2> QED
    BY <2>1, <2>3
<1>9. Defines(v)
  <2> HIDE DEF Defines
  <2> QED
    BY <1>8
<1> HIDE DEF v
<1>10. v[0] = start /\ \A i \in 1 .. m : v[i] = data[length - i] + 256 * v[i - 1]
  <2>1. 0 \in 0 .. m /\ \A i \in 1 .. m : i # 0
    BY <1>1
  <2> HIDE DEF m, length
  <2> QED
    BY <1>4, <1>9, <2>1
<1>11. v \in [0 .. m -> Int]
  <2> DEFINE S == {i \in Nat : i <= m => v[i] \in Int}
  <2>1. 0 \in S
    BY <1>3, <1>10
  <2>2. ASSUME NEW i \in Nat, i \in S PROVE i + 1 \in S
    <3> SUFFICES ASSUME i + 1 <= m PROVE v[i + 1] \in Int
      OBVIOUS
    <3>1. i + 1 \in 1 .. m /\ (i + 1) - 1 = i /\ v[i] \in Int
      BY <1>1, <2>2
    <3> HIDE DEF m, length
    <3>2. v[i + 1] = data[length - (i + 1)] + 256 * v[i] /\ data[length - (i + 1)] \in Int
      BY <1>4, <1>10, <3>1
    <3> QED
      BY <3>1, <3>2
  <2> HIDE DEF S
  <2>3. \A i \in Nat : i \in S
    BY <2>1, <2>2, Induction
  <2>4. \A i \in 0 .. m : v[i] \in Int
    BY <1>1, <2>3 DEF S
  <2>5. v = [i \in 0 .. m |-> v[i]]
    BY <1>9
  <2> QED
    BY <2>4, <2>5
<1> QED
  BY <1>2, <1>10, <1>11 DEF Weighs

LEMMA NumberOfPrepended ==
  ASSUME NEW b \in Nat, NEW data \in Strings, Len(data) > 0, data[Len(data)] < 128
  PROVE  Scripts!Number(<<b>> \o data) = b + 256 * Scripts!Number(data)
<1> DEFINE whole == <<b>> \o data
           n == Len(data)
<1>1. /\ whole \in Strings /\ Len(whole) = n + 1 /\ whole[1] = b /\ n \in Nat /\ n > 0
      /\ \A i \in 1 .. n : whole[i + 1] = data[i] /\ data[i] \in Nat
  BY Prepended DEF Strings
<1> HIDE DEF whole, n
<1>2. whole[n + 1] = data[n] /\ n \in 1 .. n
  BY <1>1
<1>3. PICK v : Weighs(v, data) /\ Scripts!Number(data) = v[n - 1]
  BY NumberFacts DEF n
<1>4. PICK w : Weighs(w, whole) /\ Scripts!Number(whole) = w[(n + 1) - 1]
  <2>1. Len(whole) > 0 /\ whole[Len(whole)] < 128
    BY <1>1, <1>2 DEF n
  <2> QED
    BY <1>1, <2>1, NumberFacts
<1>5. /\ v \in [0 .. n - 1 -> Int] /\ v[0] = data[n] % 128
      /\ \A i \in 1 .. n - 1 : v[i] = data[n - i] + 256 * v[i - 1]
  BY <1>3 DEF Weighs, n
<1>6. /\ w[0] = whole[n + 1] % 128
      /\ \A i \in 1 .. n : w[i] = whole[(n + 1) - i] + 256 * w[i - 1]
  BY <1>1, <1>4 DEF Weighs
<1> DEFINE S == {i \in Nat : i <= n - 1 => w[i] = v[i]}
<1>7. 0 \in S
  BY <1>2, <1>5, <1>6
<1>8. ASSUME NEW i \in Nat, i \in S PROVE i + 1 \in S
  <2> SUFFICES ASSUME i + 1 <= n - 1 PROVE w[i + 1] = v[i + 1]
    OBVIOUS
  <2>1. i + 1 \in 1 .. n - 1 /\ i + 1 \in 1 .. n /\ (i + 1) - 1 = i /\ w[i] = v[i]
    BY <1>1, <1>8
  <2>2. n - (i + 1) \in 1 .. n /\ (n + 1) - (i + 1) = (n - (i + 1)) + 1
    BY <1>1, <2>1
  <2>3. whole[(n + 1) - (i + 1)] = data[n - (i + 1)]
    BY <1>1, <2>2
  <2> QED
    BY <1>5, <1>6, <2>1, <2>3
<1> HIDE DEF S
<1>9. w[n - 1] = v[n - 1]
  <2>1. n - 1 \in Nat
    BY <1>1
  <2>2. \A i \in Nat : i \in S
    BY <1>7, <1>8, Induction
  <2> QED
    BY <2>1, <2>2 DEF S
<1>10. w[n] = b + 256 * w[n - 1]
  BY <1>1, <1>2, <1>6
<1>11. (n + 1) - 1 = n
  BY <1>1
<1> QED
  BY <1>3, <1>4, <1>9, <1>10, <1>11 DEF whole

\* What a script number is to its reader.
IsNumber(data, n) ==
  /\ data \in Strings /\ Len(data) > 0 /\ data[Len(data)] < 128
  /\ Scripts!Number(data) = n

\* The numbers one byte holds, its top bit left for the sign.
Short == 0 .. 127

LEMMA OneByte ==
  ASSUME NEW n \in Short PROVE IsNumber(<<n>>, n)
<1> USE DEF Short
<1>1. <<n>> \in Strings /\ Len(<<n>>) = 1 /\ <<n>>[1] = n
  BY DEF Strings
<1>2. PICK v : Weighs(v, <<n>>) /\ Scripts!Number(<<n>>) = v[Len(<<n>>) - 1]
  BY <1>1, NumberFacts
<1>3. v[0] = n
  BY <1>1, <1>2 DEF Weighs
<1> QED
  BY <1>1, <1>2, <1>3 DEF IsNumber

LEMMA PrependedNumber ==
  ASSUME NEW b \in Nat, NEW n, NEW data, IsNumber(data, n)
  PROVE  IsNumber(<<b>> \o data, b + 256 * n)
<1>1. data \in Strings /\ Len(data) \in Nat /\ Len(data) > 0 /\ data[Len(data)] < 128
  BY DEF IsNumber, Strings
<1>2. /\ <<b>> \o data \in Strings /\ Len(<<b>> \o data) = Len(data) + 1
      /\ (<<b>> \o data)[Len(data) + 1] = data[Len(data)]
  BY <1>1, Prepended
<1>3. Scripts!Number(<<b>> \o data) = b + 256 * Scripts!Number(data)
  BY <1>1, NumberOfPrepended
<1> QED
  BY <1>1, <1>2, <1>3 DEF IsNumber

\* A byte in front changes neither the last byte nor, so, the need for a sign byte.
LEMMA LongerNumber ==
  ASSUME NEW n \in Nat, n >= 256
  PROVE  Scripts!EncodeScriptNumber(n)
           = <<n % 256>> \o Scripts!EncodeScriptNumber(n \div 256)
<1>1. PICK digits \in [Nat -> Strings] :
        /\ digits[0] = <<>>
        /\ \A m \in Nat \ {0} : digits[m] = <<m % 256>> \o digits[m \div 256]
        /\ \A m \in Nat : Scripts!Magnitude(m) = digits[m]
  BY MagnitudeFacts
<1> DEFINE q == n \div 256
           b == n % 256
<1>2. q \in Nat /\ q # 0 /\ n # 0 /\ b \in Nat
  OBVIOUS
<1>3. q \div 256 \in Nat /\ q % 256 \in Nat
  BY <1>2
<1> HIDE DEF q, b
<1>4. digits[n] = <<b>> \o digits[q] /\ digits[q] = <<q % 256>> \o digits[q \div 256]
  <2>1. n \in Nat \ {0} /\ q \in Nat \ {0}
    BY <1>2
  <2>2. digits[n] = <<n % 256>> \o digits[n \div 256]
    BY <1>1, <2>1, Zenon
  <2>3. digits[q] = <<q % 256>> \o digits[q \div 256]
    BY <1>1, <2>1, Zenon
  <2> QED
    BY <2>2, <2>3, Zenon DEF q, b
<1>5. Len(digits[q]) \in Nat /\ Len(digits[q]) > 0 /\ digits[q] \in Strings
  <2>1. digits[q \div 256] \in Strings /\ digits[q] \in Strings
    BY <1>1, <1>2, <1>3
  <2>2. Len(digits[q]) = Len(digits[q \div 256]) + 1
    BY <1>3, <1>4, <2>1, Prepended
  <2>3. Len(digits[q \div 256]) \in Nat
    BY <2>1 DEF Strings
  <2> QED
    BY <2>1, <2>2, <2>3
<1> DEFINE low == digits[q]
           m == Len(low)
<1> HIDE DEF low
<1>6. /\ digits[n] \in Strings /\ Len(digits[n]) = m + 1 /\ digits[n][m + 1] = low[m]
  BY <1>2, <1>4, <1>5, Prepended DEF low
<1>7. Scripts!Last(digits[n]) = Scripts!Last(low)
  BY <1>5, <1>6 DEF Scripts!Last, low
<1>8. low \in Strings /\ <<0>> \in Strings /\ <<b>> \in Strings
  BY <1>2, <1>5 DEF Strings, low
<1>9. (<<b>> \o low) \o <<0>> = <<b>> \o (low \o <<0>>)
  BY <1>8, Associative DEF Associates
<1>10. Scripts!Magnitude(n) = <<b>> \o low /\ Scripts!Magnitude(q) = low /\ digits[n] = <<b>> \o low
  BY <1>1, <1>2, <1>4 DEF low
<1> QED
  <2>1. Scripts!EncodeScriptNumber(n)
          = IF Scripts!Last(low) >= 128 THEN (<<b>> \o low) \o <<0>> ELSE <<b>> \o low
    BY <1>2, <1>7, <1>10 DEF Scripts!EncodeScriptNumber
  <2>2. Scripts!EncodeScriptNumber(q) = IF Scripts!Last(low) >= 128 THEN low \o <<0>> ELSE low
    BY <1>2, <1>10 DEF Scripts!EncodeScriptNumber
  <2>3. Scripts!EncodeScriptNumber(n) = <<b>> \o Scripts!EncodeScriptNumber(q)
    <3> HIDE DEF m
    <3> QED
      BY <1>9, <2>1, <2>2
  <2> QED
    BY <2>3 DEF q, b

\* Its script number is read back, and of at most k bytes.
Encodes(n, k) ==
  LET data == Scripts!EncodeScriptNumber(n) IN IsNumber(data, n) /\ Len(data) <= k

LEMMA ShortNumbers ==
  ASSUME NEW n \in 1 .. 255 PROVE Encodes(n, 2)
<1> DEFINE data == Scripts!EncodeScriptNumber(n)
<1>1. PICK digits \in [Nat -> Strings] :
        /\ digits[0] = <<>>
        /\ \A m \in Nat \ {0} : digits[m] = <<m % 256>> \o digits[m \div 256]
        /\ \A m \in Nat : Scripts!Magnitude(m) = digits[m]
  BY MagnitudeFacts
<1>2. n \in Nat \ {0} /\ n % 256 = n /\ n \div 256 = 0
  OBVIOUS
<1>3. Scripts!Magnitude(n) = <<n>>
  <2>1. digits[n] = <<n>> \o <<>>
    <3>1. digits[n] = <<n % 256>> \o digits[n \div 256]
      BY <1>1, <1>2
    <3> QED
      BY <1>1, <1>2, <3>1, Zenon
  <2>2. <<n>> \o <<>> = <<n>>
    OBVIOUS
  <2> QED
    BY <1>1, <1>2, <2>1, <2>2
<1>4. Scripts!Last(Scripts!Magnitude(n)) = n
  BY <1>3 DEF Scripts!Last
<1>5. CASE n < 128
  <2>1. data = <<n>>
    BY <1>2, <1>3, <1>4, <1>5 DEF Scripts!EncodeScriptNumber
  <2>2. n \in 0 .. 127 /\ Len(<<n>>) <= 2
    BY <1>5
  <2>3. IsNumber(<<n>>, n)
    <3>1. n \in Short
      BY <2>2 DEF Short
    <3> QED
      BY <3>1, OneByte
  <2>4. IsNumber(data, n) /\ Len(data) <= 2
    <3> HIDE DEF data
    <3> QED
      BY <2>1, <2>2, <2>3
  <2> QED
    BY <2>4 DEF Encodes
<1>6. CASE n >= 128
  <2>1. data = <<n>> \o <<0>>
    BY <1>2, <1>3, <1>4, <1>6 DEF Scripts!EncodeScriptNumber
  <2>2. IsNumber(<<0>>, 0)
    BY OneByte DEF Short
  <2>3. IsNumber(<<n>> \o <<0>>, n + 256 * 0)
    BY <1>2, <2>2, PrependedNumber
  <2>4. n + 256 * 0 = n /\ Len(<<n>> \o <<0>>) <= 2
    OBVIOUS
  <2> QED
    BY <2>1, <2>3, <2>4 DEF Encodes
<1> QED
  BY <1>5, <1>6

LEMMA LongerNumbers ==
  ASSUME NEW c \in Nat, c >= 256, NEW k \in Nat, \A m \in 1 .. c - 1 : Encodes(m, k), k >= 2
  PROVE  \A n \in 1 .. 256 * c - 1 : Encodes(n, k + 1)
<1> SUFFICES ASSUME NEW n \in 1 .. 256 * c - 1 PROVE Encodes(n, k + 1)
  OBVIOUS
<1>1. CASE n < 256
  <2>1. n \in 1 .. 255
    BY <1>1
  <2>2. Encodes(n, 2)
    BY <2>1, ShortNumbers
  <2>3. Len(Scripts!EncodeScriptNumber(n)) \in Nat
    BY <2>2 DEF Encodes, IsNumber, Strings
  <2> QED
    BY <2>2, <2>3 DEF Encodes
<1>2. CASE n >= 256
  <2> DEFINE q == n \div 256
             low == Scripts!EncodeScriptNumber(q)
  <2>1. n \in Nat /\ n % 256 \in Nat /\ q \in 1 .. c - 1 /\ (n % 256) + 256 * q = n
    BY <1>2
  <2> HIDE DEF q
  <2>2. Encodes(q, k)
    BY <2>1
  <2>3. Scripts!EncodeScriptNumber(n) = <<n % 256>> \o low
    BY <1>2, <2>1, LongerNumber DEF q
  <2>4. IsNumber(low, q) /\ low \in Strings /\ Len(low) \in Nat /\ Len(low) <= k
    BY <2>2 DEF Encodes, IsNumber, Strings
  <2> HIDE DEF low
  <2>5. IsNumber(<<n % 256>> \o low, (n % 256) + 256 * q)
    BY <2>1, <2>4, PrependedNumber
  <2>6. Len(<<n % 256>> \o low) = Len(low) + 1
    BY <2>1, <2>4, Prepended
  <2>7. Len(<<n % 256>> \o low) <= k + 1
    BY <2>4, <2>6
  <2> QED
    BY <2>1, <2>3, <2>5, <2>7 DEF Encodes
<1> QED
  BY <1>1, <1>2

LEMMA NumbersAreRead ==
  ASSUME NEW n, IsU32(n), n > 0 PROVE Encodes(n, 5)
<1>1. PICK c \in Nat : c = 256
  OBVIOUS
<1>2. c >= 256 /\ c * 1 >= 256 /\ c * c \in Nat /\ c * c >= 256 /\ c * (c * c) \in Nat
      /\ c * (c * c) >= 256
  BY <1>1, SMT
<1>3. \A m \in 1 .. c - 1 : Encodes(m, 2)
  BY <1>1, ShortNumbers, SMT
<1>4. \A m \in 1 .. 256 * c - 1 : Encodes(m, 2 + 1)
  BY <1>2, <1>3, LongerNumbers, SMT
<1>5. \A m \in 1 .. c * c - 1 : Encodes(m, 3)
  <2>1. 256 * c = c * c /\ 2 + 1 = 3
    BY <1>1, SMT
  <2> QED
    BY <1>4, <2>1, SMT
<1>6. \A m \in 1 .. 256 * (c * c) - 1 : Encodes(m, 3 + 1)
  BY <1>2, <1>5, LongerNumbers, SMT
<1>7. \A m \in 1 .. c * (c * c) - 1 : Encodes(m, 4)
  <2>1. 256 * (c * c) = c * (c * c) /\ 3 + 1 = 4
    BY <1>1, SMT
  <2> QED
    BY <1>6, <2>1, SMT
<1>8. \A m \in 1 .. 256 * (c * (c * c)) - 1 : Encodes(m, 4 + 1)
  BY <1>2, <1>7, LongerNumbers, SMT
<1>9. n \in 1 .. 256 * (c * (c * c)) - 1
  <2>1. c * c = 65536
    BY <1>1, SMT
  <2>2. 256 * (c * (c * c)) = 65536 * 65536
    BY <1>1, <2>1, SMT
  <2>3. n \in Nat /\ n < 65536 * 65536
    BY SMT DEF IsU32
  <2>4. n < 256 * (c * (c * c)) /\ 256 * (c * (c * c)) \in Nat
    BY <2>2, <2>3, SMT
  <2> HIDE <1>1
  <2> QED
    BY <2>3, <2>4, SMT
<1> QED
  BY <1>8, <1>9, SMT

\* Every height a u32 can hold is read back by consensus as itself, whatever follows it:
\* the small ones by their opcode, the others by their push (script.rs:64-78).
THEOREM HeightsAreRead ==
  ASSUME NEW height, IsU32(height)
  PROVE  Scripts!HeightIsRead(height)
<1> DEFINE script == Scripts!EncodeBlockHeight(height) \o <<128>>
<1>. height \in Nat
  BY DEF IsU32
<1>0. Scripts!OP_0 = 0 /\ Scripts!OP_1 = 81
  BY DEF Scripts!OP_0, Scripts!OP_1
<1>1. CASE height = 0
  <2>1. script = <<0>> \o <<128>>
    BY <1>0, <1>1 DEF Scripts!EncodeBlockHeight
  <2>2. script[1] = 0 /\ SubSeq(script, 2, 1) = <<>>
    <3>1. <<128>> \in Strings /\ 0 \in Nat
      BY DEF Strings
    <3>2. <<0>> \o <<128>> \in Strings /\ (<<0>> \o <<128>>)[1] = 0
      BY <3>1, Prepended
    <3> HIDE DEF script
    <3>3. script \in Seq(Nat)
      BY <2>1, <3>2 DEF Strings
    <3>4. script[1] = 0
      BY <2>1, <3>2
    <3>5. SubSeq(script, 2, 1) = <<>>
      BY <3>3
    <3> QED
      BY <3>4, <3>5
  <2>3. Scripts!Pushed(script) = SubSeq(script, 2, 2 + 0 - 1)
    <3>1. Scripts!Pushed(script)
            = SubSeq(script, [first |-> 2, length |-> script[1]].first,
                     [first |-> 2, length |-> script[1]].first
                       + [first |-> 2, length |-> script[1]].length - 1)
      BY <2>2 DEF Scripts!Pushed, Scripts!OP_PUSHDATA1, Scripts!OP_PUSHDATA2
    <3> QED
      BY <2>2, <3>1
  <2>4. Scripts!Number(<<>>) = 0
    BY DEF Scripts!Number
  <2>5. Scripts!Evaluated(script) = 0
    BY <1>0, <2>2, <2>3, <2>4 DEF Scripts!Evaluated
  <2> QED
    BY <1>1, <2>5 DEF Scripts!HeightIsRead
<1>2. CASE height \in 1 .. 16
  <2>0. height # 0
    BY <1>2
  <2>1. Scripts!EncodeBlockHeight(height) = <<81 + height - 1>>
    BY <1>0, <1>2, <2>0, SMT DEF Scripts!EncodeBlockHeight
  <2>2. script[1] = 81 + height - 1
    <3>1. <<128>> \in Strings /\ 81 + height - 1 \in Nat
      BY <1>2 DEF Strings
    <3>2. (<<81 + height - 1>> \o <<128>>)[1] = 81 + height - 1
      BY <3>1, Prepended
    <3> QED
      BY <2>1, <3>2, Zenon
  <2>3. script[1] \in 81 .. 81 + 15 /\ script[1] - 81 + 1 = height
    BY <1>2, <2>2
  <2> HIDE DEF script
  <2>4. Scripts!Evaluated(script) = height
    BY <1>0, <2>3 DEF Scripts!Evaluated
  <2> QED
    BY <2>4 DEF Scripts!HeightIsRead, script
<1>3. CASE height > 16
  <2> DEFINE data == Scripts!EncodeScriptNumber(height)
  <2>1. Scripts!EncodeBlockHeight(height) = Scripts!PushData(data)
    BY <1>3 DEF Scripts!EncodeBlockHeight
  <2>2. data \in Strings /\ Len(data) \in 1 .. 5 /\ Scripts!Number(data) = height
    <3>1. Encodes(height, 5)
      BY <1>3, NumbersAreRead
    <3>2. data \in Strings /\ Len(data) > 0 /\ Len(data) <= 5 /\ Scripts!Number(data) = height
      BY <3>1 DEF Encodes, IsNumber
    <3> HIDE DEF data
    <3>3. Len(data) \in Nat
      BY <3>2 DEF Strings
    <3>4. Len(data) \in 1 .. 5
      <4>1. \A k \in Nat : k > 0 /\ k <= 5 => k \in 1 .. 5
        BY SMT
      <4> HIDE DEF script
      <4> QED
        BY <3>2, <3>3, <4>1
    <3> QED
      BY <3>2, <3>4, Zenon
  <2> HIDE DEF data
  <2>3. <<128>> \in Strings
    BY DEF Strings
  <2>4. Scripts!Pushed(script) = data
    <3>1. Len(data) <= 520
      <4>1. PICK m \in 1 .. 5 : m = Len(data)
        BY <2>2, Zenon
      <4>2. m <= 520
        OBVIOUS
      <4> QED
        BY <4>1, <4>2, Zenon
    <3> QED
      BY <2>1, <2>2, <2>3, <3>1, PushGivesDataBack
  <2>5. script[1] = Len(data)
    <3>1. Scripts!PushOpcode(Len(data)) = <<Len(data)>>
      <4>1. PICK m \in 1 .. 5 : m = Len(data)
        BY <2>2, Zenon
      <4>2. m <= 75 /\ ~(m \in 76 .. 255) /\ ~(m \in 256 .. Scripts!MAX_SCRIPT_ELEMENT)
        BY DEF Scripts!MAX_SCRIPT_ELEMENT
      <4>3. Scripts!PushOpcode(m) = <<m>>
        BY <4>2 DEF Scripts!PushOpcode
      <4> QED
        BY <4>1, <4>3, Zenon
    <3>2. script = (<<Len(data)>> \o data) \o <<128>>
      BY <2>1, <3>1 DEF Scripts!PushData
    <3>3. Len(data) \in Nat
      BY <2>2
    <3>4. <<Len(data)>> \o data \in Strings /\ (<<Len(data)>> \o data)[1] = Len(data)
          /\ Len(<<Len(data)>> \o data) = Len(data) + 1
      BY <2>2, <3>3, Prepended
    <3> DEFINE push == <<Len(data)>> \o data
    <3> HIDE DEF push
    <3>5. push \in Seq(Nat) /\ <<128>> \in Seq(Nat) /\ 1 \in 1 .. Len(push) /\ push[1] = Len(data)
      BY <2>2, <3>4 DEF push, Strings
    <3>6. (push \o <<128>>)[1] = push[1]
      BY <3>5, ConcatProperties
    <3> QED
      BY <3>2, <3>5, <3>6 DEF push
  <2> HIDE DEF script
  <2>6. Scripts!Evaluated(script) = Scripts!Number(data)
    <3>1. ~(script[1] \in 81 .. 81 + 15)
      <4>1. PICK m \in 1 .. 5 : m = script[1]
        BY <2>2, <2>5, Zenon
      <4>2. ~(m \in 81 .. 81 + 15)
        OBVIOUS
      <4> QED
        BY <4>1, <4>2, Zenon
    <3> QED
      BY <1>0, <2>4, <3>1 DEF Scripts!Evaluated
  <2> QED
    BY <2>2, <2>6 DEF Scripts!HeightIsRead, script
<1> QED
  BY <1>1, <1>2, <1>3

-----------------------------------------------------------------------------
(* Numbers in the base of a byte, and the compact targets written so.      *)

\* The powers of the number of values of a byte.
Powers(p) ==
  p \in [Nat -> Nat] /\ p[0] = 1 /\ \A k \in Nat : p[k + 1] = Byte * p[k]

LEMMA PowerFacts ==
  ASSUME Byte \in Nat
  PROVE  \E p : /\ Powers(p)
                /\ \A n \in Nat : Nonce!Power(n) = p[n] /\ Encodings!Power(n) = p[n]
<1> DEFINE Defines(f) == f = [k \in Nat |-> IF k = 0 THEN 1 ELSE Byte * f[k - 1]]
           p == CHOOSE f : Defines(f)
           step == [s \in Nat \X Nat |-> Byte * s[2]]
<1>1. \A n \in Nat : Nonce!Power(n) = p[n] /\ Encodings!Power(n) = p[n]
  BY DEF Nonce!Power, Encodings!Power
<1>2. step \in [Nat \X Nat -> Nat] /\ \A n \in Nat, x \in Nat : step[<<n, x>>] = Byte * x
  <2>1. \A x \in Nat : Byte * x \in Nat
    OBVIOUS
  <2> QED
    BY <2>1
<1> HIDE DEF step
<1>3. PICK f \in [Nat -> Nat] : Iterated(f, 1, step)
  BY <1>2, Iterates, Zenon
<1>4. f[0] = 1 /\ \A n \in Nat : f[n + 1] = Byte * f[n]
  BY <1>2, <1>3 DEF Iterated
<1>5. Defines(f)
  <2>1. ASSUME NEW n \in Nat PROVE f[n] = IF n = 0 THEN 1 ELSE Byte * f[n - 1]
    <3>1. CASE n = 0
      BY <1>4, <3>1
    <3>2. CASE n # 0
      <4>1. n - 1 \in Nat /\ (n - 1) + 1 = n
        BY <3>2
      <4>2. f[(n - 1) + 1] = Byte * f[n - 1]
        BY <1>4, <4>1
      <4> QED
        BY <3>2, <4>1, <4>2
    <3> QED
      BY <3>1, <3>2
  <2>2. f = [n \in Nat |-> f[n]]
    BY <1>3
  <2>3. [n \in Nat |-> f[n]] = [n \in Nat |-> IF n = 0 THEN 1 ELSE Byte * f[n - 1]]
    BY <2>1
  <2> QED
    BY <2>2, <2>3
<1>6. Defines(p)
  <2> HIDE DEF Defines
  <2> QED
    BY <1>5
<1> HIDE DEF p
<1>7. p \in [Nat -> Nat]
  <2> DEFINE S == {n \in Nat : p[n] \in Nat}
  <2>1. 0 \in S
    BY <1>6
  <2>2. ASSUME NEW n \in Nat, n \in S PROVE n + 1 \in S
    <3>1. p[n + 1] = Byte * p[n] /\ p[n] \in Nat
      <4>1. n + 1 \in Nat /\ n + 1 # 0 /\ (n + 1) - 1 = n
        OBVIOUS
      <4>2. p[n + 1] = Byte * p[(n + 1) - 1]
        BY <1>6, <4>1
      <4> QED
        BY <2>2, <4>1, <4>2
    <3> QED
      BY <3>1
  <2> HIDE DEF S
  <2>3. \A n \in Nat : n \in S
    BY <2>1, <2>2, Induction
  <2>4. p = [n \in Nat |-> p[n]]
    BY <1>6
  <2>5. \A n \in Nat : p[n] \in Nat
    BY <2>3 DEF S
  <2> HIDE <1>6
  <2> QED
    BY <2>4, <2>5
<1>8. Powers(p)
  <2>1. p[0] = 1
    BY <1>6
  <2>2. ASSUME NEW k \in Nat PROVE p[k + 1] = Byte * p[k]
    <3>1. k + 1 \in Nat /\ k + 1 # 0 /\ (k + 1) - 1 = k
      OBVIOUS
    <3>2. p[k + 1] = Byte * p[(k + 1) - 1]
      BY <1>6, <3>1
    <3> QED
      BY <3>1, <3>2
  <2> QED
    BY <1>7, <2>1, <2>2 DEF Powers
<1> QED
  BY <1>1, <1>8

\* They never decrease, and a sum of exponents multiplies.
LEMMA PowersGrow ==
  ASSUME Byte \in Nat \ {0}, NEW p, Powers(p)
  PROVE  /\ \A m, k \in Nat : p[m + k] >= p[m]
         /\ \A m \in Nat : p[m] > 0
<1>1. p \in [Nat -> Nat] /\ p[0] = 1 /\ \A k \in Nat : p[k + 1] = Byte * p[k]
  BY DEF Powers
<1>2. ASSUME NEW x \in Nat PROVE Byte * x >= x
  OBVIOUS
<1>3. ASSUME NEW m \in Nat PROVE \A k \in Nat : p[m + k] >= p[m]
  <2> DEFINE S == {k \in Nat : p[m + k] >= p[m]}
  <2>1. 0 \in S
    BY <1>1
  <2>2. ASSUME NEW k \in Nat, k \in S PROVE k + 1 \in S
    <3>1. p[(m + k) + 1] = Byte * p[m + k] /\ p[m + k] >= p[m] /\ p[m + k] \in Nat /\ p[m] \in Nat
      BY <1>1, <2>2
    <3>2. Byte * p[m + k] >= p[m + k] /\ Byte * p[m + k] \in Nat
      BY <1>2, <3>1
    <3>3. (m + k) + 1 = m + (k + 1)
      OBVIOUS
    <3>4. p[m + (k + 1)] >= p[m]
      BY <3>1, <3>2, <3>3
    <3> QED
      BY <3>4
  <2> HIDE DEF S
  <2>3. \A k \in Nat : k \in S
    BY <2>1, <2>2, Induction
  <2> QED
    BY <2>3 DEF S
<1>4. \A m \in Nat : p[m] > 0
  <2> SUFFICES ASSUME NEW m \in Nat PROVE p[m] > 0
    OBVIOUS
  <2>1. p[0 + m] >= p[0] /\ 0 + m = m
    BY <1>3
  <2> QED
    BY <1>1, <2>1
<1> QED
  BY <1>3, <1>4

\* A number of n bytes is below the power n, and nonnegative.
LEMMA ValuesAreBounded ==
  ASSUME Byte \in Nat \ {0}, NEW p, Powers(p), NEW size \in Nat,
         NEW a \in [1 .. size -> 0 .. Byte - 1], NEW v, Accumulates(v, a, size)
  PROVE  \A n \in 0 .. size : v[n] \in Nat /\ v[n] < p[n]
<1>1. p \in [Nat -> Nat] /\ p[0] = 1 /\ \A k \in Nat : p[k + 1] = Byte * p[k]
  BY DEF Powers
<1>2. v[0] = 0 /\ \A n \in 1 .. size : v[n] = a[n] + Byte * v[n - 1]
  BY DEF Accumulates
<1> DEFINE S == {n \in Nat : n <= size => v[n] \in Nat /\ v[n] < p[n]}
<1>3. 0 \in S
  <2>1. v[0] \in Nat /\ v[0] < p[0]
    BY <1>1, <1>2
  <2> QED
    BY <2>1
<1>4. ASSUME NEW n \in Nat, n \in S PROVE n + 1 \in S
  <2> SUFFICES ASSUME n + 1 <= size PROVE v[n + 1] \in Nat /\ v[n + 1] < p[n + 1]
    OBVIOUS
  <2>1. n + 1 \in 1 .. size /\ (n + 1) - 1 = n /\ v[n] \in Nat /\ v[n] < p[n] /\ p[n] \in Nat
    BY <1>1, <1>4
  <2>2. v[n + 1] = a[n + 1] + Byte * v[n] /\ a[n + 1] \in 0 .. Byte - 1
    BY <1>2, <2>1
  <2>3. Byte * v[n] + Byte <= Byte * p[n] /\ Byte * v[n] \in Nat
    <3>1. \A x, y \in Nat : x < y => Byte * x + Byte <= Byte * y
      <4> SUFFICES ASSUME NEW x \in Nat, NEW y \in Nat, x < y PROVE Byte * x + Byte <= Byte * y
        OBVIOUS
      <4>1. Byte * (x + 1) = Byte * x + Byte
        OBVIOUS
      <4>2. PICK d \in Nat : y = (x + 1) + d
        <5>1. y - (x + 1) \in Nat /\ y = (x + 1) + (y - (x + 1))
          OBVIOUS
        <5> QED
          BY <5>1
      <4>3. Byte * y = Byte * (x + 1) + Byte * d /\ Byte * d >= 0
        BY <4>2
      <4> QED
        BY <4>1, <4>3
    <3>2. \A x \in Nat : Byte * x \in Nat
      OBVIOUS
    <3> QED
      BY <2>1, <3>1, <3>2
  <2>4. p[n + 1] = Byte * p[n] /\ Byte * p[n] \in Nat
    <3>1. p[n + 1] = Byte * p[n] /\ p[n + 1] \in Nat
      BY <1>1, n + 1 \in Nat
    <3> QED
      BY <3>1
  <2>5. \A w, d, q, r \in Int : d \in 0 .. Byte - 1 /\ w \in Nat /\ w + Byte <= q /\ r = d + w
          => r \in Nat /\ r < q
    OBVIOUS
  <2>6. Byte * v[n] \in Int /\ Byte * p[n] \in Int /\ a[n + 1] \in Int /\ v[n + 1] \in Int
    BY <2>2, <2>3, <2>4
  <2> QED
    BY <2>2, <2>3, <2>4, <2>5, <2>6
<1> HIDE DEF S
<1>5. \A n \in Nat : n \in S
  BY <1>3, <1>4, Induction
<1> QED
  BY <1>5 DEF S

\* The mantissa m moved up j - 3 bytes, or down; what is moved below the first is lost.
Moved(m, p, j) ==
  CASE j <= 0 -> 0
    [] j = 1 -> m[1]
    [] j = 2 -> m[2] + Byte * m[1]
    [] j >= 3 -> (m[3] + Byte * (m[2] + Byte * m[1])) * p[j - 3]

\* The mantissa's byte at a place, and none outside of it.
Digit(m, j) == IF j \in 1 .. 3 THEN m[j] ELSE 0

LEMMA MovedSteps ==
  ASSUME Byte \in Nat \ {0}, NEW p, Powers(p), NEW m \in [1 .. 3 -> 0 .. Byte - 1], NEW j \in Int
  PROVE  /\ Moved(m, p, j) \in Nat
         /\ Moved(m, p, j + 1) = Digit(m, j + 1) + Byte * Moved(m, p, j)
<1>1. p \in [Nat -> Nat] /\ p[0] = 1 /\ \A k \in Nat : p[k + 1] = Byte * p[k]
  BY DEF Powers
<1>2. m[1] \in Nat /\ m[2] \in Nat /\ m[3] \in Nat
  OBVIOUS
<1>3. \A x, y \in Nat : x * y \in Nat /\ x + y \in Nat
  OBVIOUS
<1>4. Byte * m[1] \in Nat /\ m[2] + Byte * m[1] \in Nat
  BY <1>2, <1>3
<1> DEFINE all == m[3] + Byte * (m[2] + Byte * m[1])
<1>5. all \in Nat
  <2>1. Byte * (m[2] + Byte * m[1]) \in Nat
    BY <1>3, <1>4
  <2> QED
    BY <1>2, <1>3, <2>1
<1> HIDE DEF all
<1>6. CASE j < 0
  <2>1. Moved(m, p, j) = 0 /\ Moved(m, p, j + 1) = 0 /\ Digit(m, j + 1) = 0
    BY <1>6 DEF Moved, Digit
  <2> QED
    BY <2>1
<1>7. CASE j = 0
  <2>1. Moved(m, p, j) = 0 /\ Moved(m, p, j + 1) = m[1] /\ Digit(m, j + 1) = m[1]
    BY <1>7 DEF Moved, Digit
  <2> QED
    BY <1>2, <2>1
<1>8. CASE j = 1
  <2>1. Moved(m, p, j) = m[1] /\ Moved(m, p, j + 1) = m[2] + Byte * m[1] /\ Digit(m, j + 1) = m[2]
    BY <1>8 DEF Moved, Digit
  <2> QED
    BY <1>2, <2>1
<1>9. CASE j = 2
  <2>1. Moved(m, p, j) = m[2] + Byte * m[1]
    BY <1>9 DEF Moved
  <2>2. Moved(m, p, j + 1) = all * p[0] /\ Digit(m, j + 1) = m[3]
    BY <1>9 DEF Moved, Digit, all
  <2>3. all * p[0] = all
    BY <1>1, <1>5
  <2> QED
    BY <1>4, <2>1, <2>2, <2>3 DEF all
<1>10. CASE j >= 3
  <2> DEFINE k == j - 3
  <2>1. k \in Nat /\ (j + 1) - 3 = k + 1 /\ p[k] \in Nat
    BY <1>1, <1>10
  <2>2. Moved(m, p, j) = all * p[k]
    BY <1>10 DEF Moved, all
  <2>3. Moved(m, p, j + 1) = all * p[k + 1] /\ Digit(m, j + 1) = 0
    BY <1>10, <2>1 DEF Moved, Digit, all
  <2> HIDE DEF k
  <2>4. p[k + 1] = Byte * p[k]
    BY <1>1, <2>1
  <2>5. all * (Byte * p[k]) = Byte * (all * p[k]) /\ all * p[k] \in Nat
    BY <1>5, <2>1
  <2>6. Byte * (all * p[k]) \in Nat
    BY <1>3, <2>5
  <2> QED
    BY <2>2, <2>3, <2>4, <2>5, <2>6
<1> QED
  BY <1>6, <1>7, <1>8, <1>9, <1>10

\* A digit that is not lost weighs its power, at least.
LEMMA MovedIsHigh ==
  ASSUME Byte \in Nat \ {0}, NEW p, Powers(p), NEW m \in [1 .. 3 -> 0 .. Byte - 1],
         NEW i \in 1 .. 3, m[i] # 0
  PROVE  \A k \in Nat : Moved(m, p, i + k) >= p[k]
<1>1. p \in [Nat -> Nat] /\ p[0] = 1 /\ \A k \in Nat : p[k + 1] = Byte * p[k]
  BY DEF Powers
<1>2. \A j \in Int : /\ Moved(m, p, j) \in Nat /\ Digit(m, j) \in Nat
                     /\ Moved(m, p, j + 1) = Digit(m, j + 1) + Byte * Moved(m, p, j)
  <2>1. \A j \in Int : Digit(m, j) \in Nat
    BY DEF Digit
  <2> QED
    BY <2>1, MovedSteps
<1> DEFINE S == {k \in Nat : Moved(m, p, i + k) >= p[k]}
<1>3. 0 \in S
  <2>1. (i - 1) + 1 = i /\ i - 1 \in Int /\ i + 0 = i
    OBVIOUS
  <2>2. Moved(m, p, (i - 1) + 1) = Digit(m, (i - 1) + 1) + Byte * Moved(m, p, i - 1)
    BY <1>2, <2>1
  <2>3. Digit(m, i) >= 1 /\ Digit(m, i) \in Nat
    BY DEF Digit
  <2>4. Byte * Moved(m, p, i - 1) \in Nat
    BY <1>2, <2>1
  <2>5. Moved(m, p, i) >= 1
    BY <2>1, <2>2, <2>3, <2>4
  <2> QED
    BY <1>1, <2>1, <2>5
<1>4. ASSUME NEW k \in Nat, k \in S PROVE k + 1 \in S
  <2>1. Moved(m, p, (i + k) + 1) = Digit(m, (i + k) + 1) + Byte * Moved(m, p, i + k)
        /\ Moved(m, p, i + k) \in Nat /\ Digit(m, (i + k) + 1) \in Nat
    BY <1>2
  <2>2. (i + k) + 1 = i + (k + 1) /\ Moved(m, p, i + k) >= p[k] /\ p[k] \in Nat
    BY <1>1, <1>4
  <2>3. \A x, y \in Nat : x >= y => Byte * x >= Byte * y /\ Byte * x \in Nat /\ Byte * y \in Nat
    OBVIOUS
  <2>4. Byte * Moved(m, p, i + k) >= Byte * p[k] /\ Byte * Moved(m, p, i + k) \in Nat
        /\ Byte * p[k] \in Nat
    BY <2>1, <2>2, <2>3
  <2>5. Moved(m, p, (i + k) + 1) >= Byte * p[k]
    BY <2>1, <2>4
  <2>6. p[k + 1] = Byte * p[k]
    BY <1>1
  <2> QED
    BY <2>2, <2>5, <2>6
<1> HIDE DEF S
<1>5. \A k \in Nat : k \in S
  BY <1>3, <1>4, Induction
<1> QED
  BY <1>5 DEF S

\* Dividing by a power what it was multiplied by.
LEMMA Divides ==
  ASSUME NEW c \in Nat \ {0}, NEW x \in Nat, NEW y \in Nat, y < c
  PROVE  (y + c * x) \div c = x
<1>1. y + c * x \in Nat /\ c * x <= y + c * x /\ y + c * x < c * (x + 1)
  OBVIOUS
<1>2. \A n \in Nat : n \div c \in Int /\ c * (n \div c) <= n /\ n < c * ((n \div c) + 1)
  OBVIOUS
<1> DEFINE q == (y + c * x) \div c
<1>3. q \in Int /\ c * q < c * (x + 1) /\ c * x < c * (q + 1)
  BY <1>1, <1>2
<1> HIDE DEF q
<1>4. \A u, w \in Int : u >= w => c * u >= c * w
  OBVIOUS
<1>5. ~(q >= x + 1) /\ ~(x >= q + 1)
  BY <1>3, <1>4
<1> QED
  BY <1>3, <1>5 DEF q

\* The number that bits stand for.
LEMMA CompactIsMoved ==
  ASSUME Byte \in Nat \ {0}, NEW p, Powers(p), \A n \in Nat : Nonce!Power(n) = p[n],
         NEW bits, IsCompact(bits)
  PROVE  Nonce!CompactValue(bits) = Moved(bits.mantissa, p, bits.exponent)
<1> DEFINE m == bits.mantissa
           e == bits.exponent
           all == m[3] + Byte * (m[2] + Byte * m[1])
<1>1. e \in Nat /\ m \in [1 .. 3 -> 0 .. Byte - 1]
  BY DEF IsCompact
<1> HIDE DEF m, e
<1>2. /\ m[1] \in Nat /\ m[2] \in Nat /\ m[3] \in Nat
      /\ m[1] < Byte /\ m[2] < Byte /\ m[3] < Byte
  BY <1>1
<1>3. Nonce!Value(m) = all
  <2>1. m \in [1 .. 3 -> Int] /\ 3 \in Nat
    BY <1>1
  <2>2. PICK v : Accumulates(v, m, 3) /\ Nonce!Value(m) = v[3]
    BY <2>1, ValueFacts
  <2>3. v[0] = 0 /\ v[1] = m[1] + Byte * v[1 - 1] /\ v[2] = m[2] + Byte * v[2 - 1]
        /\ v[3] = m[3] + Byte * v[3 - 1]
    BY <2>2 DEF Accumulates
  <2>4. v[1] = m[1]
    BY <1>2, <2>3
  <2> QED
    BY <2>2, <2>3, <2>4
<1>4. p[0] = 1 /\ p[1] = Byte /\ p[2] = Byte * Byte /\ p[3] = Byte * (Byte * Byte)
  <2>1. p[0] = 1 /\ p[0 + 1] = Byte * p[0] /\ p[1 + 1] = Byte * p[1] /\ p[2 + 1] = Byte * p[2]
    BY DEF Powers
  <2> QED
    BY <2>1
<1>5. m[2] + Byte * m[1] \in Nat /\ m[3] + Byte * m[2] \in Nat
  <2>1. Byte * m[1] \in Nat /\ Byte * m[2] \in Nat
    BY <1>2
  <2> QED
    BY <1>2, <2>1
<1>6. CASE e >= 3
  <2>1. Nonce!CompactValue(bits) = all * p[e - 3]
    <3>1. e - 3 \in Nat
      BY <1>1, <1>6
    <3> QED
      BY <1>3, <1>6, <3>1 DEF Nonce!CompactValue, m, e
  <2>2. Moved(m, p, e) = all * p[e - 3]
    BY <1>1, <1>6 DEF Moved
  <2> QED
    BY <2>1, <2>2 DEF m, e
<1>7. CASE e = 2
  <2>1. Nonce!CompactValue(bits) = all \div Byte
    BY <1>3, <1>4, <1>7 DEF Nonce!CompactValue, m, e
  <2>2. all \div Byte = m[2] + Byte * m[1]
    BY <1>2, <1>5, Divides
  <2>3. Moved(m, p, e) = m[2] + Byte * m[1]
    BY <1>7 DEF Moved
  <2> QED
    BY <2>1, <2>2, <2>3 DEF m, e
<1>8. CASE e = 1
  <2>1. Nonce!CompactValue(bits) = all \div (Byte * Byte)
    BY <1>3, <1>4, <1>8 DEF Nonce!CompactValue, m, e
  <2>2. all = (m[3] + Byte * m[2]) + (Byte * Byte) * m[1]
    BY <1>2
  <2>3. m[3] + Byte * m[2] < Byte * Byte /\ Byte * Byte \in Nat \ {0}
    <3>1. Byte * (m[2] + 1) <= Byte * Byte /\ Byte * (m[2] + 1) = Byte * m[2] + Byte
      BY <1>2
    <3>2. Byte * Byte > 0 /\ Byte * Byte \in Nat /\ Byte * m[2] \in Nat
      BY <1>2
    <3> QED
      BY <1>2, <3>1, <3>2
  <2>4. ((m[3] + Byte * m[2]) + (Byte * Byte) * m[1]) \div (Byte * Byte) = m[1]
    BY <1>2, <1>5, <2>3, Divides
  <2>5. Moved(m, p, e) = m[1]
    BY <1>8 DEF Moved
  <2> QED
    BY <2>1, <2>2, <2>4, <2>5 DEF m, e
<1>9. CASE e = 0
  <2>1. Nonce!CompactValue(bits) = all \div p[3]
    BY <1>3, <1>9 DEF Nonce!CompactValue, m, e
  <2>3. all < Byte * (Byte * Byte) /\ all \in Nat /\ Byte * (Byte * Byte) \in Nat \ {0}
    <3>1. \A x, y, c \in Nat : x < y => c * x + c <= c * y /\ c * x \in Nat
      <4> SUFFICES ASSUME NEW x \in Nat, NEW y \in Nat, NEW c \in Nat, x < y
                   PROVE  c * x + c <= c * y /\ c * x \in Nat
        OBVIOUS
      <4>1. c * (x + 1) = c * x + c /\ c * (x + 1) <= c * y
        OBVIOUS
      <4> QED
        BY <4>1
    <3>2. Byte \in Nat /\ Byte * Byte \in Nat
      OBVIOUS
    <3>3. Byte * m[1] + Byte <= Byte * Byte /\ Byte * m[1] \in Nat
      BY <1>2, <3>1
    <3>4. m[2] + Byte * m[1] < Byte * Byte
      BY <1>2, <3>2, <3>3
    <3>5. Byte * (m[2] + Byte * m[1]) + Byte <= Byte * (Byte * Byte)
          /\ Byte * (m[2] + Byte * m[1]) \in Nat
      BY <1>5, <3>1, <3>2, <3>4
    <3>6. Byte * (Byte * Byte) \in Nat
      BY <3>2
    <3> QED
      BY <1>2, <3>5, <3>6
  <2>4. all \div (Byte * (Byte * Byte)) = 0
    <3> DEFINE c == Byte * (Byte * Byte)
    <3>1. c \in Nat \ {0} /\ all \in Nat /\ all < c
      BY <2>3
    <3> HIDE DEF c, all
    <3>2. (all + c * 0) \div c = 0
      BY <3>1, Divides
    <3>3. all + c * 0 = all
      BY <3>1
    <3> QED
      BY <3>2, <3>3 DEF c
  <2>5. Moved(m, p, e) = 0
    BY <1>9 DEF Moved
  <2> QED
    BY <1>4, <2>1, <2>4, <2>5 DEF m, e
<1> QED
  BY <1>1, <1>6, <1>7, <1>8, <1>9

-----------------------------------------------------------------------------
(* The target of bits, the order of hashes, and the bits of a byte: a      *)
(* higher one has no fewer.                                                *)

\* What a target read from bits is, and what it needs: no digit above the hash.
LEMMA TargetOfBits ==
  ASSUME Byte \in Nat \ {0}, Size \in Nat, NEW p, Powers(p), \A n \in Nat : Nonce!Power(n) = p[n],
         NEW bits, IsCompact(bits), ~bits.negative,
         \A i \in 1 .. 3 : bits.exponent - i > Size - 1 => bits.mantissa[i] = 0
  PROVE  LET read == Nonce!FromCompact(bits)
         IN  /\ read.error = ""
             /\ read.target \in Nonce!Hashes
             /\ Nonce!Value(read.target) = Nonce!CompactValue(bits)
             /\ Nonce!CompactValue(bits) < Nonce!Power(Size)
<1> DEFINE m == bits.mantissa
           e == bits.exponent
           target == [place \in 1 .. Size |-> Digit(m, e - (Size - place))]
<1>1. e \in Nat /\ m \in [1 .. 3 -> 0 .. Byte - 1]
  BY DEF IsCompact
<1>2. Nonce!FromCompact(bits) = [error |-> "", target |-> target]
  <2>1. ~(~bits.negative /\ \E i \in 1 .. 3 : bits.exponent - i > Size - 1 /\ bits.mantissa[i] # 0)
    OBVIOUS
  <2>2. Nonce!FromCompact(bits)
          = [error |-> "",
             target |-> [place \in 1 .. Size |->
                           LET i == bits.exponent - (Size - place)
                           IN  IF i \in 1 .. 3 THEN bits.mantissa[i] ELSE 0]]
    BY <2>1 DEF Nonce!FromCompact
  <2> QED
    BY <2>2 DEF Digit
<1> HIDE DEF m, e
<1>3. target \in Nonce!Hashes
  <2>1. ASSUME NEW i \in Int PROVE Digit(m, i) \in 0 .. Byte - 1
    BY <1>1 DEF Digit
  <2>2. \A place \in 1 .. Size : e - (Size - place) \in Int
    BY <1>1
  <2> QED
    BY <2>1, <2>2 DEF Nonce!Hashes
<1>4. \A place \in 1 .. Size : target[place] = Digit(m, e - (Size - place))
  OBVIOUS
<1>5. target \in [1 .. Size -> 0 .. Byte - 1] /\ target \in [1 .. Size -> Int]
  BY <1>3 DEF Nonce!Hashes
<1> HIDE DEF target
<1>6. PICK v : Accumulates(v, target, Size) /\ Nonce!Value(target) = v[Size]
  BY <1>5, ValueFacts
<1>7. v[0] = 0 /\ \A n \in 1 .. Size : v[n] = target[n] + Byte * v[n - 1]
  BY <1>6 DEF Accumulates
<1>8. \A j \in Int : Moved(m, p, j + 1) = Digit(m, j + 1) + Byte * Moved(m, p, j)
  BY <1>1, MovedSteps
<1> DEFINE S == {n \in Nat : n <= Size => v[n] = Moved(m, p, n + (e - Size))}
<1>9. 0 \in S
  <2> DEFINE j == e - Size
  <2>1. j \in Int /\ 0 + j = j
    BY <1>1
  <2>2. \A i \in 1 .. 3 : i <= j => m[i] = 0
    BY <1>1 DEF m, e
  <2> HIDE DEF j
  <2>3. Moved(m, p, j) = 0
    <3>1. CASE j <= 0
      BY <2>1, <3>1 DEF Moved
    <3>2. CASE j = 1
      <4>1. m[1] = 0
        BY <2>2, <3>2
      <4> QED
        BY <3>2, <4>1 DEF Moved
    <3>3. CASE j = 2
      <4>1. m[1] = 0 /\ m[2] = 0
        BY <2>2, <3>3
      <4>2. Moved(m, p, j) = m[2] + Byte * m[1]
        BY <3>3 DEF Moved
      <4> QED
        BY <4>1, <4>2
    <3>4. CASE j >= 3
      <4>1. m[1] = 0 /\ m[2] = 0 /\ m[3] = 0
        BY <2>1, <2>2, <3>4
      <4>2. Moved(m, p, j) = (m[3] + Byte * (m[2] + Byte * m[1])) * p[j - 3]
        BY <2>1, <3>4 DEF Moved
      <4>3. j - 3 \in Nat
        BY <2>1, <3>4
      <4>4. p[j - 3] \in Nat
        BY <4>3 DEF Powers
      <4>5. m[3] + Byte * (m[2] + Byte * m[1]) = 0
        BY <4>1
      <4> QED
        BY <4>2, <4>4, <4>5
    <3> QED
      BY <2>1, <3>1, <3>2, <3>3, <3>4
  <2> QED
    BY <1>7, <2>1, <2>3 DEF j
<1>10. ASSUME NEW n \in Nat, n \in S PROVE n + 1 \in S
  <2> SUFFICES ASSUME n + 1 <= Size PROVE v[n + 1] = Moved(m, p, (n + 1) + (e - Size))
    OBVIOUS
  <2> DEFINE j == n + (e - Size)
  <2>1. j \in Int /\ (n + 1) + (e - Size) = j + 1 /\ e - (Size - (n + 1)) = j + 1
        /\ n + 1 \in 1 .. Size /\ (n + 1) - 1 = n
    BY <1>1
  <2>2. v[n] = Moved(m, p, j)
    BY <1>10
  <2> HIDE DEF j, S
  <2>3. v[n + 1] = target[n + 1] + Byte * v[n]
    BY <1>7, <2>1
  <2>4. target[n + 1] = Digit(m, j + 1)
    BY <1>4, <2>1
  <2> QED
    BY <1>8, <2>1, <2>2, <2>3, <2>4
<1> HIDE DEF S
<1>11. \A n \in Nat : n \in S
  BY <1>9, <1>10, Induction
<1>12. v[Size] = Moved(m, p, e)
  <2>1. Size \in S /\ Size + (e - Size) = e /\ Size <= Size
    BY <1>1, <1>11
  <2>2. v[Size] = Moved(m, p, Size + (e - Size))
    BY <2>1 DEF S
  <2> QED
    BY <2>1, <2>2
<1>13. Nonce!CompactValue(bits) = Moved(m, p, e)
  BY CompactIsMoved DEF m, e
<1>14. v[Size] < p[Size]
  <2>1. \A n \in 0 .. Size : v[n] \in Nat /\ v[n] < p[n]
    BY <1>5, <1>6, ValuesAreBounded
  <2> QED
    BY <2>1
<1>15. Nonce!Power(Size) = p[Size]
  OBVIOUS
<1>16. Nonce!FromCompact(bits).error = "" /\ Nonce!FromCompact(bits).target = target
  <2>1. \A r, e1, t : r = [error |-> e1, target |-> t] => r.error = e1 /\ r.target = t
    OBVIOUS
  <2> QED
    BY <1>2, <2>1, Zenon
<1> QED
  BY <1>3, <1>6, <1>12, <1>13, <1>14, <1>15, <1>16

\* Bits that the hash cannot hold stand for more than it can.
LEMMA OverflowIsHigh ==
  ASSUME Byte \in Nat \ {0}, Size \in Nat, NEW p, Powers(p), \A n \in Nat : Nonce!Power(n) = p[n],
         NEW bits, IsCompact(bits),
         NEW i \in 1 .. 3, bits.exponent - i > Size - 1, bits.mantissa[i] # 0
  PROVE  Nonce!CompactValue(bits) >= Nonce!Power(Size)
<1> DEFINE m == bits.mantissa
           e == bits.exponent
           k == e - i
<1>1. e \in Nat /\ m \in [1 .. 3 -> 0 .. Byte - 1] /\ m[i] # 0
  BY DEF IsCompact
<1>2. k \in Nat /\ k - Size \in Nat /\ i + k = e /\ Size + (k - Size) = k
  BY <1>1
<1>3. Nonce!CompactValue(bits) = Moved(m, p, e)
  BY CompactIsMoved
<1> HIDE DEF m, e, k
<1>4. Moved(m, p, i + k) >= p[k]
  BY <1>1, <1>2, MovedIsHigh
<1>5. p[Size + (k - Size)] >= p[Size]
  BY <1>2, PowersGrow
<1>6. Moved(m, p, e) \in Nat /\ p[k] \in Nat /\ p[Size] \in Nat
  BY <1>1, <1>2, MovedSteps DEF Powers
<1>7. Nonce!Power(Size) = p[Size]
  OBVIOUS
<1> QED
  BY <1>2, <1>3, <1>4, <1>5, <1>6, <1>7

-----------------------------------------------------------------------------
\* The bits of a byte, and that a higher one has no fewer.
LEMMA BitsFacts ==
  \E z \in [Nat -> Nat] :
    /\ z[0] = 0 /\ \A n \in Nat \ {0} : z[n] = 1 + z[n \div 2]
    /\ \A byte \in Nat : Byte - 1 \in Nat => Nonce!LeadingZeros(byte) = z[Byte - 1] - z[byte]
<1> DEFINE Defines(f) == f = [n \in Nat |-> IF n = 0 THEN 0 ELSE 1 + f[n \div 2]]
           z == CHOOSE f : Defines(f)
           rank == [n \in Nat |-> n]
           down == [n \in Nat |-> n \div 2]
           start == [n \in Nat |-> 0]
           step == [s \in Nat \X Nat |-> 1 + s[2]]
<1>1. \A byte \in Nat : Byte - 1 \in Nat => Nonce!LeadingZeros(byte) = z[Byte - 1] - z[byte]
  BY DEF Nonce!LeadingZeros
<1>2. \A n \in Nat : n \div 2 \in Nat /\ (n # 0 => n \div 2 < n)
  OBVIOUS
<1>3. rank \in [Nat -> Nat] /\ down \in [Nat -> Nat] /\ start \in [Nat -> Nat]
      /\ step \in [Nat \X Nat -> Nat]
  BY <1>2
<1>4. \A n \in Nat : rank[n] = n /\ down[n] = n \div 2 /\ start[n] = 0
  OBVIOUS
<1>5. \A n \in Nat, x \in Nat : step[<<n, x>>] = 1 + x
  OBVIOUS
<1> HIDE DEF rank, down, start, step
<1>6. PICK f \in [Nat -> Nat] : Descended(f, Nat, {0}, start, down, step)
  <2>1. \A x \in Nat : x \notin {0} => rank[down[x]] < rank[x]
    BY <1>2, <1>4
  <2> QED
    BY <1>3, <2>1, Descends
<1>7. \A n \in Nat : f[n] = IF n = 0 THEN 0 ELSE 1 + f[n \div 2]
  <2> SUFFICES ASSUME NEW n \in Nat PROVE f[n] = IF n = 0 THEN 0 ELSE 1 + f[n \div 2]
    OBVIOUS
  <2>1. f[n] = IF n \in {0} THEN start[n] ELSE step[<<n, f[down[n]]>>]
    BY <1>6 DEF Descended
  <2>2. n \div 2 \in Nat /\ f[n \div 2] \in Nat /\ down[n] = n \div 2 /\ start[n] = 0
    BY <1>2, <1>4, <1>6
  <2> QED
    BY <1>5, <2>1, <2>2
<1>8. Defines(f)
  <2>1. f = [n \in Nat |-> f[n]]
    BY <1>6
  <2>2. [n \in Nat |-> f[n]] = [n \in Nat |-> IF n = 0 THEN 0 ELSE 1 + f[n \div 2]]
    BY <1>7
  <2> QED
    BY <2>1, <2>2
<1>9. Defines(z)
  <2> HIDE DEF Defines
  <2> QED
    BY <1>8
<1> HIDE DEF z
<1>10. z[0] = 0
  BY <1>9
<1>11. \A n \in Nat \ {0} : z[n] = 1 + z[n \div 2]
  BY <1>9
<1>12. z = [n \in Nat |-> z[n]]
  BY <1>9
<1> DEFINE S == {n \in Nat : z[n] \in Nat}
<1>13. \A n \in Nat : n \in S
  <2>1. ASSUME NEW n \in Nat, \A y \in Nat : rank[y] < rank[n] => y \in S PROVE n \in S
    <3>1. CASE n = 0
      BY <1>10, <3>1
    <3>2. CASE n # 0
      <4>1. z[n \div 2] \in Nat
        BY <1>2, <1>4, <2>1, <3>2
      <4>2. z[n] = 1 + z[n \div 2]
        BY <1>11, <3>2
      <4>3. z[n] \in Nat
        BY <4>1, <4>2
      <4> QED
        BY <4>3
    <3> QED
      BY <3>1, <3>2
  <2> HIDE DEF S
  <2> QED
    BY <1>3, <2>1, RankInduction
<1>14. z \in [Nat -> Nat]
  <2>1. \A n \in Nat : z[n] \in Nat
    BY <1>13
  <2> HIDE <1>9, <1>11
  <2> QED
    BY <1>12, <2>1
<1> QED
  BY <1>1, <1>10, <1>11, <1>14

LEMMA BitsGrow ==
  ASSUME NEW z \in [Nat -> Nat], z[0] = 0, \A n \in Nat \ {0} : z[n] = 1 + z[n \div 2]
  PROVE  \A n \in Nat : \A m \in 0 .. n : z[m] <= z[n]
<1> DEFINE S == {n \in Nat : \A m \in 0 .. n : z[m] <= z[n]}
           rank == [n \in Nat |-> n]
<1>1. rank \in [Nat -> Nat] /\ \A n \in Nat : rank[n] = n
  OBVIOUS
<1> HIDE DEF rank
<1>2. ASSUME NEW n \in Nat, \A y \in Nat : rank[y] < rank[n] => y \in S PROVE n \in S
  <2> SUFFICES ASSUME NEW m \in 0 .. n PROVE z[m] <= z[n]
    OBVIOUS
  <2>1. CASE m = 0
    <3>1. z[n] \in Nat
      OBVIOUS
    <3> QED
      BY <2>1, <3>1
  <2>2. CASE m # 0
    <3>1. n # 0 /\ n \div 2 \in Nat /\ m \div 2 \in 0 .. n \div 2 /\ n \div 2 < n /\ m \in Nat
      BY <2>2
    <3>2. n \div 2 \in S
      BY <1>1, <1>2, <3>1
    <3>3. z[m \div 2] <= z[n \div 2]
      BY <3>1, <3>2
    <3>4. z[n] = 1 + z[n \div 2] /\ z[m] = 1 + z[m \div 2]
      BY <2>2, <3>1
    <3>5. z[n \div 2] \in Nat /\ z[m \div 2] \in Nat
      BY <3>1
    <3> QED
      BY <3>3, <3>4, <3>5
  <2> QED
    BY <2>1, <2>2
<1> HIDE DEF S
<1>3. \A n \in Nat : n \in S
  BY <1>1, <1>2, RankInduction
<1> QED
  BY <1>3 DEF S

\* A higher byte has no more leading zeros, and none more than a byte of zero.
LEMMA ZerosFall ==
  ASSUME Byte \in Nat \ {0}, NEW a \in 0 .. Byte - 1, NEW b \in 0 .. Byte - 1, a <= b
  PROVE  /\ Nonce!LeadingZeros(a) \in Nat /\ Nonce!LeadingZeros(b) \in Nat
         /\ Nonce!LeadingZeros(b) <= Nonce!LeadingZeros(a)
         /\ Nonce!LeadingZeros(a) <= Nonce!LeadingZeros(0) /\ Nonce!LeadingZeros(0) \in Nat
<1>1. PICK z \in [Nat -> Nat] :
        /\ z[0] = 0 /\ \A n \in Nat \ {0} : z[n] = 1 + z[n \div 2]
        /\ \A byte \in Nat : Byte - 1 \in Nat => Nonce!LeadingZeros(byte) = z[Byte - 1] - z[byte]
  BY BitsFacts
<1>2. \A n \in Nat : \A m \in 0 .. n : z[m] <= z[n]
  BY <1>1, BitsGrow
<1>3. a \in Nat /\ b \in Nat /\ a \in 0 .. b /\ Byte - 1 \in Nat /\ 0 \in Nat
  OBVIOUS
<1>4. z[a] \in Nat /\ z[b] \in Nat /\ z[Byte - 1] \in Nat /\ z[0] = 0
  BY <1>1, <1>3
<1>5. z[a] <= z[Byte - 1] /\ z[b] <= z[Byte - 1] /\ z[a] <= z[b]
  BY <1>2, <1>3
<1>6. /\ Nonce!LeadingZeros(a) = z[Byte - 1] - z[a]
      /\ Nonce!LeadingZeros(b) = z[Byte - 1] - z[b]
      /\ Nonce!LeadingZeros(0) = z[Byte - 1] - z[0]
  BY <1>1, <1>3
<1> QED
  BY <1>4, <1>5, <1>6
\* The first byte of a number that is not zero.
LEMMA FirstNonzero ==
  ASSUME Size \in Nat, NEW a \in Nonce!Hashes
  PROVE  LET zeros == [i \in 1 .. Size |-> 0]
         IN  Nonce!LeadingZeroBits(a)
               = IF Nonce!FirstDifference(a, zeros) = 0
                 THEN Size * Nonce!LeadingZeros(0)
                 ELSE (Nonce!FirstDifference(a, zeros) - 1) * Nonce!LeadingZeros(0)
                        + Nonce!LeadingZeros(a[Nonce!FirstDifference(a, zeros)])
<1> DEFINE zeros == [i \in 1 .. Size |-> 0]
<1>1. [i \in 1 .. Size |-> a[i] # 0] = [i \in 1 .. Size |-> a[i] # zeros[i]]
  OBVIOUS
<1> QED
  BY <1>1, Zenon DEF Nonce!LeadingZeroBits, Nonce!FirstDifference

\* A number that is no higher has no fewer leading zeros.
LEMMA LowerHasZeros ==
  ASSUME Byte \in Nat \ {0}, Size \in Nat, NEW a \in Nonce!Hashes, NEW b \in Nonce!Hashes,
         NEW d \in 1 .. Size, a[d] < b[d], \A j \in 1 .. d - 1 : a[j] = b[j]
  PROVE  Nonce!LeadingZeroBits(a) >= Nonce!LeadingZeroBits(b)
<1> DEFINE zeros == [i \in 1 .. Size |-> 0]
           f == Nonce!FirstDifference(a, zeros)
           g == Nonce!FirstDifference(b, zeros)
           L(x) == Nonce!LeadingZeros(x)
<1>1. a \in [1 .. Size -> 0 .. Byte - 1] /\ b \in [1 .. Size -> 0 .. Byte - 1]
  BY DEF Nonce!Hashes
<1>2. zeros \in [1 .. Size -> Int] /\ a \in [1 .. Size -> Int] /\ b \in [1 .. Size -> Int]
      /\ \A i \in 1 .. Size : zeros[i] = 0
  BY <1>1
<1>3. /\ Nonce!LeadingZeroBits(a) = IF f = 0 THEN Size * L(0) ELSE (f - 1) * L(0) + L(a[f])
      /\ Nonce!LeadingZeroBits(b) = IF g = 0 THEN Size * L(0) ELSE (g - 1) * L(0) + L(b[g])
  BY FirstNonzero
<1> HIDE DEF zeros
<1>4. \/ f = 0 /\ a = zeros
      \/ f \in 1 .. Size /\ a[f] # 0 /\ \A j \in 1 .. f - 1 : a[j] = 0
  <2>1. \/ f = 0 /\ a = zeros
        \/ f \in 1 .. Size /\ a[f] # zeros[f] /\ \A j \in 1 .. f - 1 : a[j] = zeros[j]
    BY <1>2, FirstDifferenceFacts
  <2> HIDE DEF f
  <2> QED
    BY <1>2, <2>1
<1>5. \/ g = 0 /\ b = zeros
      \/ g \in 1 .. Size /\ b[g] # 0 /\ \A j \in 1 .. g - 1 : b[j] = 0
  <2>1. \/ g = 0 /\ b = zeros
        \/ g \in 1 .. Size /\ b[g] # zeros[g] /\ \A j \in 1 .. g - 1 : b[j] = zeros[j]
    BY <1>2, FirstDifferenceFacts
  <2> HIDE DEF g
  <2> QED
    BY <1>2, <2>1
<1> HIDE DEF f, g
<1>6. b[d] # 0
  BY <1>1
<1>7. g \in 1 .. Size /\ g <= d /\ b[g] # 0 /\ \A j \in 1 .. g - 1 : b[j] = 0
  <2>1. g \in 1 .. Size /\ b[g] # 0 /\ \A j \in 1 .. g - 1 : b[j] = 0
    BY <1>2, <1>5, <1>6
  <2>2. ~(d < g)
    <3> SUFFICES ASSUME d < g PROVE FALSE
      OBVIOUS
    <3>1. d \in 1 .. g - 1
      BY <2>1
    <3> QED
      BY <1>6, <2>1, <3>1
  <2> QED
    BY <2>1, <2>2
<1>8. L(0) \in Nat /\ \A x \in 0 .. Byte - 1 : L(x) \in Nat /\ L(x) <= L(0)
  <2>1. 0 \in 0 .. Byte - 1
    OBVIOUS
  <2>2. \A x \in 0 .. Byte - 1 : x <= x
    OBVIOUS
  <2> HIDE DEF L
  <2>3. ASSUME NEW x \in 0 .. Byte - 1 PROVE L(x) \in Nat /\ L(x) <= L(0) /\ L(0) \in Nat
    BY <2>2, ZerosFall DEF L
  <2> QED
    BY <2>1, <2>3
<1>9. \A x \in 0 .. Byte - 1 : \A y \in x .. Byte - 1 : L(y) <= L(x)
  <2> SUFFICES ASSUME NEW x \in 0 .. Byte - 1, NEW y \in x .. Byte - 1 PROVE L(y) <= L(x)
    OBVIOUS
  <2>1. y \in 0 .. Byte - 1 /\ x <= y
    OBVIOUS
  <2> QED
    BY <2>1, ZerosFall
<1> HIDE DEF L
<1>10. Nonce!LeadingZeroBits(b) = (g - 1) * L(0) + L(b[g])
  <2>1. g # 0
    BY <1>7
  <2> QED
    BY <1>3, <2>1
<1>11. b[g] \in 0 .. Byte - 1 /\ L(b[g]) \in Nat /\ L(b[g]) <= L(0)
  BY <1>1, <1>7, <1>8
<1>12. \A x, y, c \in Nat : x <= y => x * c <= y * c /\ x * c \in Nat /\ y * c \in Nat
  <2> SUFFICES ASSUME NEW x \in Nat, NEW y \in Nat, NEW c \in Nat, x <= y
               PROVE  x * c <= y * c /\ x * c \in Nat /\ y * c \in Nat
    OBVIOUS
  <2>1. y - x \in Nat /\ y = x + (y - x)
    OBVIOUS
  <2>2. (x + (y - x)) * c = x * c + (y - x) * c /\ (y - x) * c >= 0
    BY <2>1
  <2> QED
    BY <2>1, <2>2
<1>13. (g - 1) * L(0) + L(0) = g * L(0) /\ (g - 1) * L(0) \in Nat
  <2>1. g \in Nat /\ g - 1 \in Nat
    BY <1>7
  <2> QED
    BY <1>8, <2>1
<1>14. Nonce!LeadingZeroBits(b) <= g * L(0)
  BY <1>10, <1>11, <1>13, <1>8
<1>15. CASE f = 0
  <2>1. g \in Nat /\ g <= Size
    BY <1>7
  <2>2. g * L(0) <= Size * L(0) /\ g * L(0) \in Nat /\ Size * L(0) \in Nat
    BY <1>8, <1>12, <2>1
  <2>3. Nonce!LeadingZeroBits(b) \in Nat
    BY <1>10, <1>11, <1>13
  <2> QED
    BY <1>3, <1>14, <1>15, <2>2, <2>3
<1>16. CASE f # 0
  <2>1. f \in 1 .. Size /\ a[f] # 0 /\ \A j \in 1 .. f - 1 : a[j] = 0
    BY <1>4, <1>16
  <2>2. g <= f
    <3> SUFFICES ASSUME f < g PROVE FALSE
      BY <1>7, <2>1
    <3>1. f \in 1 .. g - 1 /\ f \in 1 .. d - 1
      BY <1>7, <2>1
    <3> QED
      BY <1>7, <2>1, <3>1
  <2>3. Nonce!LeadingZeroBits(a) = (f - 1) * L(0) + L(a[f]) /\ L(a[f]) \in Nat
    BY <1>1, <1>3, <1>8, <1>16, <2>1
  <2>4. CASE f = g
    <3>1. a[f] <= b[f]
      <4>1. CASE f = d
        BY <1>1, <4>1
      <4>2. CASE f # d
        <5>1. f \in 1 .. d - 1
          BY <1>7, <2>1, <2>4, <4>2
        <5>2. a[f] = b[f] /\ b[f] \in Int
          BY <1>1, <2>1, <5>1
        <5> QED
          BY <5>2
      <4> QED
        BY <4>1, <4>2
    <3>2. b[f] \in a[f] .. Byte - 1 /\ a[f] \in 0 .. Byte - 1
      BY <1>1, <2>1, <3>1
    <3>3. L(b[f]) <= L(a[f])
      BY <1>9, <3>2
    <3> QED
      BY <1>10, <1>11, <1>13, <2>3, <2>4, <3>3
  <2>5. CASE f # g
    <3>1. g <= f - 1 /\ g \in Nat /\ f - 1 \in Nat
      BY <1>7, <2>1, <2>2, <2>5
    <3>2. g * L(0) <= (f - 1) * L(0) /\ g * L(0) \in Nat /\ (f - 1) * L(0) \in Nat
      BY <1>8, <1>12, <3>1
    <3>3. Nonce!LeadingZeroBits(b) \in Nat
      BY <1>10, <1>11, <1>13
    <3> QED
      BY <1>14, <2>3, <3>2, <3>3
  <2> QED
    BY <2>4, <2>5
<1> QED
  BY <1>15, <1>16

\* Compact bits are read as the number they stand for, or refused because that number
\* is negative or too high; a hash meets the target exactly if it is no higher, and then
\* shows the zeros the miner prints (target.rs:100-137).
THEOREM BitsStandForTheirTarget ==
  ASSUME Byte \in Nat \ {0}, Size \in Nat, NEW bits, IsCompact(bits)
  PROVE  Nonce!TargetIsNumber(bits)
<1> DEFINE read == Nonce!FromCompact(bits)
           high == \E i \in 1 .. 3 : bits.exponent - i > Size - 1 /\ bits.mantissa[i] # 0
<1>1. PICK p : Powers(p) /\ \A n \in Nat : Nonce!Power(n) = p[n]
  BY PowerFacts
<1>2. Nonce!Power(Size) \in Nat /\ Nonce!CompactValue(bits) \in Nat
  <2>1. Nonce!Power(Size) \in Nat
    BY <1>1 DEF Powers
  <2>2. Nonce!CompactValue(bits) = Moved(bits.mantissa, p, bits.exponent)
    BY <1>1, CompactIsMoved
  <2>3. bits.exponent \in Int /\ bits.mantissa \in [1 .. 3 -> 0 .. Byte - 1]
    BY DEF IsCompact
  <2>4. Moved(bits.mantissa, p, bits.exponent) \in Nat
    BY <1>1, <2>3, MovedSteps
  <2> QED
    BY <2>1, <2>2, <2>4
<1>3. CASE bits.negative
  <2>1. read.error = "Negative"
    BY <1>3 DEF Nonce!FromCompact
  <2> HIDE DEF read
  <2> QED
    BY <1>3, <2>1 DEF Nonce!TargetIsNumber, read
<1>4. CASE ~bits.negative /\ high
  <2>1. read.error = "Overflow"
    BY <1>4 DEF Nonce!FromCompact
  <2>2. Nonce!CompactValue(bits) >= Nonce!Power(Size)
    BY <1>1, <1>4, OverflowIsHigh
  <2> HIDE DEF read
  <2> QED
    BY <1>4, <2>1, <2>2 DEF Nonce!TargetIsNumber, read
<1>5. CASE ~bits.negative /\ ~high
  <2>1. \A i \in 1 .. 3 : bits.exponent - i > Size - 1 => bits.mantissa[i] = 0
    BY <1>5
  <2> HIDE DEF high
  <2>2. /\ read.error = "" /\ read.target \in Nonce!Hashes
        /\ Nonce!Value(read.target) = Nonce!CompactValue(bits)
        /\ Nonce!CompactValue(bits) < Nonce!Power(Size)
    BY <1>1, <1>5, <2>1, TargetOfBits
  <2> HIDE DEF read
  <2>3. ASSUME NEW hash \in Nonce!Hashes
        PROVE  /\ Nonce!IsMetBy(read.target, hash)
                    <=> Nonce!Value(Nonce!Reverse(hash)) <= Nonce!Value(read.target)
               /\ Nonce!IsMetBy(read.target, hash) =>
                    Nonce!LeadingZeroBits(Nonce!Reverse(hash)) >= Nonce!LeadingZeroBits(read.target)
    <3>1. Nonce!IsMetBy(read.target, hash)
            <=> Nonce!Value(Nonce!Reverse(hash)) <= Nonce!Value(read.target)
      BY <2>2, TargetsCompareAsNumbers
    <3>2. ASSUME Nonce!IsMetBy(read.target, hash)
          PROVE  Nonce!LeadingZeroBits(Nonce!Reverse(hash)) >= Nonce!LeadingZeroBits(read.target)
      <4> DEFINE a == Nonce!Reverse(hash)
                 b == read.target
                 d == Nonce!FirstDifference(a, b)
      <4>1. a \in Nonce!Hashes /\ b \in Nonce!Hashes
        <5>1. hash \in [1 .. Size -> 0 .. Byte - 1] /\ Len(hash) = Size
          BY DEF Nonce!Hashes
        <5>2. a = [i \in 1 .. Size |-> hash[(Size - i) + 1]]
          BY <5>1 DEF Nonce!Reverse
        <5>3. \A i \in 1 .. Size : (Size - i) + 1 \in 1 .. Size
          OBVIOUS
        <5> QED
          BY <2>2, <5>1, <5>2, <5>3 DEF Nonce!Hashes
      <4>2. d = 0 \/ a[d] < b[d]
        BY <3>2 DEF Nonce!IsMetBy
      <4> HIDE DEF a, b
      <4>3. a \in [1 .. Size -> Int] /\ b \in [1 .. Size -> Int]
        BY <4>1 DEF Nonce!Hashes
      <4>4. \/ d = 0 /\ a = b
            \/ d \in 1 .. Size /\ a[d] # b[d] /\ \A j \in 1 .. d - 1 : a[j] = b[j]
        BY <4>3, FirstDifferenceFacts
      <4> HIDE DEF d
      <4>5. CASE d = 0
        <5>1. a = b
          BY <4>4, <4>5
        <5>2. Nonce!LeadingZeroBits(b) \in Int
          <6>1. \A x \in 0 .. Byte - 1 : Nonce!LeadingZeros(x) \in Nat
            BY ZerosFall
          <6> DEFINE zeros == [i \in 1 .. Size |-> 0]
                     f == Nonce!FirstDifference(b, zeros)
                     L(x) == Nonce!LeadingZeros(x)
          <6>2. zeros \in [1 .. Size -> Int]
            OBVIOUS
          <6>3. Nonce!LeadingZeroBits(b)
                  = IF f = 0 THEN Size * L(0) ELSE (f - 1) * L(0) + L(b[f])
            BY <4>1, FirstNonzero
          <6> HIDE DEF zeros
          <6>4. f = 0 \/ f \in 1 .. Size
            BY <4>3, <6>2, FirstDifferenceFacts
          <6> HIDE DEF f
          <6>5. b \in [1 .. Size -> 0 .. Byte - 1] /\ 0 \in 0 .. Byte - 1
            BY <4>1 DEF Nonce!Hashes
          <6>6. L(0) \in Nat /\ (f # 0 => L(b[f]) \in Nat /\ f - 1 \in Int)
            BY <6>1, <6>4, <6>5
          <6> HIDE DEF L
          <6>7. Size * L(0) \in Int /\ (f # 0 => (f - 1) * L(0) \in Int)
            BY <6>6
          <6> QED
            BY <6>3, <6>6, <6>7
        <5> QED
          BY <5>1, <5>2 DEF a, b
      <4>6. CASE d # 0
        <5>1. d \in 1 .. Size /\ a[d] < b[d] /\ \A j \in 1 .. d - 1 : a[j] = b[j]
          BY <4>2, <4>4, <4>6
        <5>2. Nonce!LeadingZeroBits(a) >= Nonce!LeadingZeroBits(b)
          BY <4>1, <5>1, LowerHasZeros
        <5> QED
          BY <5>2 DEF a, b
      <4> QED
        BY <4>5, <4>6
    <3> QED
      BY <3>1, <3>2
  <2>4. ~(Nonce!CompactValue(bits) >= Nonce!Power(Size))
    <3>1. \A x, y \in Nat : x < y => ~(x >= y)
      OBVIOUS
    <3> QED
      BY <1>2, <2>2, <3>1, Zenon
  <2> QED
    BY <1>5, <2>2, <2>3, <2>4 DEF Nonce!TargetIsNumber, read
<1>6. bits.negative \in BOOLEAN
  BY DEF IsCompact
<1> QED
  BY <1>3, <1>4, <1>5, <1>6
=============================================================================
