------------------------ MODULE PureFunctionsProofs ------------------------
(***************************************************************************)
(* That the pure functions beside the protocol do what MCWorkUnit checks   *)
(* of them, for inputs of any size; PureSpec => []X is proved last for     *)
(* each of its invariants X, from the assumption on Inputs alone. What is  *)
(* not in WorkUnitProofs is here:                                          *)
(*                                                                         *)
(*   chains     the walk is a path of children that only a fork or the     *)
(*              end of the records stops: an induction over the heights    *)
(*              from the top, and one over the heights from the genesis;   *)
(*   joins      a scan sees the decoded bytes only, and a copy decodes to  *)
(*              what the file does: Carries says that the scan of the      *)
(*              joined file goes on where that of one file ends;           *)
(*   encodings  Reads(reader, s, v): the reader takes v from whatever      *)
(*              begins with s, and reports the end on less. Chains says    *)
(*              that one reader goes on with another, and InTurn that two  *)
(*              such readers read the two texts behind one another. So     *)
(*              integers, scripts, inputs, outputs, stacks and the loops   *)
(*              over them are read, and last the transaction.              *)
(***************************************************************************)
EXTENDS WorkUnitProofs

-----------------------------------------------------------------------------
(* The walk along the records of a scan, from parent to child.             *)

\* What the walk needs to know of the records of a scan.
IsScan(records) ==
  \E n \in Nat :
    /\ DOMAIN records = 1 .. n /\ Len(records) = n
    /\ \A i \in 1 .. n : records[i].hash \in DOMAIN Parent
         /\ records[i].previous = Parent[records[i].hash]

LEMMA ChildFacts ==
  ASSUME NEW records, IsScan(records), NEW hash
  PROVE  \/ /\ Blk!Child(records, hash) = {}
            /\ \A block \in Blk!Present(records) : Parent[block] # hash
         \/ \E block \in Blk!Present(records) :
              Parent[block] = hash /\ Blk!Child(records, hash) = {block}
<1> DEFINE I == {i \in 1 .. Len(records) : records[i].previous = hash}
           i == Blk!SelectInSeq(records, LAMBDA record : record.previous = hash)
<1>1. PICK n \in Nat :
        /\ DOMAIN records = 1 .. n /\ Len(records) = n
        /\ \A j \in 1 .. n : records[j].hash \in DOMAIN Parent
                             /\ records[j].previous = Parent[records[j].hash]
  BY DEF IsScan
<1>2. i = IF I # {} THEN Blk!Min(I) ELSE 0
  BY DEF Blk!SelectInSeq
<1>3. Blk!Child(records, hash) = IF i = 0 THEN {} ELSE {records[i].hash}
  BY DEF Blk!Child
<1>4. Blk!Present(records) = {records[j].hash : j \in 1 .. n}
  BY <1>1 DEF Blk!Present
<1>5. I = {j \in 1 .. n : Parent[records[j].hash] = hash}
  BY <1>1
<1> HIDE DEF i, I
<1>6. CASE I = {}
  <2>1. Blk!Child(records, hash) = {}
    BY <1>2, <1>3, <1>6
  <2>2. \A block \in Blk!Present(records) : Parent[block] # hash
    BY <1>4, <1>5, <1>6
  <2> QED
    BY <2>1, <2>2
<1>7. CASE I # {}
  <2>1. i = CHOOSE x \in I : \A y \in I : x <= y
    BY <1>2, <1>7 DEF Blk!Min
  <2>2. I \in SUBSET Nat
    BY <1>5
  <2>3. \E x \in I : \A y \in I : x <= y
    BY <1>7, <2>2, Least
  <2>4. i \in I
    BY <2>1, <2>3
  <2>5. i \in 1 .. n /\ Parent[records[i].hash] = hash /\ i # 0
    BY <1>5, <2>4
  <2>6. records[i].hash \in Blk!Present(records) /\ Blk!Child(records, hash) = {records[i].hash}
    BY <1>3, <1>4, <2>5
  <2> QED
    BY <2>5, <2>6
<1> QED
  BY <1>6, <1>7

LEMMA PresentIsBounded ==
  ASSUME BlockTree, NEW records, IsScan(records)
  PROVE  /\ Blk!Present(records) \subseteq DOMAIN Parent
         /\ \E n \in Nat : \A block \in Blk!Present(records) : block <= n
<1>1. PICK n \in Nat :
        /\ DOMAIN records = 1 .. n
        /\ \A j \in 1 .. n : records[j].hash \in DOMAIN Parent
  BY DEF IsScan
<1>2. Blk!Present(records) = {records[j].hash : j \in 1 .. n}
  BY <1>1 DEF Blk!Present
<1>3. \A j \in 1 .. n : records[j].hash \in Nat
  BY <1>1 DEF BlockTree
<1> DEFINE S == {m \in Nat : m <= n => \E b \in Nat : \A j \in 1 .. m : records[j].hash <= b}
<1>4. 0 \in S
  <2>1. \A j \in 1 .. 0 : records[j].hash <= 0
    OBVIOUS
  <2> QED
    BY <2>1
<1>5. ASSUME NEW m \in Nat, m \in S PROVE m + 1 \in S
  <2> SUFFICES ASSUME m + 1 <= n PROVE \E b \in Nat : \A j \in 1 .. m + 1 : records[j].hash <= b
    OBVIOUS
  <2>1. PICK b \in Nat : \A j \in 1 .. m : records[j].hash <= b
    BY <1>5
  <2> DEFINE h == records[m + 1].hash
             c == IF h <= b THEN b ELSE h
  <2>2. h \in Nat
    BY <1>3
  <2> HIDE DEF h
  <2>3. c \in Nat /\ b <= c /\ h <= c
    BY <2>2
  <2> HIDE DEF c
  <2>4. ASSUME NEW j \in 1 .. m + 1 PROVE records[j].hash <= c
    <3>1. CASE j = m + 1
      BY <2>3, <3>1 DEF h
    <3>2. CASE j \in 1 .. m
      <4>1. records[j].hash <= b /\ records[j].hash \in Nat
        BY <1>3, <2>1, <3>2
      <4> QED
        BY <2>3, <4>1
    <3> QED
      BY <3>1, <3>2
  <2> QED
    BY <2>3, <2>4
<1> HIDE DEF S
<1>6. \A m \in Nat : m \in S
  BY <1>4, <1>5, Induction
<1>7. \E b \in Nat : \A j \in 1 .. n : records[j].hash <= b
  <2>1. n \in S /\ n <= n
    BY <1>6
  <2> QED
    BY <2>1 DEF S
<1> QED
  BY <1>1, <1>2, <1>7

\* A path that descends from parent to child as far as the records lead.
IsWalk(w, hash, records) ==
  \E n \in Nat \ {0} :
    /\ Len(w) = n /\ w \in [1 .. n -> DOMAIN Parent] /\ w[1] = hash
    /\ \A i \in 1 .. n - 1 : w[i + 1] \in Blk!Present(records) /\ Parent[w[i + 1]] = w[i]
    /\ \A block \in Blk!Present(records) : Parent[block] # w[n]

LEMMA WalkGrows ==
  ASSUME BlockTree, NEW records, NEW hash \in DOMAIN Parent, NEW w, NEW child,
         child \in Blk!Present(records), Parent[child] = hash, IsWalk(w, child, records)
  PROVE  IsWalk(<<hash>> \o w, hash, records)
<1>1. PICK n \in Nat \ {0} :
        /\ Len(w) = n /\ w \in [1 .. n -> DOMAIN Parent] /\ w[1] = child
        /\ \A i \in 1 .. n - 1 : w[i + 1] \in Blk!Present(records) /\ Parent[w[i + 1]] = w[i]
        /\ \A block \in Blk!Present(records) : Parent[block] # w[n]
  BY DEF IsWalk
<1> DEFINE x == <<hash>> \o w
<1>2. /\ x \in [1 .. n + 1 -> DOMAIN Parent] /\ Len(x) = n + 1 /\ x[1] = hash
      /\ \A i \in 1 .. n : x[i + 1] = w[i]
  <2>1. <<hash>> \in Seq(DOMAIN Parent) /\ w \in Seq(DOMAIN Parent) /\ Len(<<hash>>) = 1
        /\ <<hash>>[1] = hash
    BY <1>1
  <2>2. /\ x \in Seq(DOMAIN Parent) /\ Len(x) = Len(<<hash>>) + Len(w)
        /\ \A i \in 1 .. Len(<<hash>>) + Len(w) :
             x[i] = IF i <= Len(<<hash>>) THEN <<hash>>[i] ELSE w[i - Len(<<hash>>)]
    BY <2>1, ConcatProperties
  <2> HIDE DEF x
  <2>3. Len(x) = n + 1 /\ \A i \in 1 .. n + 1 : x[i] = IF i <= 1 THEN <<hash>>[i] ELSE w[i - 1]
    <3>1. 1 + n = n + 1
      BY <1>1
    <3> QED
      BY <1>1, <2>1, <2>2, <3>1
  <2>4. x \in [1 .. n + 1 -> DOMAIN Parent]
    BY <2>2, <2>3
  <2>5. x[1] = hash
    <3>1. 1 \in 1 .. n + 1 /\ 1 <= 1
      BY <1>1
    <3> QED
      BY <2>1, <2>3, <3>1
  <2>6. ASSUME NEW i \in 1 .. n PROVE x[i + 1] = w[i]
    <3>1. i + 1 \in 1 .. n + 1 /\ ~(i + 1 <= 1) /\ (i + 1) - 1 = i
      OBVIOUS
    <3> QED
      BY <2>3, <3>1
  <2> QED
    BY <2>3, <2>4, <2>5, <2>6
<1> HIDE DEF x
<1>3. ASSUME NEW i \in 1 .. (n + 1) - 1
      PROVE  x[i + 1] \in Blk!Present(records) /\ Parent[x[i + 1]] = x[i]
  <2>1. CASE i = 1
    <3>1. x[1 + 1] = w[1]
      BY <1>1, <1>2
    <3> QED
      BY <1>1, <1>2, <2>1, <3>1
  <2>2. CASE i # 1
    <3>1. i - 1 \in 1 .. n - 1 /\ (i - 1) + 1 = i /\ i \in 1 .. n /\ i - 1 \in 1 .. n
      BY <2>2
    <3>2. x[i + 1] = w[i]
      BY <1>2, <3>1
    <3>3. x[i] = w[i - 1]
      <4>1. x[(i - 1) + 1] = w[i - 1]
        BY <1>2, <3>1
      <4> QED
        BY <3>1, <4>1
    <3>4. w[i] \in Blk!Present(records) /\ Parent[w[i]] = w[i - 1]
      <4>1. w[(i - 1) + 1] \in Blk!Present(records) /\ Parent[w[(i - 1) + 1]] = w[i - 1]
        BY <1>1, <3>1
      <4> QED
        BY <3>1, <4>1
    <3> QED
      BY <3>2, <3>3, <3>4
  <2> QED
    BY <2>1, <2>2
<1>4. x[n + 1] = w[n]
  BY <1>1, <1>2
<1>5. n + 1 \in Nat \ {0} /\ \A block \in Blk!Present(records) : Parent[block] # x[n + 1]
  BY <1>1, <1>4
<1> QED
  BY <1>2, <1>3, <1>5 DEF IsWalk, x

LEMMA WalkEnds ==
  ASSUME BlockTree, NEW records, NEW hash \in DOMAIN Parent,
         \A block \in Blk!Present(records) : Parent[block] # hash
  PROVE  IsWalk(<<hash>>, hash, records)
<1>1. Len(<<hash>>) = 1 /\ <<hash>> \in [1 .. 1 -> DOMAIN Parent] /\ <<hash>>[1] = hash
      /\ 1 \in Nat \ {0} /\ 1 .. 1 - 1 = {}
  OBVIOUS
<1> QED
  BY <1>1 DEF IsWalk

LEMMA WalkFacts ==
  ASSUME BlockTree, NEW records, IsScan(records), GENESIS \in Blk!Present(records)
  PROVE  IsWalk(Blk!Walk(records), GENESIS, records)
<1> DEFINE D == DOMAIN Parent
           P == Blk!Present(records)
           child(h) == Blk!Child(records, h)
           next(h) == CHOOSE c \in child(h) : TRUE
           Defines(f) == f = [h \in D |-> IF child(h) = {} THEN <<h>> ELSE <<h>> \o f[next(h)]]
           from == CHOOSE f : Defines(f)
<1>1. Blk!Walk(records) = from[GENESIS]
  BY DEF Blk!Walk
<1>2. PICK top \in Nat : \A block \in P : block <= top
  BY PresentIsBounded
<1>3. P \subseteq D /\ D \subseteq Nat /\ \A b \in D : Parent[b] < b
  BY PresentIsBounded DEF BlockTree
<1>4. \A h \in D : \/ child(h) = {} /\ \A block \in P : Parent[block] # h
                   \/ child(h) # {} /\ next(h) \in P /\ Parent[next(h)] = h
  <2> SUFFICES ASSUME NEW h \in D
               PROVE  \/ child(h) = {} /\ \A block \in P : Parent[block] # h
                      \/ child(h) # {} /\ next(h) \in P /\ Parent[next(h)] = h
    OBVIOUS
  <2>1. \/ child(h) = {} /\ \A block \in P : Parent[block] # h
        \/ \E block \in P : Parent[block] = h /\ child(h) = {block}
    BY ChildFacts
  <2> HIDE DEF child, P
  <2>2. ASSUME NEW block \in P, Parent[block] = h, child(h) = {block}
        PROVE  child(h) # {} /\ next(h) \in P /\ Parent[next(h)] = h
    <3>1. next(h) = block
      BY <2>2
    <3> QED
      BY <2>2, <3>1
  <2> HIDE DEF next
  <2>3. CASE child(h) = {}
    <3>1. \A block \in P : Parent[block] # h
      BY <2>1, <2>3
    <3> QED
      BY <2>3, <3>1
  <2>4. CASE child(h) # {}
    <3>1. PICK block \in P : Parent[block] = h /\ child(h) = {block}
      BY <2>1, <2>4
    <3> QED
      BY <2>2, <3>1
  <2> QED
    BY <2>3, <2>4
<1> HIDE DEF child, P, D
<1> DEFINE base == {h \in D : child(h) = {}}
           rank == [h \in D |-> IF h <= top THEN top - h ELSE 0]
           down == [h \in D |-> IF child(h) = {} THEN h ELSE next(h)]
           start == [h \in D |-> <<h>>]
           step == [s \in D \X Seq(D) |-> <<s[1]>> \o s[2]]
<1> HIDE DEF next
<1>5. rank \in [D -> Nat] /\ down \in [D -> D] /\ start \in [D -> Seq(D)]
  <2>1. \A h \in D : <<h>> \in Seq(D)
    OBVIOUS
  <2>3. \A h \in D : child(h) # {} => next(h) \in D
    BY <1>3, <1>4
  <2>2. \A h \in D : h <= top => top - h \in Nat
    BY <1>3
  <2> QED
    BY <2>1, <2>2, <2>3
<1>6. step \in [D \X Seq(D) -> Seq(D)] /\ \A h \in D, w \in Seq(D) : step[<<h, w>>] = <<h>> \o w
  OBVIOUS
<1>7. \A h \in D : h \notin base => rank[down[h]] < rank[h]
  <2> SUFFICES ASSUME NEW h \in D, child(h) # {} PROVE rank[down[h]] < rank[h]
    OBVIOUS
  <2>1. down[h] = next(h) /\ next(h) \in P /\ next(h) \in D /\ h < next(h) /\ next(h) <= top
        /\ next(h) \in Nat /\ h \in Nat
    BY <1>2, <1>3, <1>4
  <2>2. rank[next(h)] = top - next(h) /\ rank[h] = top - h
    BY <2>1
  <2> QED
    BY <2>1, <2>2
<1>8. \A h \in D : down[h] = (IF child(h) = {} THEN h ELSE next(h)) /\ start[h] = <<h>>
  OBVIOUS
<1> HIDE DEF rank, down, start, step
<1>9. PICK g \in [D -> Seq(D)] : Descended(g, D, base, start, down, step)
  <2> HIDE DEF base
  <2> QED
    BY <1>5, <1>6, <1>7, Descends
<1>10. Defines(g)
  <2>1. ASSUME NEW h \in D
        PROVE  g[h] = IF child(h) = {} THEN <<h>> ELSE <<h>> \o g[next(h)]
    <3>1. g[h] = IF h \in base THEN start[h] ELSE step[<<h, g[down[h]]>>]
      BY <1>9 DEF Descended
    <3>2. CASE child(h) = {}
      BY <1>8, <3>1, <3>2
    <3>3. CASE child(h) # {}
      <4>1. down[h] = next(h) /\ next(h) \in D
        BY <1>3, <1>4, <1>8, <3>3
      <4>2. g[next(h)] \in Seq(D)
        BY <1>9, <4>1
      <4> QED
        BY <1>6, <3>1, <3>3, <4>1, <4>2
    <3> QED
      BY <3>2, <3>3
  <2>2. g = [h \in D |-> g[h]]
    BY <1>9
  <2>3. [h \in D |-> g[h]] = [h \in D |-> IF child(h) = {} THEN <<h>> ELSE <<h>> \o g[next(h)]]
    BY <2>1
  <2> QED
    BY <2>2, <2>3
<1>11. Defines(from)
  <2> HIDE DEF Defines
  <2> QED
    BY <1>10
<1> HIDE DEF from
<1>12. \A h \in D : from[h] = IF child(h) = {} THEN <<h>> ELSE <<h>> \o from[next(h)]
  BY <1>11
<1> HIDE DEF Defines
<1> DEFINE S == {h \in D : IsWalk(from[h], h, records)}
<1>13. \A h \in D : h \in S
  <2>1. ASSUME NEW h \in D, \A y \in D : rank[y] < rank[h] => y \in S PROVE h \in S
    <3>1. CASE child(h) = {}
      <4>1. IsWalk(<<h>>, h, records)
        BY <1>4, <3>1, WalkEnds DEF P, D
      <4>2. from[h] = <<h>>
        BY <1>12, <3>1
      <4> QED
        BY <4>1, <4>2
    <3>2. CASE child(h) # {}
      <4>1. next(h) \in P /\ Parent[next(h)] = h /\ next(h) \in D
        BY <1>3, <1>4, <3>2
      <4>2. rank[next(h)] < rank[h]
        <5>1. down[h] = next(h) /\ h \notin base
          BY <1>8, <3>2
        <5> QED
          BY <1>7, <5>1
      <4>3. IsWalk(from[next(h)], next(h), records)
        BY <2>1, <4>1, <4>2
      <4>4. IsWalk(<<h>> \o from[next(h)], h, records)
        BY <4>1, <4>3, WalkGrows DEF P, D
      <4>5. from[h] = <<h>> \o from[next(h)]
        BY <1>12, <3>2
      <4> QED
        BY <4>4, <4>5
    <3> QED
      BY <3>1, <3>2
  <2> HIDE DEF S
  <2> QED
    BY <1>5, <2>1, RankInduction
<1>14. GENESIS \in D
  BY DEF BlockTree, D
<1> QED
  BY <1>1, <1>13, <1>14

\* The blocks connected to the genesis block: it, and who has a connected parent.
LEMMA DescendantsFacts ==
  ASSUME BlockTree, NEW records, IsScan(records)
  PROVE  LET P == Blk!Present(records)
             R == Blk!Descendants(records)
         IN  /\ R \subseteq P
             /\ GENESIS \in P => GENESIS \in R
             /\ \A block \in P : block # GENESIS => (block \in R <=> Parent[block] \in R)
             /\ GENESIS \notin P => R = {}
<1> DEFINE D == DOMAIN Parent
           P == Blk!Present(records)
           R == Blk!Descendants(records)
           Defines(f) == f = [h \in D |-> h \in P /\ (h = GENESIS \/ f[Parent[h]])]
           reached == CHOOSE f : Defines(f)
<1>1. R = {h \in P : reached[h]}
  BY DEF Blk!Descendants
<1>2. P \subseteq D /\ D \subseteq Nat /\ GENESIS \in D
      /\ \A b \in D : b # GENESIS => Parent[b] \in D /\ Parent[b] < b
  BY PresentIsBounded DEF BlockTree
<1> HIDE DEF P, D
<1> DEFINE base == {GENESIS}
           rank == [h \in D |-> h]
           down == [h \in D |-> IF h = GENESIS THEN h ELSE Parent[h]]
           start == [h \in D |-> h \in P]
           step == [s \in D \X BOOLEAN |-> s[1] \in P /\ s[2]]
<1>3. rank \in [D -> Nat] /\ down \in [D -> D] /\ start \in [D -> BOOLEAN]
  BY <1>2
<1>4. step \in [D \X BOOLEAN -> BOOLEAN] /\ \A h \in D, b \in BOOLEAN : step[<<h, b>>] = (h \in P /\ b)
  OBVIOUS
<1>5. \A h \in D : /\ rank[h] = h /\ down[h] = (IF h = GENESIS THEN h ELSE Parent[h])
                   /\ start[h] = (h \in P)
  OBVIOUS
<1> HIDE DEF rank, down, start, step
<1>6. PICK g \in [D -> BOOLEAN] : Descended(g, D, base, start, down, step)
  <2>1. \A h \in D : h \notin base => rank[down[h]] < rank[h]
    <3> SUFFICES ASSUME NEW h \in D, h # GENESIS PROVE rank[down[h]] < rank[h]
      OBVIOUS
    <3>1. down[h] = Parent[h] /\ Parent[h] \in D /\ Parent[h] < h
      BY <1>2, <1>5
    <3>2. rank[Parent[h]] = Parent[h] /\ rank[h] = h
      BY <1>5, <3>1
    <3> QED
      BY <3>1, <3>2
  <2> HIDE DEF base
  <2> QED
    BY <1>3, <1>4, <2>1, Descends
<1>7. Defines(g)
  <2>1. ASSUME NEW h \in D PROVE g[h] = (h \in P /\ (h = GENESIS \/ g[Parent[h]]))
    <3>1. g[h] = IF h \in base THEN start[h] ELSE step[<<h, g[down[h]]>>]
      BY <1>6 DEF Descended
    <3>2. CASE h = GENESIS
      <4>1. g[h] = (h \in P)
        BY <1>5, <3>1, <3>2
      <4> QED
        BY <3>2, <4>1
    <3>3. CASE h # GENESIS
      <4>1. down[h] = Parent[h] /\ Parent[h] \in D
        BY <1>2, <1>5, <3>3
      <4>2. g[Parent[h]] \in BOOLEAN
        BY <1>6, <4>1
      <4>3. g[h] = step[<<h, g[Parent[h]]>>]
        BY <3>1, <3>3, <4>1
      <4>4. g[h] = (h \in P /\ g[Parent[h]])
        BY <1>4, <4>2, <4>3
      <4> QED
        BY <3>3, <4>4
    <3> QED
      BY <3>2, <3>3
  <2>2. g = [h \in D |-> g[h]]
    BY <1>6
  <2>3. [h \in D |-> g[h]] = [h \in D |-> h \in P /\ (h = GENESIS \/ g[Parent[h]])]
    BY <2>1
  <2> QED
    BY <2>2, <2>3
<1>8. Defines(reached)
  <2> HIDE DEF Defines
  <2> QED
    BY <1>7
<1> HIDE DEF reached
<1>9. \A h \in D : reached[h] = (h \in P /\ (h = GENESIS \/ reached[Parent[h]]))
  BY <1>8
<1> HIDE DEF Defines
<1> HIDE <1>8
<1>10. \A h \in D : reached[h] \in BOOLEAN
  <2> SUFFICES ASSUME NEW h \in D PROVE reached[h] \in BOOLEAN
    OBVIOUS
  <2>1. reached[h] = (h \in P /\ (h = GENESIS \/ reached[Parent[h]]))
    BY <1>9
  <2>2. (h \in P /\ (h = GENESIS \/ reached[Parent[h]])) \in BOOLEAN
    OBVIOUS
  <2> QED
    BY <2>1, <2>2, Zenon
<1> HIDE DEF R
<1>11. R \subseteq P /\ (GENESIS \in P => GENESIS \in R)
  <2>1. reached[GENESIS] = (GENESIS \in P /\ (GENESIS = GENESIS \/ reached[Parent[GENESIS]]))
    BY <1>2, <1>9
  <2>2. GENESIS \in P => reached[GENESIS]
    BY <2>1, Zenon
  <2> QED
    BY <1>1, <2>2
<1>12. ASSUME NEW block \in P, block # GENESIS
       PROVE  /\ block \in R => Parent[block] \in R
              /\ Parent[block] \in R => block \in R
  <2>1. block \in D /\ Parent[block] \in D
    BY <1>2, <1>12
  <2>2. reached[block] = (block \in P /\ (block = GENESIS \/ reached[Parent[block]]))
    BY <1>9, <2>1
  <2>3. reached[Parent[block]]
          = (Parent[block] \in P /\ (Parent[block] = GENESIS \/ reached[Parent[Parent[block]]]))
    BY <1>9, <2>1
  <2>4. ASSUME block \in R PROVE Parent[block] \in R
    <3>1. reached[block]
      BY <1>1, <2>4
    <3>2. reached[Parent[block]]
      BY <1>12, <2>2, <3>1, Zenon
    <3>3. Parent[block] \in P
      BY <2>3, <3>2, Zenon
    <3> QED
      BY <1>1, <3>2, <3>3
  <2>5. ASSUME Parent[block] \in R PROVE block \in R
    <3>1. reached[Parent[block]]
      BY <1>1, <2>5
    <3>2. reached[block]
      BY <1>12, <2>2, <3>1, Zenon
    <3> QED
      BY <1>1, <1>12, <3>2
  <2> QED
    BY <2>4, <2>5
<1>13. ASSUME GENESIS \notin P PROVE R = {}
  <2> DEFINE S == {h \in D : h \notin R}
  <2>1. ASSUME NEW h \in D, \A y \in D : rank[y] < rank[h] => y \in S PROVE h \in S
    <3> SUFFICES ASSUME h \in R PROVE FALSE
      OBVIOUS
    <3>1. h \in P /\ h # GENESIS
      BY <1>11, <1>13
    <3>2. Parent[h] \in R /\ Parent[h] \in D /\ Parent[h] < h
      BY <1>2, <1>12, <3>1
    <3>3. rank[Parent[h]] < rank[h]
      BY <1>5, <3>2
    <3> QED
      BY <2>1, <3>2, <3>3
  <2> HIDE DEF S
  <2>2. \A h \in D : h \in S
    BY <1>3, <2>1, RankInduction
  <2> QED
    BY <1>2, <1>11, <2>2 DEF S
<1> QED
  BY <1>11, <1>12, <1>13 DEF P, R
\* The summary of a scan counts the blocks that are reachable from the genesis block, and
\* no others; of a chain that forks it counts one branch up to its end (main.rs:85-106).
THEOREM SummaryCountsReachable ==
  ASSUME BlockTree, NEW records, IsScan(records)
  PROVE  Blk!SummaryIsReachability(records)
<1> DEFINE P == Blk!Present(records)
           R == Blk!Descendants(records)
           W == Blk!Walk(records)
           n == Len(W)
           summary == Blk!Summarise(records)
           forked == \E a, b \in P : a # b /\ Parent[a] = Parent[b]
<1>1. \A S : Blk!Cardinality(S) = Cardinality(S)
  BY DEF Blk!Cardinality, Cardinality
<1>2. summary.connected = (IF GENESIS \in P THEN n ELSE 0)
      /\ summary.tip_hash = (IF GENESIS \in P THEN {Blk!Last(W)} ELSE {})
  BY DEF Blk!Summarise
<1>3. PICK top \in Nat : \A block \in P : block <= top
  BY PresentIsBounded
<1>4. /\ R \subseteq P
      /\ GENESIS \in P => GENESIS \in R
      /\ \A block \in P : block # GENESIS => (block \in R <=> Parent[block] \in R)
      /\ GENESIS \notin P => R = {}
  BY DescendantsFacts
<1>5. P \subseteq DOMAIN Parent /\ DOMAIN Parent \subseteq Nat
      /\ \A b \in DOMAIN Parent : Parent[b] \in Nat /\ Parent[b] < b
      /\ Parent[GENESIS] \notin DOMAIN Parent
  BY PresentIsBounded DEF BlockTree
<1>6. GENESIS \in P => IsWalk(W, GENESIS, records)
  BY WalkFacts
<1>7. Blk!Last(W) = W[n]
  BY DEF Blk!Last
<1> HIDE DEF P, R, W, n, summary
<1>8. IsFiniteSet(R) /\ Cardinality(R) \in Nat
  <2>1. R \in SUBSET Nat /\ \A r \in R : r <= top
    BY <1>3, <1>4, <1>5
  <2>2. IsFiniteSet(R)
    BY <2>1, FS_BoundedSetOfNaturals
  <2> QED
    BY <2>2, FS_CardinalityType
<1>9. SUFFICES /\ summary.connected <= Cardinality(R)
               /\ ~forked => summary.connected = Cardinality(R)
               /\ \A tip \in summary.tip_hash : \A block \in P : Parent[block] # tip
  BY <1>1 DEF Blk!SummaryIsReachability, P, R, summary
<1>10. CASE GENESIS \notin P
  <2>1. R = {} /\ Cardinality(R) = 0
    BY <1>4, <1>10, FS_EmptySet
  <2>2. summary.connected = 0 /\ summary.tip_hash = {}
    BY <1>2, <1>10
  <2> QED
    BY <2>1, <2>2
<1>11. CASE GENESIS \in P
  <2>1. n \in Nat \ {0} /\ W \in [1 .. n -> DOMAIN Parent] /\ W[1] = GENESIS
        /\ (\A i \in 1 .. n - 1 : W[i + 1] \in P /\ Parent[W[i + 1]] = W[i])
        /\ \A block \in P : Parent[block] # W[n]
    BY <1>6, <1>11 DEF IsWalk, n, P
  <2>2. summary.connected = n /\ summary.tip_hash = {W[n]}
    BY <1>2, <1>7, <1>11
  <2> DEFINE In == {i \in Nat : 1 <= i /\ i <= n => W[i] \in R}
  <2>3. \A i \in 1 .. n : W[i] \in R
    <3>1. 0 \in In
      OBVIOUS
    <3>2. ASSUME NEW i \in Nat, i \in In PROVE i + 1 \in In
      <4> SUFFICES ASSUME i + 1 <= n PROVE W[i + 1] \in R
        OBVIOUS
      <4>1. CASE i = 0
        BY <1>4, <1>11, <2>1, <4>1
      <4>2. CASE i # 0
        <5>1. i \in 1 .. n - 1 /\ i \in 1 .. n /\ W[i] \in R
          BY <2>1, <3>2, <4>2
        <5>2. W[i + 1] \in P /\ Parent[W[i + 1]] = W[i]
          BY <2>1, <5>1
        <5>3. W[i] \in DOMAIN Parent
          BY <2>1, <5>1
        <5>4. W[i + 1] # GENESIS
          BY <1>5, <5>2, <5>3
        <5> QED
          BY <1>4, <5>1, <5>2, <5>4
      <4> QED
        BY <4>1, <4>2
    <3> HIDE DEF In
    <3>3. \A i \in Nat : i \in In
      BY <3>1, <3>2, Induction
    <3> QED
      BY <2>1, <3>3 DEF In
  <2> HIDE DEF In
  <2>4. \A i \in 1 .. n - 1 : W[i] < W[i + 1] /\ W[i] \in Nat /\ W[i + 1] \in Nat
    <3> SUFFICES ASSUME NEW i \in 1 .. n - 1
                 PROVE  W[i] < W[i + 1] /\ W[i] \in Nat /\ W[i + 1] \in Nat
      OBVIOUS
    <3>1. i \in 1 .. n /\ i + 1 \in 1 .. n
      BY <2>1
    <3>2. W[i] \in DOMAIN Parent /\ W[i + 1] \in DOMAIN Parent /\ Parent[W[i + 1]] = W[i]
      BY <2>1, <3>1
    <3> QED
      BY <1>5, <3>2
  <2> DEFINE Up == {k \in Nat : \A i \in 1 .. n : i + (k + 1) <= n => W[i] < W[i + (k + 1)]}
  <2>5. \A k \in Nat : k \in Up
    <3>1. 0 \in Up
      <4> SUFFICES ASSUME NEW i \in 1 .. n, i + (0 + 1) <= n PROVE W[i] < W[i + (0 + 1)]
        OBVIOUS
      <4>1. i \in 1 .. n - 1 /\ i + (0 + 1) = i + 1
        BY <2>1
      <4> QED
        BY <2>4, <4>1
    <3>2. ASSUME NEW k \in Nat, k \in Up PROVE k + 1 \in Up
      <4> SUFFICES ASSUME NEW i \in 1 .. n, i + ((k + 1) + 1) <= n PROVE W[i] < W[i + ((k + 1) + 1)]
        OBVIOUS
      <4>1. i + (k + 1) <= n /\ i + (k + 1) \in 1 .. n - 1 /\ (i + (k + 1)) + 1 = i + ((k + 1) + 1)
            /\ i \in 1 .. n - 1
        BY <2>1
      <4>2. W[i] < W[i + (k + 1)]
        BY <3>2, <4>1
      <4>3. W[i + (k + 1)] < W[(i + (k + 1)) + 1] /\ W[i + (k + 1)] \in Nat
            /\ W[(i + (k + 1)) + 1] \in Nat
        BY <2>4, <4>1
      <4>4. W[i] \in Nat
        BY <2>4, <4>1
      <4> QED
        BY <4>1, <4>2, <4>3, <4>4
    <3> HIDE DEF Up
    <3> QED
      BY <3>1, <3>2, Induction
  <2>6. ASSUME NEW i \in 1 .. n, NEW j \in 1 .. n, i < j PROVE W[i] # W[j]
    <3>1. (j - i) - 1 \in Nat /\ i + (((j - i) - 1) + 1) = j /\ j <= n
      BY <2>1, <2>6
    <3>2. W[i] < W[i + (((j - i) - 1) + 1)]
      BY <2>5, <3>1
    <3>3. W[i] \in Nat /\ W[j] \in Nat
      BY <1>5, <2>1
    <3> QED
      BY <3>1, <3>2, <3>3
  <2> HIDE DEF Up
  <2>7. W \in Injection(1 .. n, R)
    <3>1. W \in [1 .. n -> R]
      BY <2>1, <2>3
    <3>2. ASSUME NEW i \in 1 .. n, NEW j \in 1 .. n, W[i] = W[j] PROVE i = j
      <4>1. ~(i < j) /\ ~(j < i)
        BY <2>6, <3>2
      <4> QED
        BY <2>1, <4>1
    <3>3. IsInjective(W)
      BY <2>1, <3>2 DEF IsInjective
    <3> QED
      BY <3>1, <3>3 DEF Injection
  <2>8. Cardinality(1 .. n) = n
    <3>1. Cardinality(1 .. n) = IF 1 > n THEN 0 ELSE n - 1 + 1
      BY <2>1, FS_Interval
    <3> QED
      BY <2>1, <3>1
  <2>9. n <= Cardinality(R) /\ (W \in Surjection(1 .. n, R) => n = Cardinality(R))
    BY <1>8, <2>7, <2>8, FS_Injection
  <2>10. ASSUME ~forked PROVE W \in Surjection(1 .. n, R)
    <3> DEFINE S == {h \in DOMAIN Parent : h \in R => \E i \in 1 .. n : W[i] = h}
               rank == [h \in DOMAIN Parent |-> h]
    <3>1. rank \in [DOMAIN Parent -> Nat] /\ \A h \in DOMAIN Parent : rank[h] = h
      BY <1>5
    <3> HIDE DEF rank
    <3>2. ASSUME NEW h \in DOMAIN Parent, \A y \in DOMAIN Parent : rank[y] < rank[h] => y \in S
          PROVE  h \in S
      <4> SUFFICES ASSUME h \in R PROVE \E i \in 1 .. n : W[i] = h
        OBVIOUS
      <4>1. CASE h = GENESIS
        <5>1. 1 \in 1 .. n
          BY <2>1
        <5> QED
          BY <2>1, <4>1, <5>1
      <4>2. CASE h # GENESIS
        <5>1. h \in P /\ Parent[h] \in R
          BY <1>4, <4>2
        <5>2. Parent[h] \in DOMAIN Parent /\ Parent[h] < h
          BY <1>4, <1>5, <5>1
        <5>3. rank[Parent[h]] < rank[h]
          BY <3>1, <5>2
        <5>4. PICK i \in 1 .. n : W[i] = Parent[h]
          BY <3>2, <5>1, <5>2, <5>3
        <5>5. i # n
          BY <2>1, <5>1, <5>4
        <5>6. i \in 1 .. n - 1 /\ i + 1 \in 1 .. n
          BY <2>1, <5>5
        <5>7. W[i + 1] \in P /\ Parent[W[i + 1]] = Parent[h]
          BY <2>1, <5>4, <5>6
        <5>8. W[i + 1] = h
          BY <2>10, <5>1, <5>7
        <5> QED
          BY <5>6, <5>8
      <4> QED
        BY <4>1, <4>2
    <3> HIDE DEF S
    <3>3. \A h \in DOMAIN Parent : h \in S
      BY <3>1, <3>2, RankInduction
    <3>4. \A h \in R : \E i \in 1 .. n : W[i] = h
      BY <1>4, <1>5, <3>3 DEF S
    <3>5. W \in [1 .. n -> R]
      BY <2>1, <2>3
    <3> QED
      BY <3>4, <3>5 DEF Surjection
  <2> HIDE DEF forked
  <2> QED
    BY <2>1, <2>2, <2>9, <2>10
<1> QED
  BY <1>10, <1>11

-----------------------------------------------------------------------------
(* The bits of a byte and of a key: what is encoded twice with the         *)
(* same key is what it was.                                                *)

\* Bit by bit.
Xors(x) ==
  /\ x \in [Nat -> [Nat -> Nat]]
  /\ \A b \in Nat : x[0][b] = b
  /\ \A a \in Nat \ {0} : \A b \in Nat : x[a][b] = ((a + b) % 2) + 2 * x[a \div 2][b \div 2]

LEMMA XorFacts ==
  \E x : Xors(x) /\ \A a, b \in Nat : Blk!Xor(a, b) = x[a][b]
<1> DEFINE V == [Nat -> Nat]
           Row(x, f) == [y \in Nat |-> ((x + y) % 2) + 2 * f[y \div 2]]
           Defines(f) == f = [x \in Nat |->
                                [y \in Nat |-> IF x = 0 THEN y
                                               ELSE ((x + y) % 2) + 2 * f[x \div 2][y \div 2]]]
           xor == CHOOSE f : Defines(f)
           rank == [x \in Nat |-> x]
           down == [x \in Nat |-> x \div 2]
           same == [y \in Nat |-> y]
           start == [x \in Nat |-> same]
           step == [s \in Nat \X V |-> Row(s[1], s[2])]
<1>1. \A a, b \in Nat : Blk!Xor(a, b) = xor[a][b]
  BY DEF Blk!Xor
<1>2. \A n \in Nat : n \div 2 \in Nat /\ (n # 0 => n \div 2 < n) /\ n % 2 \in Nat
  OBVIOUS
<1>3. ASSUME NEW x \in Nat, NEW f \in V PROVE Row(x, f) \in V
  <2>1. ASSUME NEW y \in Nat PROVE ((x + y) % 2) + 2 * f[y \div 2] \in Nat
    <3>1. (x + y) % 2 \in Nat /\ f[y \div 2] \in Nat
      BY <1>2
    <3> QED
      BY <3>1
  <2> QED
    BY <2>1
<1>4. same \in V /\ \A y \in Nat : same[y] = y
  OBVIOUS
<1> HIDE DEF same
<1>5. step \in [Nat \X V -> V] /\ \A x \in Nat, f \in V : step[<<x, f>>] = Row(x, f)
  <2> HIDE DEF V, Row
  <2> QED
    BY <1>3
<1>6. rank \in [Nat -> Nat] /\ down \in [Nat -> Nat] /\ start \in [Nat -> V]
  BY <1>2, <1>4
<1>7. \A x \in Nat : rank[x] = x /\ down[x] = x \div 2 /\ start[x] = same
  OBVIOUS
<1> HIDE DEF rank, down, start, step
<1>8. PICK g \in [Nat -> V] : Descended(g, Nat, {0}, start, down, step)
  <2>1. \A x \in Nat : x \notin {0} => rank[down[x]] < rank[x]
    BY <1>2, <1>7
  <2> HIDE DEF V
  <2> QED
    BY <1>5, <1>6, <2>1, Descends
<1>9. \A x \in Nat : g[x] = IF x = 0 THEN same ELSE Row(x, g[x \div 2])
  <2> SUFFICES ASSUME NEW x \in Nat PROVE g[x] = IF x = 0 THEN same ELSE Row(x, g[x \div 2])
    OBVIOUS
  <2>1. g[x] = IF x \in {0} THEN start[x] ELSE step[<<x, g[down[x]]>>]
    BY <1>8 DEF Descended
  <2>2. down[x] = x \div 2 /\ x \div 2 \in Nat /\ g[x \div 2] \in V
    BY <1>2, <1>7, <1>8
  <2> HIDE DEF Row, V
  <2> QED
    BY <1>5, <1>7, <2>1, <2>2
<1>10. Defines(g)
  <2>1. ASSUME NEW x \in Nat
        PROVE  g[x] = [y \in Nat |-> IF x = 0 THEN y
                                     ELSE ((x + y) % 2) + 2 * g[x \div 2][y \div 2]]
    <3>1. CASE x = 0
      BY <1>9, <3>1 DEF same
    <3>2. CASE x # 0
      <4>1. g[x] = Row(x, g[x \div 2])
        BY <1>9, <3>2
      <4> QED
        BY <3>2, <4>1
    <3> QED
      BY <3>1, <3>2
  <2>2. g = [x \in Nat |-> g[x]]
    BY <1>8
  <2>3. [x \in Nat |-> g[x]]
          = [x \in Nat |-> [y \in Nat |-> IF x = 0 THEN y
                                          ELSE ((x + y) % 2) + 2 * g[x \div 2][y \div 2]]]
    BY <2>1
  <2> QED
    BY <2>2, <2>3
<1>11. Defines(xor)
  <2> HIDE DEF Defines
  <2> QED
    BY <1>10
<1> HIDE DEF xor
<1>12. \A x \in Nat : xor[x] = [y \in Nat |-> IF x = 0 THEN y
                                              ELSE ((x + y) % 2) + 2 * xor[x \div 2][y \div 2]]
  BY <1>11
<1>13. xor = [x \in Nat |-> xor[x]]
  BY <1>11
<1> HIDE DEF Defines
<1> HIDE <1>11
<1>14. \A b \in Nat : xor[0][b] = b
  BY <1>12
<1>15. \A a \in Nat \ {0} : \A b \in Nat : xor[a][b] = ((a + b) % 2) + 2 * xor[a \div 2][b \div 2]
  BY <1>12
<1> DEFINE S == {x \in Nat : xor[x] \in V}
<1>16. \A x \in Nat : x \in S
  <2>1. ASSUME NEW x \in Nat, \A y \in Nat : rank[y] < rank[x] => y \in S PROVE x \in S
    <3>1. CASE x = 0
      <4>1. xor[0] = [y \in Nat |-> y]
        <5>1. [y \in Nat |-> IF 0 = 0 THEN y ELSE ((0 + y) % 2) + 2 * xor[0 \div 2][y \div 2]]
                = [y \in Nat |-> y]
          OBVIOUS
        <5> QED
          BY <1>12, <5>1
      <4> QED
        BY <3>1, <4>1
    <3>2. CASE x # 0
      <4>1. xor[x \div 2] \in V
        <5>1. x \div 2 \in Nat /\ x \div 2 < x
          BY <1>2, <3>2
        <5>2. rank[x \div 2] < rank[x]
          BY <1>7, <5>1
        <5> HIDE DEF S
        <5>3. x \div 2 \in S
          BY <2>1, <5>1, <5>2, Zenon
        <5> QED
          BY <5>3, Zenon DEF S
      <4>2. Row(x, xor[x \div 2]) \in V
        BY <1>3, <4>1
      <4>3. xor[x] = Row(x, xor[x \div 2])
        <5>1. [y \in Nat |-> IF x = 0 THEN y ELSE ((x + y) % 2) + 2 * xor[x \div 2][y \div 2]]
                = Row(x, xor[x \div 2])
          BY <3>2
        <5> HIDE DEF Row
        <5> QED
          BY <1>12, <5>1
      <4> HIDE DEF Row, V
      <4> QED
        BY <4>2, <4>3
    <3> QED
      BY <3>1, <3>2
  <2> HIDE DEF S
  <2> QED
    BY <1>6, <2>1, RankInduction
<1>17. xor \in [Nat -> V]
  <2>1. \A x \in Nat : xor[x] \in V
    BY <1>16
  <2> HIDE DEF V
  <2> QED
    BY <1>13, <2>1
<1>18. Xors(xor)
  <2>1. xor \in [Nat -> [Nat -> Nat]]
    BY <1>17
  <2> HIDE DEF V
  <2> QED
    BY <1>14, <1>15, <2>1 DEF Xors
<1> QED
  BY <1>1, <1>18

LEMMA XorOfItself ==
  ASSUME NEW x, Xors(x)
  PROVE  \A a \in Nat : x[a][a] = 0 /\ x[a][0] = a
<1> DEFINE S == {a \in Nat : x[a][a] = 0 /\ x[a][0] = a}
           rank == [a \in Nat |-> a]
<1>1. rank \in [Nat -> Nat] /\ \A a \in Nat : rank[a] = a
  OBVIOUS
<1> HIDE DEF rank
<1>2. ASSUME NEW a \in Nat, \A y \in Nat : rank[y] < rank[a] => y \in S PROVE a \in S
  <2>1. CASE a = 0
    BY <2>1 DEF Xors
  <2>2. CASE a # 0
    <3>1. a \div 2 \in Nat /\ a \div 2 < a /\ (a + a) % 2 = 0 /\ a = (a % 2) + 2 * (a \div 2)
          /\ 0 \div 2 = 0
          /\ (a + 0) % 2 = a % 2
      BY <2>2
    <3>2. a \div 2 \in S
      BY <1>1, <1>2, <3>1
    <3>3. x[a][a] = ((a + a) % 2) + 2 * x[a \div 2][a \div 2]
      BY <2>2 DEF Xors
    <3>4. x[a][0] = ((a + 0) % 2) + 2 * x[a \div 2][0 \div 2]
      BY <2>2 DEF Xors
    <3>5. x[a][a] = 0
      BY <3>1, <3>2, <3>3
    <3>6. x[a][0] = a
      BY <3>1, <3>2, <3>4
    <3> QED
      BY <3>5, <3>6
  <2> QED
    BY <2>1, <2>2
<1> HIDE DEF S
<1>3. \A a \in Nat : a \in S
  BY <1>1, <1>2, RankInduction
<1> QED
  BY <1>3 DEF S

LEMMA XorTwice ==
  ASSUME NEW x, Xors(x)
  PROVE  \A a \in Nat : \A k \in Nat : x[x[a][k]][k] = a
<1> DEFINE S == {a \in Nat : \A k \in Nat : x[x[a][k]][k] = a}
           rank == [a \in Nat |-> a]
<1>1. rank \in [Nat -> Nat] /\ \A a \in Nat : rank[a] = a
  OBVIOUS
<1> HIDE DEF rank
<1>2. ASSUME NEW a \in Nat, \A y \in Nat : rank[y] < rank[a] => y \in S PROVE a \in S
  <2> SUFFICES ASSUME NEW k \in Nat PROVE x[x[a][k]][k] = a
    OBVIOUS
  <2>1. CASE a = 0
    <3>1. x[a][k] = k
      BY <2>1 DEF Xors
    <3>2. x[k][k] = 0
      BY XorOfItself
    <3> QED
      BY <2>1, <3>1, <3>2
  <2>2. CASE a # 0
    <3> DEFINE m == x[a][k]
               h == x[a \div 2][k \div 2]
    <3>1. a \div 2 \in Nat /\ k \div 2 \in Nat /\ a \div 2 < a
      BY <2>2
    <3>2. h \in Nat /\ m = ((a + k) % 2) + 2 * h /\ m \in Nat
      BY <2>2, <3>1 DEF Xors
    <3>3. x[h][k \div 2] = a \div 2
      <4>1. a \div 2 \in S
        BY <1>1, <1>2, <3>1
      <4> QED
        BY <3>1, <4>1
    <3> HIDE DEF m, h
    <3>4. m \div 2 = h /\ (m + k) % 2 = a % 2 /\ a = (a % 2) + 2 * (a \div 2)
      BY <3>2
    <3>5. CASE m = 0
      <4>1. x[m][k] = k
        BY <3>5 DEF Xors
      <4>2. h = 0 /\ (a + k) % 2 = 0
        BY <3>2, <3>5
      <4>3. x[h][k \div 2] = k \div 2
        BY <3>1, <4>2 DEF Xors
      <4>4. k \div 2 = a \div 2
        BY <3>3, <4>3
      <4>5. k = a
        BY <4>2, <4>4
      <4> QED
        BY <4>1, <4>5 DEF m
    <3>6. CASE m # 0
      <4>1. x[m][k] = ((m + k) % 2) + 2 * x[m \div 2][k \div 2]
        BY <3>2, <3>6 DEF Xors
      <4>2. x[m][k] = a
        BY <3>3, <3>4, <4>1
      <4> QED
        BY <4>2 DEF m
    <3> QED
      BY <3>5, <3>6
  <2> QED
    BY <2>1, <2>2
<1> HIDE DEF S
<1>3. \A a \in Nat : a \in S
  BY <1>1, <1>2, RankInduction
<1> QED
  BY <1>3 DEF S

\* What is obfuscated twice with the same key is itself again; a key of zeros does nothing.
LEMMA XorUndoes ==
  ASSUME NEW a \in Nat, NEW k \in Nat
  PROVE  Blk!Xor(a, k) \in Nat /\ Blk!Xor(Blk!Xor(a, k), k) = a /\ Blk!Xor(a, 0) = a
<1>1. PICK x : Xors(x) /\ \A m, n \in Nat : Blk!Xor(m, n) = x[m][n]
  BY XorFacts
<1>2. x[a][k] \in Nat /\ Blk!Xor(a, k) = x[a][k]
  BY <1>1 DEF Xors
<1>3. x[x[a][k]][k] = a /\ x[a][0] = a
  BY <1>1, XorTwice, XorOfItself
<1>4. Blk!Xor(x[a][k], k) = x[x[a][k]][k] /\ Blk!Xor(a, 0) = x[a][0]
  BY <1>1, <1>2
<1> QED
  BY <1>2, <1>3, <1>4

\* The key's byte at a position of the file, counted from one.
KeyAt(key, place) == key[((place - 1) % KeyLength) + 1]

IsKey(key) == KeyLength \in Nat \ {0} /\ key \in [1 .. KeyLength -> Nat]

\* A file without its obfuscation.
Decoded(file, key) == [i \in 1 .. Len(file) |-> Blk!Xor(file[i], KeyAt(key, i))]

LEMMA KeyIsRead ==
  ASSUME NEW key, IsKey(key), NEW place \in Nat \ {0}
  PROVE  KeyAt(key, place) \in Nat /\ ((\A i \in DOMAIN key : key[i] = 0) => KeyAt(key, place) = 0)
<1>1. KeyLength \in Nat \ {0} /\ key \in [1 .. KeyLength -> Nat]
  BY DEF IsKey
<1>2. ((place - 1) % KeyLength) + 1 \in 1 .. KeyLength
  BY <1>1
<1> QED
  BY <1>1, <1>2 DEF KeyAt

LEMMA ApplyFacts ==
  ASSUME NEW key, IsKey(key), NEW buffer \in Strings, NEW offset \in Nat
  PROVE  Blk!Apply(key, buffer, offset)
           = [i \in 1 .. Len(buffer) |-> Blk!Xor(buffer[i], KeyAt(key, offset + i))]
<1>1. Len(buffer) \in Nat /\ buffer = [i \in 1 .. Len(buffer) |-> buffer[i]]
      /\ DOMAIN buffer = 1 .. Len(buffer) /\ \A i \in 1 .. Len(buffer) : buffer[i] \in Nat
  BY DEF Strings
<1> DEFINE n == Len(buffer)
<1> HIDE DEF n
<1>2. CASE \A i \in DOMAIN key : key[i] = 0
  <2>1. Blk!Apply(key, buffer, offset) = buffer
    BY <1>2 DEF Blk!Apply
  <2>2. ASSUME NEW i \in 1 .. n PROVE Blk!Xor(buffer[i], KeyAt(key, offset + i)) = buffer[i]
    <3>1. offset + i \in Nat \ {0} /\ buffer[i] \in Nat
      BY <1>1 DEF n
    <3>2. KeyAt(key, offset + i) = 0
      BY <1>2, <3>1, KeyIsRead
    <3> QED
      BY <3>1, <3>2, XorUndoes
  <2>3. [i \in 1 .. n |-> Blk!Xor(buffer[i], KeyAt(key, offset + i))] = [i \in 1 .. n |-> buffer[i]]
    BY <2>2
  <2> QED
    BY <1>1, <2>1, <2>3 DEF n
<1>3. CASE ~(\A i \in DOMAIN key : key[i] = 0)
  <2>1. Blk!Apply(key, buffer, offset)
          = [i \in 1 .. n |-> Blk!Xor(buffer[i], key[((offset + i - 1) % KeyLength) + 1])]
    BY <1>1, <1>3 DEF Blk!Apply, n
  <2>2. \A i \in 1 .. n : KeyAt(key, offset + i) = key[((offset + i - 1) % KeyLength) + 1]
    BY <1>1 DEF KeyAt, n
  <2> QED
    BY <2>1, <2>2 DEF n
<1> QED
  BY <1>2, <1>3

LEMMA DecodedIsString ==
  ASSUME NEW key, IsKey(key), NEW file \in Strings
  PROVE  /\ Decoded(file, key) \in Strings /\ Len(Decoded(file, key)) = Len(file)
         /\ \A i \in 1 .. Len(file) : Decoded(file, key)[i] = Blk!Xor(file[i], KeyAt(key, i))
<1>1. Len(file) \in Nat /\ \A i \in 1 .. Len(file) : file[i] \in Nat
  BY DEF Strings
<1>2. ASSUME NEW i \in 1 .. Len(file) PROVE Blk!Xor(file[i], KeyAt(key, i)) \in Nat
  <2>1. i \in Nat \ {0}
    BY <1>1
  <2>2. KeyAt(key, i) \in Nat
    BY <2>1, KeyIsRead
  <2> QED
    BY <1>1, <2>2, XorUndoes
<1> QED
  BY <1>1, <1>2 DEF Decoded, Strings

\* A part of a file is decoded where it stands.
LEMMA PartIsDecoded ==
  ASSUME NEW key, IsKey(key), NEW file \in Strings, NEW offset \in Nat, NEW count \in Nat,
         offset + count <= Len(file), NEW i \in 1 .. count
  PROVE  Blk!Apply(key, SubSeq(file, offset + 1, offset + count), offset)[i]
           = Decoded(file, key)[offset + i]
<1> DEFINE part == SubSeq(file, offset + 1, offset + count)
<1>1. /\ part \in Strings /\ Len(part) = count
      /\ \A j \in 1 .. count : part[j] = file[offset + j]
  <2>1. file \in Seq(Nat) /\ Len(file) \in Nat
    BY DEF Strings
  <2>2. offset + 1 \in 1 .. Len(file) + 1 /\ offset + count \in offset + 1 - 1 .. Len(file)
    BY <2>1
  <2>3. /\ part \in Seq(Nat)
        /\ Len(part) = IF offset + 1 <= offset + count THEN (offset + count) - (offset + 1) + 1 ELSE 0
        /\ \A j \in 1 .. (offset + count) - (offset + 1) + 1 : part[j] = file[(offset + 1) + j - 1]
    BY <2>1, <2>2, SubSeqProperties
  <2> HIDE DEF part
  <2>4. Len(part) = count
    BY <2>3
  <2>5. ASSUME NEW j \in 1 .. count PROVE part[j] = file[offset + j]
    <3>1. j \in 1 .. (offset + count) - (offset + 1) + 1 /\ (offset + 1) + j - 1 = offset + j
      OBVIOUS
    <3> QED
      BY <2>3, <3>1
  <2> QED
    BY <2>3, <2>4, <2>5 DEF Strings
<1> HIDE DEF part
<1>2. Blk!Apply(key, part, offset) = [j \in 1 .. count |-> Blk!Xor(part[j], KeyAt(key, offset + j))]
  <2>1. Blk!Apply(key, part, offset)
          = [j \in 1 .. Len(part) |-> Blk!Xor(part[j], KeyAt(key, offset + j))]
    BY <1>1, ApplyFacts
  <2> QED
    BY <1>1, <2>1
<1>3. Blk!Apply(key, part, offset)[i] = Blk!Xor(file[offset + i], KeyAt(key, offset + i))
  BY <1>1, <1>2
<1>4. offset + i \in 1 .. Len(file)
  BY DEF Strings
<1>5. Decoded(file, key)[offset + i] = Blk!Xor(file[offset + i], KeyAt(key, offset + i))
  BY <1>4, DecodedIsString
<1> QED
  BY <1>3, <1>5 DEF part

-----------------------------------------------------------------------------
(* A scan of a file, by what it finds from each offset on.                 *)

\* The records of blocks, and what a scan of a file ends with.
BlockRecords == [offset : Nat, size : Nat, hash : Nat, previous : {Parent[h] : h \in Nat}]
Reasons == {"EndOfFile", "Padding", "Corrupt"}
Results == [records : Seq(BlockRecords), stopped_at : Nat, reason : Reasons]

\* The record at an offset of the decoded text, and the offset behind it.
RecordIn(text, offset) == Blk!RecordAt(offset, text[offset + 2], text[offset + 3])

\* What a scan of a decoded file finds from each offset on.
ScanStep(text, offset, rest) ==
  IF offset + 3 > Len(text) THEN Blk!Stop(offset, "EndOfFile")
  ELSE IF text[offset + 1] = 0 THEN Blk!Stop(offset, "Padding")
  ELSE IF text[offset + 1] # MAGIC THEN Blk!Stop(offset, "Corrupt")
  ELSE Blk!Found(RecordIn(text, offset), rest)

NextOffset(text, offset) == offset + 2 + text[offset + 2]

Scans(scan, text) ==
  /\ scan \in [Nat -> Results]
  /\ \A o \in Nat : scan[o] = ScanStep(text, o, scan[NextOffset(text, o)])

LEMMA StepIsResult ==
  ASSUME NEW text \in Strings, NEW o \in Nat, NEW rest \in Results
  PROVE  /\ ScanStep(text, o, rest) \in Results
         /\ o + 3 <= Len(text) => NextOffset(text, o) \in Nat /\ RecordIn(text, o) \in BlockRecords
                                  /\ NextOffset(text, o) >= o + 2
<1>1. \A i \in 1 .. Len(text) : text[i] \in Nat
  BY DEF Strings
<1>2. Len(text) \in Nat
  BY DEF Strings
<1>3. Blk!Stop(o, "EndOfFile") \in Results /\ Blk!Stop(o, "Padding") \in Results
      /\ Blk!Stop(o, "Corrupt") \in Results
  <2>1. <<>> \in Seq(BlockRecords)
    OBVIOUS
  <2> QED
    BY <2>1 DEF Blk!Stop, Results, Reasons
<1>4. ASSUME o + 3 <= Len(text)
      PROVE  /\ NextOffset(text, o) \in Nat /\ NextOffset(text, o) >= o + 2
             /\ RecordIn(text, o) \in BlockRecords /\ Blk!Found(RecordIn(text, o), rest) \in Results
  <2>1. text[o + 2] \in Nat /\ text[o + 3] \in Nat
    BY <1>1, <1>2, <1>4
  <2>2. RecordIn(text, o) \in BlockRecords
    BY <2>1 DEF RecordIn, Blk!RecordAt, BlockRecords
  <2>3. NextOffset(text, o) \in Nat /\ NextOffset(text, o) >= o + 2
    BY <2>1 DEF NextOffset
  <2> DEFINE r == RecordIn(text, o)
  <2> HIDE DEF r
  <2>4. rest.records \in Seq(BlockRecords) /\ rest.stopped_at \in Nat /\ rest.reason \in Reasons
    BY DEF Results
  <2>5. <<r>> \o rest.records \in Seq(BlockRecords)
    <3>1. <<r>> \in Seq(BlockRecords)
      BY <2>2 DEF r
    <3> QED
      BY <2>4, <3>1, ConcatProperties
  <2>6. Blk!Found(r, rest) \in Results
    BY <2>4, <2>5 DEF Blk!Found, Results
  <2> QED
    BY <2>2, <2>3, <2>6 DEF r
<1>5. ScanStep(text, o, rest) \in Results
  <2>1. CASE o + 3 > Len(text)
    BY <1>3, <2>1 DEF ScanStep
  <2>2. CASE ~(o + 3 > Len(text))
    <3>1. o + 3 <= Len(text)
      BY <1>2, <2>2
    <3>2. Blk!Found(RecordIn(text, o), rest) \in Results
      BY <1>4, <3>1
    <3> QED
      BY <1>3, <2>2, <3>2 DEF ScanStep
  <2> QED
    BY <2>1, <2>2
<1> QED
  BY <1>4, <1>5

LEMMA ScanExists ==
  ASSUME NEW text \in Strings PROVE \E scan : Scans(scan, text)
<1> DEFINE n == Len(text)
           Ends(o) == o + 3 > n
           base == {o \in Nat : Ends(o)}
           rank == [o \in Nat |-> IF o <= n THEN n - o ELSE 0]
           down == [o \in Nat |-> IF Ends(o) THEN o ELSE NextOffset(text, o)]
           start == [o \in Nat |-> Blk!Stop(o, "EndOfFile")]
           step == [s \in Nat \X Results |-> ScanStep(text, s[1], s[2])]
<1>1. n \in Nat
  BY DEF Strings
<1>2. \E r : r \in Results
  <2>1. Blk!Stop(0, "EndOfFile") \in Results
    <3>1. <<>> \in Seq(BlockRecords)
      OBVIOUS
    <3> QED
      BY <3>1 DEF Blk!Stop, Results, Reasons
  <2> QED
    BY <2>1
<1>4. \A o \in Nat : Blk!Stop(o, "EndOfFile") \in Results
  <2>1. <<>> \in Seq(BlockRecords)
    OBVIOUS
  <2> QED
    BY <2>1 DEF Blk!Stop, Results, Reasons
<1>5. \A o \in Nat : ~Ends(o)
        => NextOffset(text, o) \in Nat /\ NextOffset(text, o) >= o + 2 /\ o + 3 <= n
  <2> SUFFICES ASSUME NEW o \in Nat, ~Ends(o)
               PROVE  NextOffset(text, o) \in Nat /\ NextOffset(text, o) >= o + 2 /\ o + 3 <= n
    OBVIOUS
  <2>1. o + 3 <= n
    BY <1>1
  <2> QED
    BY <1>2, <2>1, StepIsResult
<1> HIDE DEF n
<1>6. rank \in [Nat -> Nat] /\ down \in [Nat -> Nat]
  <2>1. \A o \in Nat : o <= n => n - o \in Nat
    BY <1>1
  <2> HIDE DEF Ends
  <2> QED
    BY <1>5, <2>1
<1>7. start \in [Nat -> Results]
  BY <1>4
<1>8. step \in [Nat \X Results -> Results]
      /\ \A o \in Nat, r \in Results : step[<<o, r>>] = ScanStep(text, o, r)
  BY StepIsResult
<1>9. \A o \in Nat : /\ rank[o] = (IF o <= n THEN n - o ELSE 0) /\ start[o] = Blk!Stop(o, "EndOfFile")
                     /\ down[o] = IF Ends(o) THEN o ELSE NextOffset(text, o)
  OBVIOUS
<1> HIDE DEF rank, down, start, step
<1>10. \A o \in Nat : o \notin base => rank[down[o]] < rank[o]
  <2> SUFFICES ASSUME NEW o \in Nat, ~Ends(o) PROVE rank[down[o]] < rank[o]
    OBVIOUS
  <2> DEFINE next == NextOffset(text, o)
  <2>1. down[o] = next /\ next \in Nat /\ next >= o + 2 /\ o + 3 <= n
    BY <1>5, <1>9
  <2> HIDE DEF next
  <2>2. rank[o] = n - o /\ rank[next] = IF next <= n THEN n - next ELSE 0
    BY <1>1, <1>9, <2>1
  <2> QED
    BY <1>1, <2>1, <2>2
<1>11. PICK g \in [Nat -> Results] : Descended(g, Nat, base, start, down, step)
  <2> HIDE DEF base
  <2> QED
    BY <1>6, <1>7, <1>8, <1>10, Descends
<1>12. ASSUME NEW o \in Nat PROVE g[o] = ScanStep(text, o, g[NextOffset(text, o)])
  <2>1. g[o] = IF o \in base THEN start[o] ELSE step[<<o, g[down[o]]>>]
    BY <1>11 DEF Descended
  <2>2. CASE Ends(o)
    <3>1. g[o] = Blk!Stop(o, "EndOfFile")
      BY <1>9, <2>1, <2>2
    <3>2. o + 3 > Len(text)
      BY <2>2 DEF n
    <3> QED
      BY <3>1, <3>2 DEF ScanStep
  <2>3. CASE ~Ends(o)
    <3>1. down[o] = NextOffset(text, o) /\ NextOffset(text, o) \in Nat
      BY <1>5, <1>9, <2>3
    <3>2. g[NextOffset(text, o)] \in Results
      BY <1>11, <3>1
    <3> QED
      BY <1>8, <2>1, <2>3, <3>1, <3>2
  <2> QED
    BY <2>2, <2>3
<1> QED
  BY <1>11, <1>12 DEF Scans

LEMMA ScanFacts ==
  ASSUME MAGIC # 0, NEW key, IsKey(key), NEW file \in Strings
  PROVE  \E scan : Scans(scan, Decoded(file, key)) /\ Blk!ScanFile(file, key) = scan[0]
<1> DEFINE Plain(offset, count) == Blk!Plain(file, key, offset, count)
           text == Decoded(file, key)
           n == Len(file)
           Matched(o, p1, p2, hash, rest) ==
             IF p1 = 0
             THEN Blk!Stop(o, "Padding")
             ELSE IF p1 # MAGIC
             THEN Blk!Stop(o, "Corrupt")
             ELSE Blk!Found(Blk!RecordAt(o, p2, hash), rest)
           Raw(o, f) ==
             IF o + 3 > n
             THEN Blk!Stop(o, "EndOfFile")
             ELSE Matched(o, Plain(o, 2)[1], Plain(o, 2)[2], Plain(o + 2, 1)[1],
                          f[o + 2 + Plain(o, 2)[2]])
           Defines(f) == f = [o \in Nat |-> Raw(o, f)]
           from == CHOOSE f : Defines(f)
<1>1. Blk!ScanFile(file, key) = from[0]
  BY DEF Blk!ScanFile, Blk!PREFIX, Blk!MINIMUM
<1>2. text \in Strings /\ Len(text) = n /\ n \in Nat
  <2>1. Len(file) \in Nat
    BY DEF Strings
  <2> QED
    BY <2>1, DecodedIsString
<1>3. PICK g : Scans(g, text)
  BY <1>2, ScanExists
<1>4. g \in [Nat -> Results] /\ \A o \in Nat : g[o] = ScanStep(text, o, g[NextOffset(text, o)])
  BY <1>3 DEF Scans
<1>5. ASSUME NEW o \in Nat, o + 3 <= n
      PROVE  /\ Plain(o, 2)[1] = text[o + 1] /\ Plain(o, 2)[2] = text[o + 2]
             /\ Plain(o + 2, 1)[1] = text[o + 3]
             /\ text[o + 2] \in Nat /\ NextOffset(text, o) \in Nat /\ NextOffset(text, o) >= o + 2
  <2>1. o + 2 <= Len(file) /\ (o + 2) + 1 <= Len(file) /\ o + 2 \in Nat /\ 2 \in Nat /\ 1 \in Nat
        /\ 1 \in 1 .. 2 /\ 2 \in 1 .. 2 /\ 1 \in 1 .. 1 /\ (o + 2) + 1 = o + 3
    BY <1>2, <1>5
  <2>0. \A i \in 1 .. 2 : Plain(o, 2)[i] = text[o + i]
    BY <2>1, PartIsDecoded DEF Blk!Plain
  <2>2. Plain(o, 2)[1] = text[o + 1]
    BY <2>0, <2>1
  <2>3. Plain(o, 2)[2] = text[o + 2]
    BY <2>0, <2>1
  <2>4. Plain(o + 2, 1)[1] = text[o + 3]
    <3>1. Plain(o + 2, 1)[1] = text[(o + 2) + 1]
      BY <2>1, PartIsDecoded DEF Blk!Plain
    <3> QED
      BY <2>1, <3>1
  <2>5. text[o + 2] \in Nat
    <3>1. o + 2 \in 1 .. Len(text)
      BY <1>2, <1>5
    <3> QED
      BY <1>2, <3>1 DEF Strings
  <2>6. NextOffset(text, o) \in Nat /\ NextOffset(text, o) >= o + 2
    BY <2>5 DEF NextOffset
  <2> QED
    BY <2>2, <2>3, <2>4, <2>5, <2>6
<1> HIDE DEF Plain, text, n
<1>6. ASSUME NEW o \in Nat, NEW f, o + 3 <= n => f[NextOffset(text, o)] \in Results
      PROVE  Raw(o, f) = ScanStep(text, o, f[NextOffset(text, o)])
  <2>1. CASE o + 3 > n
    BY <1>2, <2>1 DEF ScanStep
  <2>2. CASE ~(o + 3 > n)
    <3>1. o + 3 <= n
      BY <1>2, <2>2
    <3> DEFINE rest == f[NextOffset(text, o)]
    <3>2. rest \in Results
      BY <1>6, <3>1
    <3>3. Raw(o, f) = Matched(o, text[o + 1], text[o + 2], text[o + 3], rest)
      BY <1>5, <2>2, <3>1 DEF NextOffset
    <3> HIDE DEF rest, Raw
    <3>6. Matched(o, text[o + 1], text[o + 2], text[o + 3], rest)
            = IF text[o + 1] = 0 THEN Blk!Stop(o, "Padding")
              ELSE IF text[o + 1] # MAGIC THEN Blk!Stop(o, "Corrupt")
              ELSE Blk!Found(RecordIn(text, o), rest)
      BY DEF RecordIn
    <3> HIDE DEF Matched
    <3>7. ScanStep(text, o, rest)
            = IF text[o + 1] = 0 THEN Blk!Stop(o, "Padding")
              ELSE IF text[o + 1] # MAGIC THEN Blk!Stop(o, "Corrupt")
              ELSE Blk!Found(RecordIn(text, o), rest)
      BY <1>2, <2>2 DEF ScanStep
    <3> QED
      BY <3>3, <3>6, <3>7 DEF rest
  <2> QED
    BY <2>1, <2>2
<1> HIDE DEF Raw, Matched
<1>7. Defines(g)
  <2>1. \A o \in Nat : o + 3 <= n => g[NextOffset(text, o)] \in Results
    BY <1>4, <1>5
  <2>2. \A o \in Nat : g[o] = Raw(o, g)
    BY <1>4, <1>6, <2>1
  <2>3. g = [o \in Nat |-> g[o]]
    BY <1>4
  <2>4. [o \in Nat |-> g[o]] = [o \in Nat |-> Raw(o, g)]
    BY <2>2
  <2> QED
    BY <2>3, <2>4
<1>8. Defines(from)
  <2> HIDE DEF Defines
  <2> QED
    BY <1>7
<1> HIDE DEF from
<1>9. \A o \in Nat : from[o] = Raw(o, from)
  BY <1>8
<1> HIDE DEF Defines
<1> DEFINE S == {o \in Nat : from[o] = g[o]}
           rank == [o \in Nat |-> IF o <= n THEN n - o ELSE 0]
<1>10. rank \in [Nat -> Nat] /\ \A o \in Nat : rank[o] = IF o <= n THEN n - o ELSE 0
  <2>1. \A o \in Nat : o <= n => n - o \in Nat
    BY <1>2
  <2> QED
    BY <2>1
<1> HIDE DEF rank
<1>11. ASSUME NEW o \in Nat, \A y \in Nat : rank[y] < rank[o] => y \in S PROVE o \in S
  <2> DEFINE next == NextOffset(text, o)
  <2>1. o + 3 <= n => from[next] = g[next] /\ g[next] \in Results
    <3> SUFFICES ASSUME o + 3 <= n PROVE from[next] = g[next] /\ g[next] \in Results
      OBVIOUS
    <3>1. next \in Nat /\ next >= o + 2
      BY <1>5
    <3> HIDE DEF next
    <3>2. rank[next] < rank[o]
      BY <1>2, <1>10, <3>1
    <3>3. from[next] = g[next]
      BY <1>11, <3>1, <3>2
    <3> QED
      BY <1>4, <3>1, <3>3
  <2>2. from[o] = ScanStep(text, o, from[next])
    <3>1. o + 3 <= n => from[next] \in Results
      BY <2>1
    <3> QED
      BY <1>6, <1>9, <3>1
  <2>3. g[o] = ScanStep(text, o, g[next])
    BY <1>4
  <2>4. from[o] = g[o]
    <3>1. CASE o + 3 <= n
      <4>1. from[next] = g[next]
        BY <2>1, <3>1
      <4> HIDE DEF next
      <4> QED
        BY <2>2, <2>3, <4>1
    <3>2. CASE ~(o + 3 <= n)
      <4>1. o + 3 > Len(text)
        BY <1>2, <3>2
      <4> QED
        BY <2>2, <2>3, <4>1 DEF ScanStep
    <3> QED
      BY <3>1, <3>2
  <2> QED
    BY <2>4
<1> HIDE DEF S
<1>12. \A o \in Nat : o \in S
  BY <1>10, <1>11, RankInduction
<1>13. from[0] = g[0]
  BY <1>12 DEF S
<1> QED
  BY <1>1, <1>3, <1>13 DEF text

\* Where a scan stops, from an offset on.
LEMMA ScanStops ==
  ASSUME MAGIC # 0, NEW text \in Strings, NEW scan, Scans(scan, text)
  PROVE  \A o \in Nat : scan[o].stopped_at >= o
<1> DEFINE n == Len(text)
           rank == [o \in Nat |-> IF o <= n THEN n - o ELSE 0]
           S == {o \in Nat : scan[o].stopped_at >= o}
<1>1. n \in Nat
  BY DEF Strings
<1>2. scan \in [Nat -> Results] /\ \A o \in Nat : scan[o] = ScanStep(text, o, scan[NextOffset(text, o)])
  BY DEF Scans
<1> HIDE DEF n
<1>3. rank \in [Nat -> Nat] /\ \A o \in Nat : rank[o] = IF o <= n THEN n - o ELSE 0
  <2>1. \A o \in Nat : o <= n => n - o \in Nat
    BY <1>1
  <2> QED
    BY <2>1
<1> HIDE DEF rank
<1>4. ASSUME NEW o \in Nat, \A y \in Nat : rank[y] < rank[o] => y \in S PROVE o \in S
  <2> DEFINE next == NextOffset(text, o)
  <2>1. scan[o] = ScanStep(text, o, scan[next])
    BY <1>2
  <2>2. \/ scan[o] = Blk!Stop(o, "EndOfFile")
        \/ scan[o] = Blk!Stop(o, "Padding")
        \/ scan[o] = Blk!Stop(o, "Corrupt")
        \/ o + 3 <= n /\ scan[o] = Blk!Found(RecordIn(text, o), scan[next])
    <3>1. o + 3 > Len(text) \/ o + 3 <= n
      BY <1>1 DEF n
    <3> HIDE DEF next
    <3> QED
      BY <2>1, <3>1 DEF ScanStep
  <2>3. CASE ~(o + 3 <= n /\ scan[o] = Blk!Found(RecordIn(text, o), scan[next]))
    <3>1. scan[o].stopped_at = o
      BY <2>2, <2>3 DEF Blk!Stop
    <3> QED
      BY <3>1
  <2>4. CASE o + 3 <= n /\ scan[o] = Blk!Found(RecordIn(text, o), scan[next])
    <3>1. next \in Nat /\ next >= o + 2
      <4>1. \E r : r \in Results
        BY <1>2
      <4> QED
        BY <2>4, <4>1, StepIsResult DEF n
    <3> HIDE DEF next
    <3>2. rank[next] < rank[o]
      BY <1>1, <1>3, <2>4, <3>1
    <3>3. scan[next].stopped_at >= next /\ scan[next].stopped_at \in Nat
      BY <1>2, <1>4, <3>1, <3>2 DEF Results
    <3>4. scan[o].stopped_at = scan[next].stopped_at
      BY <2>4 DEF Blk!Found
    <3>5. scan[o].stopped_at >= o
      BY <3>1, <3>3, <3>4
    <3> QED
      BY <3>5
  <2> QED
    BY <2>3, <2>4
<1> HIDE DEF S
<1>5. \A o \in Nat : o \in S
  BY <1>3, <1>4, RankInduction
<1> QED
  BY <1>5 DEF S

-----------------------------------------------------------------------------
(* Records at other offsets, and a scan that goes on in a longer file.     *)

\* A record at an offset that much higher.
Moves(record, by) == [record EXCEPT !.offset = @ + by]

LEMMA MovedRecord ==
  ASSUME NEW r \in BlockRecords, NEW by \in Nat
  PROVE  Moves(r, by) \in BlockRecords
BY DEF BlockRecords, Moves

LEMMA ShiftedFacts ==
  ASSUME NEW records \in Seq(BlockRecords), NEW by \in Nat
  PROVE  /\ Blk!Shifted(records, by) \in Seq(BlockRecords)
         /\ Len(Blk!Shifted(records, by)) = Len(records)
         /\ \A i \in 1 .. Len(records) : Blk!Shifted(records, by)[i] = Moves(records[i], by)
<1> DEFINE n == Len(records)
<1>1. n \in Nat /\ DOMAIN records = 1 .. n /\ \A i \in 1 .. n : records[i] \in BlockRecords
  OBVIOUS
<1> HIDE DEF n
<1>2. \A r \in BlockRecords : Moves(r, by) \in BlockRecords
  BY MovedRecord
<1>3. Blk!Shifted(records, by) = [i \in 1 .. n |-> Moves(records[i], by)]
  BY <1>1 DEF Blk!Shifted, Moves
<1>4. \A i \in 1 .. n : Moves(records[i], by) \in BlockRecords
  BY <1>1, <1>2
<1> QED
  BY <1>1, <1>3, <1>4 DEF n

LEMMA ShiftedFront ==
  ASSUME NEW r \in BlockRecords, NEW records \in Seq(BlockRecords), NEW by \in Nat
  PROVE  Blk!Shifted(<<r>> \o records, by) = <<Moves(r, by)>> \o Blk!Shifted(records, by)
<1> DEFINE all == <<r>> \o records
           n == Len(records)
           a == Blk!Shifted(all, by)
           b == Blk!Shifted(records, by)
           c == <<Moves(r, by)>> \o b
<1>1. <<r>> \in Seq(BlockRecords) /\ Len(<<r>>) = 1 /\ <<r>>[1] = r /\ n \in Nat
  OBVIOUS
<1>2. /\ all \in Seq(BlockRecords) /\ Len(all) = Len(<<r>>) + Len(records)
      /\ \A i \in 1 .. Len(<<r>>) + Len(records) :
           all[i] = IF i <= Len(<<r>>) THEN <<r>>[i] ELSE records[i - Len(<<r>>)]
  BY <1>1, ConcatProperties
<1>3. b \in Seq(BlockRecords) /\ Len(b) = n /\ \A i \in 1 .. n : b[i] = Moves(records[i], by)
  BY ShiftedFacts
<1> HIDE DEF b
<1>4. Moves(r, by) \in BlockRecords
  BY MovedRecord
<1> DEFINE s == Moves(r, by)
<1> HIDE DEF s
<1>5. /\ c \in Seq(BlockRecords) /\ Len(c) = Len(<<s>>) + Len(b)
      /\ \A i \in 1 .. Len(<<s>>) + Len(b) : c[i]
           = IF i <= Len(<<s>>) THEN <<s>>[i] ELSE b[i - Len(<<s>>)]
  <2>1. <<s>> \in Seq(BlockRecords)
    BY <1>4 DEF s
  <2> QED
    BY <1>3, <2>1, ConcatProperties DEF s
<1> HIDE DEF all
<1>6. a \in Seq(BlockRecords) /\ Len(a) = Len(all) /\ \A i \in 1 .. Len(all) : a[i] = Moves(all[i], by)
  BY <1>2, ShiftedFacts
<1> HIDE DEF a, c, n
<1>7. Len(<<s>>) = 1 /\ <<s>>[1] = s
  OBVIOUS
<1>8. Len(a) = 1 + n /\ Len(c) = 1 + n
  BY <1>1, <1>2, <1>3, <1>5, <1>6, <1>7 DEF n
<1>9. ASSUME NEW i \in 1 .. 1 + n PROVE a[i] = c[i]
  <2>1. i <= 1 => i = 1
    BY <1>1
  <2>2. CASE i <= 1
    <3>1. all[i] = r /\ c[i] = s
      BY <1>1, <1>2, <1>3, <1>5, <1>7, <2>1, <2>2 DEF n
    <3>2. a[i] = Moves(all[i], by)
      BY <1>6, <1>8
    <3> QED
      BY <3>1, <3>2 DEF s
  <2>3. CASE ~(i <= 1)
    <3>1. i - 1 \in 1 .. n
      BY <1>1, <2>3
    <3>2. all[i] = records[i - 1]
      BY <1>1, <1>2, <2>3 DEF n
    <3>3. c[i] = b[i - 1]
      BY <1>3, <1>5, <1>7, <2>3 DEF n
    <3>4. a[i] = Moves(all[i], by)
      BY <1>6, <1>8
    <3> QED
      BY <1>3, <3>1, <3>2, <3>3, <3>4
  <2> QED
    BY <2>2, <2>3
<1>10. a = c
  BY <1>5, <1>6, <1>8, <1>9, SeqEqual
<1> QED
  BY <1>10 DEF a, b, c, all, s

LEMMA RecordsAssociate ==
  ASSUME NEW r \in Seq(BlockRecords), NEW s \in Seq(BlockRecords), NEW t \in Seq(BlockRecords)
  PROVE  (r \o s) \o t = r \o (s \o t) /\ r \o s \in Seq(BlockRecords) /\ <<>> \o t = t /\ t \o <<>> = t
<1>1. (r \o s) \o t = r \o (s \o t)
  BY ConcatAssociative
<1> QED
  BY <1>1, ConcatProperties, ConcatEmptySeq

\* Every record holds at least its header.
HasHeaders(records) == \A i \in DOMAIN records : records[i].size >= 1

\* A file's first bytes as a part of a whole.
Lies(text, whole, by, end) ==
  /\ text \in Strings /\ whole \in Strings /\ by \in Nat /\ end \in Nat
  /\ by + end <= Len(whole) /\ end <= Len(text)
  /\ \A i \in 1 .. end : whole[by + i] = text[i]

\* What a scan of the file finds up to there, a scan of the whole finds, and goes on.
Carries(f, g, by, end) ==
  \A o \in Nat : f[o].stopped_at = end /\ HasHeaders(f[o].records) =>
    /\ g[by + o].records = Blk!Shifted(f[o].records, by) \o g[by + end].records
    /\ g[by + o].stopped_at = g[by + end].stopped_at
    /\ g[by + o].reason = g[by + end].reason

LEMMA ScanCarries ==
  ASSUME MAGIC # 0, NEW text, NEW whole, NEW by, NEW end, Lies(text, whole, by, end),
         NEW f, Scans(f, text), NEW g, Scans(g, whole)
  PROVE  Carries(f, g, by, end)
<1>0. /\ text \in Strings /\ whole \in Strings /\ by \in Nat /\ end \in Nat
      /\ by + end <= Len(whole) /\ end <= Len(text)
      /\ \A i \in 1 .. end : whole[by + i] = text[i]
  BY DEF Lies
<1> USE <1>0
<1> DEFINE n == Len(text)
           rank == [o \in Nat |-> IF o <= n THEN n - o ELSE 0]
           P(o) == f[o].stopped_at = end /\ HasHeaders(f[o].records)
           Q(o) == /\ g[by + o].records = Blk!Shifted(f[o].records, by) \o g[by + end].records
                   /\ g[by + o].stopped_at = g[by + end].stopped_at
                   /\ g[by + o].reason = g[by + end].reason
           S == {o \in Nat : P(o) => Q(o)}
<1>1. n \in Nat /\ Len(whole) \in Nat
  BY DEF Strings
<1>2. f \in [Nat -> Results] /\ \A o \in Nat : f[o] = ScanStep(text, o, f[NextOffset(text, o)])
  BY DEF Scans
<1>3. g \in [Nat -> Results] /\ \A o \in Nat : g[o] = ScanStep(whole, o, g[NextOffset(whole, o)])
  BY DEF Scans
<1> HIDE DEF n
<1>4. rank \in [Nat -> Nat] /\ \A o \in Nat : rank[o] = IF o <= n THEN n - o ELSE 0
  <2>1. \A o \in Nat : o <= n => n - o \in Nat
    BY <1>1
  <2> QED
    BY <2>1
<1>5. g[by + end].records \in Seq(BlockRecords)
  BY <1>3 DEF Results
<1> HIDE DEF rank
<1>6. ASSUME NEW o \in Nat, \A y \in Nat : rank[y] < rank[o] => y \in S PROVE o \in S
  <2> SUFFICES ASSUME P(o) PROVE Q(o)
    OBVIOUS
  <2> DEFINE next == NextOffset(text, o)
  <2>1. f[o] = ScanStep(text, o, f[next])
    BY <1>2
  <2>2. \/ f[o] = Blk!Stop(o, "EndOfFile")
        \/ f[o] = Blk!Stop(o, "Padding")
        \/ f[o] = Blk!Stop(o, "Corrupt")
        \/ /\ o + 3 <= n /\ text[o + 1] # 0 /\ text[o + 1] = MAGIC
           /\ f[o] = Blk!Found(RecordIn(text, o), f[next])
    <3>1. o + 3 > Len(text) \/ o + 3 <= n
      BY <1>1 DEF n
    <3> HIDE DEF next
    <3> QED
      BY <2>1, <3>1 DEF ScanStep
  <2>3. CASE f[o] = Blk!Stop(o, "EndOfFile") \/ f[o] = Blk!Stop(o, "Padding")
          \/ f[o] = Blk!Stop(o, "Corrupt")
    <3>1. f[o].stopped_at = o /\ f[o].records = <<>>
      BY <2>3 DEF Blk!Stop
    <3>2. o = end
      BY <3>1
    <3>3. Blk!Shifted(<<>>, by) = <<>>
      BY DEF Blk!Shifted
    <3>4. <<>> \o g[by + end].records = g[by + end].records
      BY <1>5, ConcatEmptySeq
    <3> QED
      BY <3>1, <3>2, <3>3, <3>4
  <2>4. CASE /\ o + 3 <= n /\ text[o + 1] # 0 /\ text[o + 1] = MAGIC
             /\ f[o] = Blk!Found(RecordIn(text, o), f[next])
    <3> DEFINE r == RecordIn(text, o)
               rest == f[next]
    <3>1. next \in Nat /\ next >= o + 2 /\ r \in BlockRecords
      <4>1. \E x : x \in Results
        BY <1>2
      <4> QED
        BY <2>4, <4>1, StepIsResult DEF n
    <3>2. text[o + 2] \in Nat /\ next = o + 2 + text[o + 2] /\ r.size = text[o + 2]
      <4>1. o + 2 \in 1 .. Len(text)
        BY <1>1, <2>4 DEF n
      <4> QED
        BY <4>1 DEF Strings, NextOffset, RecordIn, Blk!RecordAt
    <3>3. f[o].stopped_at = rest.stopped_at /\ f[o].records = <<r>> \o rest.records
      BY <2>4 DEF Blk!Found
    <3> HIDE DEF r
    <3>4. rest \in Results
      BY <1>2, <3>1
    <3>5. rest.records \in Seq(BlockRecords) /\ rest.stopped_at >= next /\ rest.stopped_at = end
      <4>1. rest.stopped_at >= next
        BY <3>1, ScanStops
      <4> QED
        BY <3>3, <3>4, <4>1 DEF Results
    <3> HIDE DEF rest
    <3>6. r.size >= 1 /\ HasHeaders(rest.records)
      <4> DEFINE all == <<r>> \o rest.records
      <4>1. <<r>> \in Seq(BlockRecords) /\ Len(<<r>>) = 1 /\ <<r>>[1] = r /\ Len(rest.records) \in Nat
            /\ DOMAIN rest.records = 1 .. Len(rest.records)
        BY <3>1, <3>5
      <4>2. /\ all \in Seq(BlockRecords) /\ Len(all) = Len(<<r>>) + Len(rest.records)
            /\ \A i \in 1 .. Len(<<r>>) + Len(rest.records) :
                 all[i] = IF i <= Len(<<r>>) THEN <<r>>[i] ELSE rest.records[i - Len(<<r>>)]
        BY <3>5, <4>1, ConcatProperties
      <4> HIDE DEF all
      <4>3. DOMAIN all = 1 .. Len(all)
        BY <4>2
      <4>4. \A i \in 1 .. Len(all) : all[i].size >= 1
        BY <3>3, <4>3 DEF HasHeaders, all
      <4>5. 1 \in 1 .. Len(all) /\ all[1] = r
        BY <4>1, <4>2
      <4>6. ASSUME NEW i \in 1 .. Len(rest.records) PROVE rest.records[i].size >= 1
        <5>1. i + 1 \in 1 .. Len(all) /\ all[i + 1] = rest.records[i]
          <6>1. i + 1 \in 1 .. 1 + Len(rest.records) /\ ~(i + 1 <= 1) /\ (i + 1) - 1 = i
            BY <4>1
          <6> QED
            BY <4>1, <4>2, <6>1
        <5> QED
          BY <4>4, <5>1
      <4> QED
        BY <4>1, <4>4, <4>5, <4>6 DEF HasHeaders
    <3> HIDE DEF next
    <3>7. o + 3 <= next /\ next <= end
      <4>1. end = rest.stopped_at /\ end \in Nat
        BY <3>5
      <4> QED
        BY <3>1, <3>2, <3>5, <3>6, <4>1
    <3>8. whole[(by + o) + 1] = text[o + 1] /\ whole[(by + o) + 2] = text[o + 2]
          /\ whole[(by + o) + 3] = text[o + 3]
      <4>1. o + 1 \in 1 .. end /\ o + 2 \in 1 .. end /\ o + 3 \in 1 .. end
        BY <3>1, <3>7
      <4>2. (by + o) + 1 = by + (o + 1) /\ (by + o) + 2 = by + (o + 2) /\ (by + o) + 3 = by + (o + 3)
        OBVIOUS
      <4> QED
        BY <4>1, <4>2
    <3>9. ~((by + o) + 3 > Len(whole)) /\ by + o \in Nat
      BY <1>1, <3>1, <3>7
    <3>10. NextOffset(whole, by + o) = by + next
      <4>1. NextOffset(whole, by + o) = (by + o) + 2 + whole[(by + o) + 2]
        BY DEF NextOffset
      <4> DEFINE t == text[o + 2]
      <4>2. t \in Nat /\ next = o + 2 + t /\ NextOffset(whole, by + o) = (by + o) + 2 + t
        BY <3>2, <3>8, <4>1
      <4> HIDE DEF t
      <4> QED
        BY <4>2
    <3>11. g[by + o] = Blk!Found(RecordIn(whole, by + o), g[by + next])
      <4>1. g[by + o] = ScanStep(whole, by + o, g[by + next])
        BY <1>3, <3>9, <3>10
      <4> QED
        BY <2>4, <3>8, <3>9, <4>1 DEF ScanStep
    <3>12. RecordIn(whole, by + o) = Moves(r, by)
      <4>1. RecordIn(whole, by + o) = Blk!RecordAt(by + o, text[o + 2], text[o + 3])
        BY <3>8 DEF RecordIn
      <4> HIDE <1>0
      <4>2. o + by = by + o
        BY <1>0
      <4> QED
        BY <4>1, <4>2 DEF r, RecordIn, Moves, Blk!RecordAt
    <3>13. Q(next)
      <4>1. rank[next] < rank[o]
        <5>1. rank[next] = IF next <= n THEN n - next ELSE 0
          BY <1>4, <3>1
        <5>2. rank[o] = n - o /\ o \in Nat /\ o <= n /\ o < n
          <6>1. o <= n /\ o < n
            BY <1>1, <2>4
          <6> QED
            BY <1>4, <6>1
        <5> QED
          BY <1>1, <3>1, <5>1, <5>2
      <4>2. next \in S
        BY <1>6, <3>1, <4>1
      <4>3. P(next)
        BY <3>5, <3>6 DEF rest
      <4> QED
        BY <4>2, <4>3
    <3>14. Blk!Shifted(f[o].records, by) = <<Moves(r, by)>> \o Blk!Shifted(rest.records, by)
      BY <3>1, <3>3, <3>5, ShiftedFront
    <3>15. /\ g[by + o].records = <<Moves(r, by)>> \o g[by + next].records
           /\ g[by + o].stopped_at = g[by + next].stopped_at
           /\ g[by + o].reason = g[by + next].reason
      BY <3>11, <3>12 DEF Blk!Found
    <3>16. <<Moves(r, by)>> \in Seq(BlockRecords) /\ Blk!Shifted(rest.records, by) \in Seq(BlockRecords)
      <4>1. Moves(r, by) \in BlockRecords
        BY <3>1, MovedRecord
      <4>2. Blk!Shifted(rest.records, by) \in Seq(BlockRecords)
        BY <3>5, ShiftedFacts
      <4> HIDE <1>0
      <4>3. \A x \in BlockRecords : <<x>> \in Seq(BlockRecords)
        OBVIOUS
      <4> QED
        BY <4>1, <4>2, <4>3
    <3>17. (<<Moves(r, by)>> \o Blk!Shifted(rest.records, by)) \o g[by + end].records
             = <<Moves(r, by)>> \o (Blk!Shifted(rest.records, by) \o g[by + end].records)
      <4> DEFINE a == <<Moves(r, by)>>
                 b == Blk!Shifted(rest.records, by)
                 c == g[by + end].records
      <4>1. a \in Seq(BlockRecords) /\ b \in Seq(BlockRecords) /\ c \in Seq(BlockRecords)
        BY <1>5, <3>16
      <4> HIDE DEF a, b, c
      <4>2. (a \o b) \o c = a \o (b \o c)
        BY <4>1, RecordsAssociate
      <4> QED
        BY <4>2 DEF a, b, c
    <3>18. g[by + next].records = Blk!Shifted(rest.records, by) \o g[by + end].records
      BY <3>13 DEF rest
    <3>19. g[by + o].records = Blk!Shifted(f[o].records, by) \o g[by + end].records
      BY <3>14, <3>15, <3>17, <3>18
    <3> QED
      BY <3>13, <3>15, <3>19
  <2> QED
    BY <2>2, <2>3, <2>4
<1> HIDE DEF S
<1>7. \A o \in Nat : o \in S
  <2>1. Inherits(Nat, rank, S)
    BY <1>6, Zenon DEF Inherits
  <2> QED
    BY <1>4, <2>1, InheritedByAll
<1> QED
  BY <1>7 DEF S, Carries

-----------------------------------------------------------------------------
(* A copy of a file into the joined one, batch by batch, under another key. *)

LEMMA PartOfFile ==
  ASSUME NEW file \in Strings, NEW offset \in Nat, NEW count \in Nat, offset + count <= Len(file)
  PROVE  /\ SubSeq(file, offset + 1, offset + count) \in Strings
         /\ Len(SubSeq(file, offset + 1, offset + count)) = count
         /\ \A j \in 1 .. count : SubSeq(file, offset + 1, offset + count)[j] = file[offset + j]
<1> DEFINE part == SubSeq(file, offset + 1, offset + count)
<1>1. file \in Seq(Nat) /\ Len(file) \in Nat
  BY DEF Strings
<1>2. offset + 1 \in 1 .. Len(file) + 1 /\ offset + count \in offset + 1 - 1 .. Len(file)
  BY <1>1
<1>3. /\ part \in Seq(Nat)
      /\ Len(part) = IF offset + 1 <= offset + count THEN (offset + count) - (offset + 1) + 1 ELSE 0
      /\ \A j \in 1 .. (offset + count) - (offset + 1) + 1 : part[j] = file[(offset + 1) + j - 1]
  BY <1>1, <1>2, SubSeqProperties
<1> HIDE DEF part
<1>4. Len(part) = count
  BY <1>3
<1>5. ASSUME NEW j \in 1 .. count PROVE part[j] = file[offset + j]
  <2>1. j \in 1 .. (offset + count) - (offset + 1) + 1 /\ (offset + 1) + j - 1 = offset + j
    OBVIOUS
  <2> QED
    BY <1>3, <2>1
<1> QED
  BY <1>3, <1>4, <1>5 DEF Strings, part

\* So many elements of a file from an offset on.
IsPartOfFile(part, file, offset, count) ==
  /\ part \in Strings /\ Len(part) = count
  /\ \A j \in 1 .. count : part[j] = file[offset + j]

LEMMA TakesPartOfFile ==
  ASSUME NEW file \in Strings, NEW offset \in Nat, NEW count \in Nat, offset + count <= Len(file)
  PROVE  IsPartOfFile(SubSeq(file, offset + 1, offset + count), file, offset, count)
BY PartOfFile DEF IsPartOfFile

\* A byte decoded where it stood and encoded where it is written.
Recoded(key, file, place, by) ==
  Blk!Xor(Blk!Xor(file[place], KeyAt(key, place)), KeyAt(key, by + place))

LEMMA RecodedIsByte ==
  ASSUME NEW key, IsKey(key), NEW file \in Strings, NEW place \in 1 .. Len(file), NEW by \in Nat
  PROVE  /\ Recoded(key, file, place, by) \in Nat
         /\ Blk!Xor(Recoded(key, file, place, by), KeyAt(key, by + place)) = Decoded(file, key)[place]
<1>1. Len(file) \in Nat /\ file[place] \in Nat /\ place \in Nat \ {0} /\ by + place \in Nat \ {0}
  BY DEF Strings
<1>2. KeyAt(key, place) \in Nat /\ KeyAt(key, by + place) \in Nat
  BY <1>1, KeyIsRead
<1>3. Blk!Xor(file[place], KeyAt(key, place)) \in Nat
  BY <1>1, <1>2, XorUndoes
<1> DEFINE plain == Blk!Xor(file[place], KeyAt(key, place))
           k == KeyAt(key, by + place)
<1>4. Decoded(file, key)[place] = plain
  BY DecodedIsString
<1> HIDE DEF plain, k
<1>5. Blk!Xor(plain, k) \in Nat /\ Blk!Xor(Blk!Xor(plain, k), k) = plain
  BY <1>2, <1>3, XorUndoes DEF plain, k
<1> QED
  BY <1>4, <1>5 DEF Recoded, plain, k

Recodes(key, file, copied, want, by) ==
  [j \in 1 .. want |-> Recoded(key, file, copied + j, by)]

LEMMA RekeyFacts ==
  ASSUME NEW key, IsKey(key), NEW file \in Strings, NEW copied \in Nat, NEW want \in Nat,
         copied + want <= Len(file), NEW by \in Nat
  PROVE  LET chunk == SubSeq(file, copied + 1, copied + want)
         IN  Blk!Rekey(key, chunk, copied, by + copied)
               = Recodes(key, file, copied, want, by)
<1> DEFINE chunk == SubSeq(file, copied + 1, copied + want)
           plain == Blk!Apply(key, chunk, copied)
<1>1. chunk \in Strings /\ Len(chunk) = want /\ \A j \in 1 .. want : chunk[j] = file[copied + j]
  BY PartOfFile
<1> HIDE DEF chunk
<1>2. plain = [j \in 1 .. want |-> Blk!Xor(chunk[j], KeyAt(key, copied + j))]
  BY <1>1, ApplyFacts
<1>3. ASSUME NEW j \in 1 .. want PROVE Blk!Xor(chunk[j], KeyAt(key, copied + j)) \in Nat
  <2>1. copied + j \in Nat \ {0} /\ chunk[j] \in Nat
    BY <1>1 DEF Strings
  <2>2. KeyAt(key, copied + j) \in Nat
    BY <2>1, KeyIsRead
  <2> QED
    BY <2>1, <2>2, XorUndoes
<1>4. plain \in Strings /\ Len(plain) = want
  BY <1>2, <1>3 DEF Strings
<1> HIDE DEF plain
<1>5. Blk!Apply(key, plain, by + copied)
        = [j \in 1 .. want |-> Blk!Xor(plain[j], KeyAt(key, (by + copied) + j))]
  <2> DEFINE at == by + copied
  <2>1. at \in Nat
    OBVIOUS
  <2> HIDE DEF at
  <2>2. Blk!Apply(key, plain, at) = [j \in 1 .. Len(plain) |-> Blk!Xor(plain[j], KeyAt(key, at + j))]
    BY <1>4, <2>1, ApplyFacts
  <2> QED
    BY <1>4, <2>2 DEF at
<1>6. ASSUME NEW j \in 1 .. want
      PROVE  Blk!Xor(plain[j], KeyAt(key, (by + copied) + j)) = Recoded(key, file, copied + j, by)
  <2>1. (by + copied) + j = by + (copied + j)
    OBVIOUS
  <2> QED
    BY <1>1, <1>2, <2>1 DEF Recoded
<1> HIDE DEF plain
<1>7. [j \in 1 .. want |-> Blk!Xor(plain[j], KeyAt(key, (by + copied) + j))]
        = [j \in 1 .. want |-> Recoded(key, file, copied + j, by)]
  BY <1>6
<1>8. Blk!Rekey(key, chunk, copied, by + copied) = Blk!Apply(key, plain, by + copied)
  BY DEF Blk!Rekey, plain
<1> QED
  BY <1>5, <1>7, <1>8 DEF chunk, Recodes

\* What is left to copy of a file.
Rest(key, file, payload, by, copied) ==
  [i \in 1 .. payload - copied |-> Recoded(key, file, copied + i, by)]

LEMMA RestIsString ==
  ASSUME NEW key, IsKey(key), NEW file \in Strings, NEW payload \in Nat, payload <= Len(file),
         NEW by \in Nat, NEW copied \in 0 .. payload
  PROVE  /\ Rest(key, file, payload, by, copied) \in Strings
         /\ Len(Rest(key, file, payload, by, copied)) = payload - copied
<1>1. Len(file) \in Nat /\ payload - copied \in Nat
  BY DEF Strings
<1>2. ASSUME NEW i \in 1 .. payload - copied PROVE Recoded(key, file, copied + i, by) \in Nat
  <2>1. copied + i \in 1 .. Len(file)
    BY <1>1
  <2> QED
    BY <2>1, RecodedIsByte
<1> QED
  BY <1>1, <1>2 DEF Rest, Strings

LEMMA RestGrows ==
  ASSUME NEW key, IsKey(key), NEW file \in Strings, NEW payload \in Nat, payload <= Len(file),
         NEW by \in Nat, NEW copied \in Nat, NEW want \in Nat, copied + want <= payload
  PROVE  Rest(key, file, payload, by, copied)
           = Recodes(key, file, copied, want, by) \o Rest(key, file, payload, by, copied + want)
<1> DEFINE a == [j \in 1 .. want |-> Recoded(key, file, copied + j, by)]
           b == Rest(key, file, payload, by, copied + want)
           c == Rest(key, file, payload, by, copied)
           n == payload - copied
<1>1. Len(file) \in Nat /\ n \in Nat /\ copied \in 0 .. payload /\ copied + want \in 0 .. payload
      /\ payload - (copied + want) = n - want /\ want <= n
  BY DEF Strings
<1>2. b \in Strings /\ Len(b) = n - want
  BY <1>1, RestIsString
<1>3. c \in Strings /\ Len(c) = n
  BY <1>1, RestIsString
<1>4. \A i \in 1 .. n - want : b[i] = Recoded(key, file, (copied + want) + i, by)
  BY <1>1 DEF Rest
<1>5. \A i \in 1 .. n : c[i] = Recoded(key, file, copied + i, by)
  BY <1>1 DEF Rest
<1>6. a \in Strings /\ Len(a) = want /\ \A i \in 1 .. want : a[i] = Recoded(key, file, copied + i, by)
  <2>1. ASSUME NEW j \in 1 .. want PROVE Recoded(key, file, copied + j, by) \in Nat
    <3>1. copied + j \in 1 .. Len(file)
      BY <1>1
    <3> QED
      BY <3>1, RecodedIsByte
  <2> QED
    BY <2>1 DEF Strings
<1> HIDE DEF a, b, c
<1>7. /\ a \o b \in Strings /\ Len(a \o b) = Len(a) + Len(b)
      /\ \A i \in 1 .. Len(a) + Len(b) : (a \o b)[i] = IF i <= Len(a) THEN a[i] ELSE b[i - Len(a)]
  <2>1. a \in Seq(Nat) /\ b \in Seq(Nat)
    BY <1>2, <1>6 DEF Strings
  <2> QED
    BY <2>1, ConcatProperties, Zenon DEF Strings
<1> DEFINE d == a \o b
<1> HIDE DEF d
<1>8. Len(d) = n
  BY <1>1, <1>2, <1>6, <1>7 DEF d
<1> HIDE DEF n
<1>9. ASSUME NEW i \in 1 .. n PROVE c[i] = d[i]
  <2>1. d[i] = IF i <= want THEN a[i] ELSE b[i - want]
    BY <1>1, <1>2, <1>6, <1>7 DEF d
  <2>2. CASE i <= want
    BY <1>1, <1>5, <1>6, <2>1, <2>2
  <2>3. CASE ~(i <= want)
    <3>1. i - want \in 1 .. n - want /\ (copied + want) + (i - want) = copied + i
      BY <1>1, <2>3
    <3> QED
      BY <1>4, <1>5, <2>1, <2>3, <3>1
  <2> QED
    BY <2>2, <2>3
<1>10. c = d
  BY <1>3, <1>7, <1>8, <1>9, SeqEqual DEF d, Strings
<1> QED
  BY <1>10 DEF a, b, c, d, Recodes

\* What a copy of a file's payload appends to the output.
LEMMA CopyAppends ==
  ASSUME CHUNK \in Nat \ {0}, NEW key, IsKey(key), NEW file \in Strings, NEW payload \in Nat,
         payload <= Len(file), NEW output \in Strings
  PROVE  Blk!CopyFile(key, file, payload, output)
           = output \o Rest(key, file, payload, Len(output), 0)
<1> DEFINE by == Len(output)
           Want(c) == Blk!Want(c, payload)
           Chunk(c) == Blk!Rekey(key, SubSeq(file, c + 1, c + Want(c)), c, by + c)
           Defines(f) ==
             f = [c \in 0 .. payload |-> IF c = payload THEN <<>> ELSE Chunk(c) \o f[c + Want(c)]]
           after == CHOOSE f : Defines(f)
           Left(c) == Rest(key, file, payload, by, c)
           g == [c \in 0 .. payload |-> Left(c)]
<1>1. by \in Nat /\ Len(file) \in Nat
  BY DEF Strings
<1>2. Blk!CopyFile(key, file, payload, output) = output \o after[0]
  BY DEF Blk!CopyFile
<1>3. ASSUME NEW c \in 0 .. payload, c # payload
      PROVE  /\ Want(c) \in Nat /\ Want(c) >= 1 /\ c + Want(c) \in 0 .. payload
             /\ Left(c) = Chunk(c) \o Left(c + Want(c))
  <2>1. Want(c) \in Nat /\ Want(c) >= 1 /\ c + Want(c) \in 0 .. payload
    BY <1>3 DEF Blk!Want
  <2> DEFINE w == Want(c)
  <2> HIDE DEF w
  <2>2. w \in Nat /\ w >= 1 /\ c + w \in 0 .. payload /\ c \in Nat /\ c + w <= payload
        /\ c + w <= Len(file)
    BY <1>1, <2>1 DEF w
  <2>3. Blk!Rekey(key, SubSeq(file, c + 1, c + w), c, by + c)
          = Recodes(key, file, c, w, by)
    BY <1>1, <2>2, RekeyFacts
  <2> HIDE DEF by
  <2>4. Left(c) = Recodes(key, file, c, w, by) \o Left(c + w)
    <3>1. c \in Nat /\ w \in Nat /\ c + w <= payload /\ by \in Nat
      BY <1>1, <2>2
    <3> HIDE DEF Want, Chunk, after, g, Defines
    <3> QED
      BY <3>1, RestGrows
  <2> QED
    BY <2>1, <2>3, <2>4 DEF w
<1>4. Left(payload) = <<>>
  <2>1. payload \in 0 .. payload
    OBVIOUS
  <2>2. Left(payload) \in Strings /\ Len(Left(payload)) = 0
    BY <1>1, <2>1, RestIsString
  <2> HIDE DEF Left
  <2> QED
    BY <2>2 DEF Strings
<1> HIDE DEF by, Want, Chunk, Left
<1>5. Defines(g)
  <2>1. ASSUME NEW c \in 0 .. payload
        PROVE  Left(c) = IF c = payload THEN <<>> ELSE Chunk(c) \o g[c + Want(c)]
    <3>1. CASE c = payload
      BY <1>4, <3>1
    <3>2. CASE c # payload
      <4>1. c + Want(c) \in 0 .. payload /\ Left(c) = Chunk(c) \o Left(c + Want(c))
        BY <1>3, <3>2
      <4>2. g[c + Want(c)] = Left(c + Want(c))
        BY <4>1
      <4> QED
        BY <3>2, <4>1, <4>2
    <3> QED
      BY <3>1, <3>2
  <2>2. [c \in 0 .. payload |-> Left(c)]
          = [c \in 0 .. payload |-> IF c = payload THEN <<>> ELSE Chunk(c) \o g[c + Want(c)]]
    <3> HIDE DEF g
    <3> QED
      BY <2>1
  <2> QED
    BY <2>2
<1>6. Defines(after)
  <2> HIDE DEF Defines, g
  <2> QED
    BY <1>5
<1>7. \A c \in 0 .. payload : g[c] = Left(c)
  OBVIOUS
<1> HIDE DEF g, after
<1>8. \A c \in 0 .. payload : after[c] = IF c = payload THEN <<>> ELSE Chunk(c) \o after[c + Want(c)]
  BY <1>6
<1> HIDE DEF Defines
<1> DEFINE D == 0 .. payload
           S == {c \in D : after[c] = Left(c)}
           rank == [c \in D |-> payload - c]
<1>9. rank \in [D -> Nat] /\ \A c \in D : rank[c] = payload - c
  OBVIOUS
<1> HIDE DEF rank
<1>10. ASSUME NEW c \in D, \A y \in D : rank[y] < rank[c] => y \in S PROVE c \in S
  <2>1. CASE c = payload
    BY <1>4, <1>8, <2>1
  <2>2. CASE c # payload
    <3> DEFINE next == c + Want(c)
    <3>1. next \in D /\ next > c /\ Left(c) = Chunk(c) \o Left(next)
      BY <1>3, <2>2
    <3> HIDE DEF next
    <3>2. rank[next] < rank[c]
      <4>1. rank[next] = payload - next /\ rank[c] = payload - c
        BY <1>9, <3>1
      <4> QED
        BY <3>1, <4>1
    <3>3. after[next] = Left(next)
      BY <1>10, <3>1, <3>2
    <3>4. after[c] = Chunk(c) \o after[next]
      BY <1>8, <2>2 DEF next
    <3> QED
      BY <3>1, <3>3, <3>4
  <2> QED
    BY <2>1, <2>2
<1> HIDE DEF S, D
<1>11. \A c \in D : c \in S
  BY <1>9, <1>10, RankInduction
<1>12. after[0] = Left(0)
  BY <1>11 DEF S, D
<1> QED
  BY <1>2, <1>12 DEF Left, by

\* What was in the output stays; what is appended is decoded there as it was in the file.
LEMMA CopyFacts ==
  ASSUME CHUNK \in Nat \ {0}, NEW key, IsKey(key), NEW file \in Strings, NEW payload \in Nat,
         payload <= Len(file), NEW output \in Strings
  PROVE  LET copy == Blk!CopyFile(key, file, payload, output)
         IN  /\ copy \in Strings /\ Len(copy) = Len(output) + payload
             /\ \A i \in 1 .. Len(output) : Decoded(copy, key)[i] = Decoded(output, key)[i]
             /\ \A i \in 1 .. payload : Decoded(copy, key)[Len(output) + i] = Decoded(file, key)[i]
<1> DEFINE copy == Blk!CopyFile(key, file, payload, output)
           by == Len(output)
           new == Rest(key, file, payload, by, 0)
<1>1. by \in Nat /\ Len(file) \in Nat /\ 0 \in 0 .. payload
  BY DEF Strings
<1>2. copy = output \o new
  BY CopyAppends
<1>3. new \in Strings /\ Len(new) = payload
  BY <1>1, RestIsString
<1>4. \A i \in 1 .. payload : new[i] = Recoded(key, file, i, by)
  <2>1. \A i \in 1 .. payload : 0 + i = i /\ i \in 1 .. payload - 0
    OBVIOUS
  <2> QED
    BY <2>1 DEF Rest
<1> HIDE DEF copy, new
<1>5. /\ copy \in Strings /\ Len(copy) = by + payload
      /\ \A i \in 1 .. by + payload : copy[i] = IF i <= by THEN output[i] ELSE new[i - by]
  <2>1. /\ output \o new \in Strings /\ Len(output \o new) = Len(output) + Len(new)
        /\ \A i \in 1 .. Len(output) + Len(new) :
             (output \o new)[i] = IF i <= Len(output) THEN output[i] ELSE new[i - Len(output)]
    BY <1>3, ConcatProperties DEF Strings
  <2> QED
    BY <1>2, <1>3, <2>1
<1> HIDE DEF by
<1>6. \A i \in 1 .. by + payload : Decoded(copy, key)[i] = Blk!Xor(copy[i], KeyAt(key, i))
  BY <1>5, DecodedIsString
<1>7. ASSUME NEW i \in 1 .. by PROVE Decoded(copy, key)[i] = Decoded(output, key)[i]
  <2>1. i \in 1 .. by + payload /\ i <= by
    BY <1>1
  <2>2. Decoded(output, key)[i] = Blk!Xor(output[i], KeyAt(key, i))
    BY DecodedIsString DEF by
  <2> QED
    BY <1>5, <1>6, <2>1, <2>2
<1>8. ASSUME NEW i \in 1 .. payload PROVE Decoded(copy, key)[by + i] = Decoded(file, key)[i]
  <2>1. by + i \in 1 .. by + payload /\ ~(by + i <= by) /\ (by + i) - by = i /\ i \in 1 .. Len(file)
    BY <1>1
  <2>2. copy[by + i] = Recoded(key, file, i, by)
    BY <1>4, <1>5, <2>1
  <2>3. Blk!Xor(Recoded(key, file, i, by), KeyAt(key, by + i)) = Decoded(file, key)[i]
    BY <1>1, <2>1, RecodedIsByte
  <2> QED
    BY <1>6, <2>1, <2>2, <2>3
<1> QED
  BY <1>5, <1>7, <1>8 DEF copy, by

-----------------------------------------------------------------------------
(* The joined file, file by file, and its scan.                            *)

\* What the scan of a file finds, and where it stops.
StopOf(file, key) == Blk!ScanFile(file, key).stopped_at
RecordsOf(file, key) == Blk!ScanFile(file, key).records

LEMMA ScanIsResult ==
  ASSUME MAGIC # 0, NEW key, IsKey(key), NEW file \in Strings
  PROVE  StopOf(file, key) \in Nat /\ RecordsOf(file, key) \in Seq(BlockRecords)
<1>1. PICK scan : Scans(scan, Decoded(file, key)) /\ Blk!ScanFile(file, key) = scan[0]
  BY ScanFacts
<1>2. scan[0] \in Results
  BY <1>1 DEF Scans
<1>3. \A r \in Results : r.stopped_at \in Nat /\ r.records \in Seq(BlockRecords)
  BY DEF Results
<1> QED
  BY <1>1, <1>2, <1>3 DEF StopOf, RecordsOf

\* The output as the files are copied to it.
Outputs(out, files, key) ==
  /\ out \in [0 .. Len(files) -> Strings] /\ out[0] = <<>>
  /\ \A k \in 1 .. Len(files) :
       out[k] = Blk!CopyFile(key, files[k], StopOf(files[k], key), out[k - 1])

LEMMA JoinFacts ==
  ASSUME MAGIC # 0, CHUNK \in Nat \ {0}, NEW key, IsKey(key), NEW files \in Seq(Strings),
         Blk!Joins(files, key)
  PROVE  \E out : Outputs(out, files, key) /\ Blk!Join(files, key) = out[Len(files)]
<1> DEFINE n == Len(files)
           Copied(k, output) == Blk!CopyFile(key, files[k], StopOf(files[k], key), output)
           Defines(f) == f = [k \in 0 .. n |-> IF k = 0 THEN <<>> ELSE Copied(k, f[k - 1])]
           out == CHOOSE f : Defines(f)
           step == [s \in (1 .. n) \X Strings |-> Copied(s[1], s[2])]
<1>1. Blk!Join(files, key) = out[n]
  BY DEF Blk!Join, StopOf
<1>2. n \in Nat /\ \A k \in 1 .. n : files[k] \in Strings
  OBVIOUS
<1>3. ASSUME NEW k \in 1 .. n
      PROVE  StopOf(files[k], key) \in Nat /\ StopOf(files[k], key) <= Len(files[k])
  <2>1. k \in DOMAIN files
    OBVIOUS
  <2> QED
    BY <1>2, <2>1, ScanIsResult DEF Blk!Joins, StopOf
<1>4. ASSUME NEW k \in 1 .. n, NEW output \in Strings PROVE Copied(k, output) \in Strings
  BY <1>2, <1>3, CopyFacts
<1> HIDE DEF n, Copied
<1>5. step \in [(1 .. n) \X Strings -> Strings]
  <2>1. ASSUME NEW s \in (1 .. n) \X Strings PROVE Copied(s[1], s[2]) \in Strings
    <3>1. s[1] \in 1 .. n /\ s[2] \in Strings
      OBVIOUS
    <3> QED
      BY <1>4, <3>1
  <2> QED
    BY <2>1
<1>6. \A k \in 1 .. n, output \in Strings : step[<<k, output>>] = Copied(k, output)
  OBVIOUS
<1> HIDE DEF step
<1>7. <<>> \in Strings
  BY DEF Strings
<1>8. PICK g \in [0 .. n -> Strings] : Filled(g, n, <<>>, step)
  BY <1>2, <1>5, <1>7, Fills
<1>9. g[0] = <<>> /\ \A k \in 1 .. n : g[k] = Copied(k, g[k - 1])
  <2>1. ASSUME NEW k \in 1 .. n PROVE g[k] = Copied(k, g[k - 1])
    <3>1. g[k] = step[<<k, g[k - 1]>>]
      BY <1>8 DEF Filled
    <3>2. k - 1 \in 0 .. n
      BY <1>2
    <3>3. g[k - 1] \in Strings
      BY <3>2
    <3> QED
      BY <1>6, <3>1, <3>3
  <2> QED
    BY <1>8, <2>1 DEF Filled
<1>10. Defines(g)
  <2>1. ASSUME NEW k \in 0 .. n PROVE g[k] = IF k = 0 THEN <<>> ELSE Copied(k, g[k - 1])
    <3>1. k = 0 \/ k \in 1 .. n
      BY <1>2
    <3> QED
      BY <1>9, <3>1
  <2>2. g = [k \in 0 .. n |-> g[k]]
    BY <1>8
  <2>3. [k \in 0 .. n |-> g[k]] = [k \in 0 .. n |-> IF k = 0 THEN <<>> ELSE Copied(k, g[k - 1])]
    BY <2>1
  <2> QED
    BY <2>2, <2>3
<1>11. Defines(out)
  <2> HIDE DEF Defines
  <2> QED
    BY <1>10
<1> HIDE DEF out
<1>12. \A k \in 0 .. n : out[k] = IF k = 0 THEN <<>> ELSE Copied(k, out[k - 1])
  BY <1>11
<1>13. DOMAIN out = 0 .. n /\ out = [k \in 0 .. n |-> out[k]]
  <2>1. DOMAIN out = 0 .. n
    BY <1>11
  <2> QED
    BY <1>11, <2>1
<1> HIDE DEF Defines
<1> DEFINE S == {k \in Nat : k <= n => out[k] \in Strings}
<1>14. 0 \in S
  BY <1>2, <1>7, <1>12
<1>15. ASSUME NEW k \in Nat, k \in S PROVE k + 1 \in S
  <2> SUFFICES ASSUME k + 1 <= n PROVE out[k + 1] \in Strings
    OBVIOUS
  <2>1. out[k] \in Strings
    BY <1>2, <1>15
  <2>2. k + 1 \in 0 .. n /\ k + 1 # 0 /\ k + 1 \in 1 .. n /\ (k + 1) - 1 = k
    BY <1>2
  <2> QED
    BY <1>4, <1>12, <2>1, <2>2
<1> HIDE DEF S
<1>16. \A k \in Nat : k \in S
  BY <1>14, <1>15, Induction
<1>17. \A k \in 0 .. n : out[k] \in Strings
  BY <1>2, <1>16 DEF S
<1>18. out \in [0 .. n -> Strings]
  BY <1>13, <1>17
<1>19. out[0] = <<>> /\ \A k \in 1 .. n : out[k] = Copied(k, out[k - 1])
  BY <1>2, <1>12
<1> QED
  BY <1>1, <1>18, <1>19 DEF Outputs, n, Copied

\* A later output begins as an earlier one, and a file's payload lies behind it.
LEMMA OutputFacts ==
  ASSUME MAGIC # 0, CHUNK \in Nat \ {0}, NEW key, IsKey(key), NEW files \in Seq(Strings),
         Blk!Joins(files, key), NEW out, Outputs(out, files, key), NEW k \in 1 .. Len(files)
  PROVE  LET by == Len(out[k - 1])
             end == StopOf(files[k], key)
         IN  /\ files[k] \in Strings /\ out[k - 1] \in Strings /\ out[k] \in Strings
             /\ end \in Nat /\ end <= Len(files[k]) /\ Len(out[k]) = by + end
             /\ \A i \in 1 .. by : Decoded(out[k], key)[i] = Decoded(out[k - 1], key)[i]
             /\ \A i \in 1 .. end : Decoded(out[k], key)[by + i] = Decoded(files[k], key)[i]
<1>1. files[k] \in Strings /\ k \in DOMAIN files /\ k - 1 \in 0 .. Len(files) /\ k \in 0 .. Len(files)
  OBVIOUS
<1>2. out[k - 1] \in Strings /\ out[k] \in Strings
  BY <1>1 DEF Outputs
<1>3. StopOf(files[k], key) \in Nat /\ StopOf(files[k], key) <= Len(files[k])
  BY <1>1, ScanIsResult DEF Blk!Joins, StopOf
<1>4. out[k] = Blk!CopyFile(key, files[k], StopOf(files[k], key), out[k - 1])
  BY DEF Outputs
<1> DEFINE file == files[k]
           end == StopOf(files[k], key)
           output == out[k - 1]
<1> HIDE DEF file, end, output
<1>5. LET copy == Blk!CopyFile(key, file, end, output)
      IN  /\ copy \in Strings /\ Len(copy) = Len(output) + end
          /\ \A i \in 1 .. Len(output) : Decoded(copy, key)[i] = Decoded(output, key)[i]
          /\ \A i \in 1 .. end : Decoded(copy, key)[Len(output) + i] = Decoded(file, key)[i]
  <2>1. file \in Strings /\ end \in Nat /\ end <= Len(file) /\ output \in Strings
    BY <1>1, <1>2, <1>3 DEF file, end, output
  <2> QED
    BY <2>1, CopyFacts
<1> QED
  BY <1>1, <1>2, <1>3, <1>4, <1>5 DEF file, end, output

LEMMA OutputsGrow ==
  ASSUME MAGIC # 0, CHUNK \in Nat \ {0}, NEW key, IsKey(key), NEW files \in Seq(Strings),
         Blk!Joins(files, key), NEW out, Outputs(out, files, key), NEW k \in 0 .. Len(files)
  PROVE  LET whole == out[Len(files)]
         IN  /\ whole \in Strings /\ out[k] \in Strings /\ Len(out[k]) <= Len(whole)
             /\ \A i \in 1 .. Len(out[k]) : Decoded(whole, key)[i] = Decoded(out[k], key)[i]
<1> DEFINE n == Len(files)
           Grown(m) == /\ out[k] \in Strings /\ out[m] \in Strings /\ Len(out[k]) <= Len(out[m])
                       /\ \A i \in 1 .. Len(out[k]) : Decoded(out[m], key)[i] = Decoded(out[k], key)[i]
           S == {m \in Nat : k + m <= n => Grown(k + m)}
<1>1. n \in Nat /\ k \in Nat /\ k <= n /\ \A m \in 0 .. n : out[m] \in Strings
  <2>1. Len(files) \in Nat
    OBVIOUS
  <2>2. out \in [0 .. n -> Strings]
    BY DEF Outputs
  <2> HIDE DEF n
  <2>3. n \in Nat
    BY <2>1 DEF n
  <2>4. k \in 0 .. n
    BY DEF n
  <2> QED
    BY <2>2, <2>3, <2>4
<1>2. 0 \in S
  <2>1. out[k] \in Strings /\ Len(out[k]) \in Nat
    BY <1>1 DEF Strings
  <2>2. k + 0 = k
    OBVIOUS
  <2> QED
    BY <2>1, <2>2
<1>3. ASSUME NEW m \in Nat, m \in S PROVE m + 1 \in S
  <2> SUFFICES ASSUME k + (m + 1) <= n PROVE Grown(k + (m + 1))
    OBVIOUS
  <2> DEFINE l == k + m
  <2>1. l \in Nat /\ l <= n /\ l + 1 \in 1 .. n /\ (l + 1) - 1 = l /\ k + (m + 1) = l + 1
    BY <1>1
  <2>2. Grown(l)
    BY <1>3, <2>1
  <2> HIDE DEF l, Grown, n
  <2>3. LET by == Len(out[l]) IN
        /\ out[l] \in Strings /\ out[l + 1] \in Strings /\ Len(out[l]) \in Nat
        /\ Len(out[l + 1]) >= by
        /\ \A i \in 1 .. by : Decoded(out[l + 1], key)[i] = Decoded(out[l], key)[i]
    <3> DEFINE j == l + 1
               end == StopOf(files[j], key)
    <3>1. j \in 1 .. Len(files)
      BY <2>1 DEF n
    <3>2. j - 1 = l
      BY <2>1
    <3> HIDE DEF j
    <3>3. /\ out[j - 1] \in Strings /\ out[j] \in Strings
          /\ end \in Nat /\ Len(out[j]) = Len(out[j - 1]) + end
          /\ \A i \in 1 .. Len(out[j - 1]) : Decoded(out[j], key)[i] = Decoded(out[j - 1], key)[i]
      BY <3>1, OutputFacts
    <3> HIDE DEF end
    <3>4. Len(out[l]) \in Nat
      BY <3>2, <3>3 DEF Strings
    <3>5. Len(out[j]) >= Len(out[l])
      BY <3>2, <3>3, <3>4
    <3> QED
      BY <3>2, <3>3, <3>4, <3>5 DEF j
  <2>4. Len(out[k]) \in Nat /\ Len(out[k]) <= Len(out[l])
        /\ \A i \in 1 .. Len(out[k]) : Decoded(out[l], key)[i] = Decoded(out[k], key)[i]
    BY <2>2 DEF Grown, Strings
  <2>5. Len(out[l + 1]) \in Nat
    BY <2>3 DEF Strings
  <2>6. Len(out[k]) <= Len(out[l + 1])
    BY <2>3, <2>4, <2>5
  <2>7. ASSUME NEW i \in 1 .. Len(out[k]) PROVE Decoded(out[l + 1], key)[i] = Decoded(out[k], key)[i]
    <3>1. i \in 1 .. Len(out[l])
      BY <2>3, <2>4
    <3> QED
      BY <2>3, <2>4, <3>1
  <2> QED
    BY <2>1, <2>2, <2>3, <2>6, <2>7 DEF Grown
<1> HIDE DEF S
<1>4. \A m \in Nat : m \in S
  BY <1>2, <1>3, Induction
<1>5. n - k \in Nat /\ k + (n - k) = n
  BY <1>1
<1>6. Grown(n)
  <2>1. n - k \in S
    BY <1>4, <1>5
  <2> QED
    BY <1>1, <1>5, <2>1 DEF S
<1> QED
  BY <1>6

LEMMA StartsFacts ==
  ASSUME MAGIC # 0, CHUNK \in Nat \ {0}, NEW key, IsKey(key), NEW files \in Seq(Strings),
         Blk!Joins(files, key), NEW out, Outputs(out, files, key)
  PROVE  \A k \in 1 .. Len(files) : Blk!Starts(files, key)[k] = Len(out[k - 1])
<1> DEFINE n == Len(files)
           Defines(f) ==
             f = [m \in 1 .. n |-> IF m = 1 THEN 0 ELSE f[m - 1] + StopOf(files[m - 1], key)]
           start == CHOOSE f : Defines(f)
           g == [m \in 1 .. n |-> Len(out[m - 1])]
           S == {m \in Nat : m + 1 <= n => start[m + 1] = Len(out[m])}
<1>1. Blk!Starts(files, key) = start
  BY DEF Blk!Starts, StopOf
<1>2. n \in Nat /\ Len(out[0]) = 0
  BY DEF Outputs
<1>3. ASSUME NEW m \in Nat \ {0}, m <= n PROVE Len(out[m]) = Len(out[m - 1]) + StopOf(files[m], key)
  <2>1. m \in 1 .. Len(files)
    BY <1>2, <1>3
  <2> QED
    BY <2>1, OutputFacts
<1> HIDE DEF n
<1>4. Defines(g)
  <2>1. ASSUME NEW m \in 1 .. n
        PROVE  Len(out[m - 1]) = IF m = 1 THEN 0 ELSE g[m - 1] + StopOf(files[m - 1], key)
    <3>1. CASE m = 1
      BY <1>2, <3>1
    <3>2. CASE m # 1
      <4>1. m - 1 \in Nat \ {0} /\ m - 1 <= n /\ m - 1 \in 1 .. n
        BY <1>2, <3>2
      <4>2. g[m - 1] = Len(out[(m - 1) - 1])
        BY <4>1
      <4>3. Len(out[m - 1]) = Len(out[(m - 1) - 1]) + StopOf(files[m - 1], key)
        BY <1>3, <4>1
      <4> QED
        BY <3>2, <4>2, <4>3
    <3> QED
      BY <3>1, <3>2
  <2>2. [m \in 1 .. n |-> Len(out[m - 1])]
          = [m \in 1 .. n |-> IF m = 1 THEN 0 ELSE g[m - 1] + StopOf(files[m - 1], key)]
    <3> HIDE DEF g
    <3> QED
      BY <2>1
  <2> QED
    BY <2>2
<1>5. Defines(start)
  <2> HIDE DEF Defines, g
  <2> QED
    BY <1>4
<1> HIDE DEF start, g
<1>6. \A m \in 1 .. n : start[m] = IF m = 1 THEN 0 ELSE start[m - 1] + StopOf(files[m - 1], key)
  BY <1>5
<1> HIDE DEF Defines
<1>7. 0 \in S
  <2>1. 0 + 1 <= n => start[1] = 0
    BY <1>2, <1>6
  <2> QED
    BY <1>2, <2>1
<1>8. ASSUME NEW m \in Nat, m \in S PROVE m + 1 \in S
  <2> SUFFICES ASSUME (m + 1) + 1 <= n PROVE start[(m + 1) + 1] = Len(out[m + 1])
    OBVIOUS
  <2> DEFINE l == m + 1
  <2>1. l \in Nat \ {0} /\ l <= n /\ l + 1 \in 1 .. n /\ l + 1 # 1 /\ (l + 1) - 1 = l /\ l - 1 = m
    BY <1>2
  <2>2. start[l] = Len(out[m])
    BY <1>8, <2>1
  <2> HIDE DEF l
  <2>3. start[l + 1] = start[l] + StopOf(files[l], key)
    BY <1>6, <2>1
  <2>4. Len(out[l]) = Len(out[m]) + StopOf(files[l], key)
    BY <1>3, <2>1
  <2> QED
    BY <2>2, <2>3, <2>4 DEF l
<1> HIDE DEF S
<1>9. \A m \in Nat : m \in S
  BY <1>7, <1>8, Induction
<1>10. ASSUME NEW k \in 1 .. n PROVE start[k] = Len(out[k - 1])
  <2>1. k - 1 \in Nat /\ (k - 1) + 1 = k /\ k <= n
    BY <1>2
  <2>2. k - 1 \in S
    BY <1>9, <2>1
  <2> QED
    BY <2>1, <2>2 DEF S
<1> QED
  BY <1>1, <1>10 DEF n

\* The records as the files' records are put behind one another.
JoinsRecords(joined, files, key) ==
  /\ joined \in [0 .. Len(files) -> Seq(BlockRecords)] /\ joined[0] = <<>>
  /\ \A k \in 1 .. Len(files) :
       joined[k] = joined[k - 1] \o Blk!Shifted(RecordsOf(files[k], key), Blk!Starts(files, key)[k])

LEMMA JoinedFacts ==
  ASSUME MAGIC # 0, NEW key, IsKey(key), NEW files \in Seq(Strings),
         \A k \in 1 .. Len(files) : Blk!Starts(files, key)[k] \in Nat
  PROVE  \E joined : JoinsRecords(joined, files, key) /\ Blk!Joined(files, key) = joined[Len(files)]
<1> DEFINE n == Len(files)
           Placed(k) == Blk!Shifted(RecordsOf(files[k], key), Blk!Starts(files, key)[k])
           Defines(f) == f = [k \in 0 .. n |-> IF k = 0 THEN <<>> ELSE f[k - 1] \o Placed(k)]
           joined == CHOOSE f : Defines(f)
           step == [s \in (1 .. n) \X Seq(BlockRecords) |-> s[2] \o Placed(s[1])]
<1>1. Blk!Joined(files, key) = joined[n]
  BY DEF Blk!Joined, RecordsOf
<1>2. n \in Nat /\ \A k \in 1 .. n : files[k] \in Strings
  OBVIOUS
<1>3. ASSUME NEW k \in 1 .. n, NEW records \in Seq(BlockRecords)
      PROVE  records \o Placed(k) \in Seq(BlockRecords)
  <2>1. RecordsOf(files[k], key) \in Seq(BlockRecords)
    BY <1>2, ScanIsResult
  <2>2. Placed(k) \in Seq(BlockRecords)
    BY <2>1, ShiftedFacts
  <2> HIDE DEF Placed
  <2> QED
    BY <2>2, ConcatProperties
<1> HIDE DEF n, Placed
<1>5. step \in [(1 .. n) \X Seq(BlockRecords) -> Seq(BlockRecords)]
  <2>1. ASSUME NEW s \in (1 .. n) \X Seq(BlockRecords) PROVE s[2] \o Placed(s[1]) \in Seq(BlockRecords)
    <3>1. s[1] \in 1 .. n /\ s[2] \in Seq(BlockRecords)
      OBVIOUS
    <3> QED
      BY <1>3, <3>1
  <2> QED
    BY <2>1
<1>6. \A k \in 1 .. n, records \in Seq(BlockRecords) : step[<<k, records>>] = records \o Placed(k)
  OBVIOUS
<1> HIDE DEF step
<1>7. <<>> \in Seq(BlockRecords)
  OBVIOUS
<1>8. PICK g \in [0 .. n -> Seq(BlockRecords)] : Filled(g, n, <<>>, step)
  BY <1>2, <1>5, <1>7, Fills
<1>9. g[0] = <<>> /\ \A k \in 1 .. n : g[k] = g[k - 1] \o Placed(k)
  <2>1. ASSUME NEW k \in 1 .. n PROVE g[k] = g[k - 1] \o Placed(k)
    <3>1. g[k] = step[<<k, g[k - 1]>>]
      BY <1>8 DEF Filled
    <3>2. k - 1 \in 0 .. n
      BY <1>2
    <3>3. g[k - 1] \in Seq(BlockRecords)
      BY <3>2
    <3> QED
      BY <1>6, <3>1, <3>3
  <2> QED
    BY <1>8, <2>1 DEF Filled
<1>10. Defines(g)
  <2>1. ASSUME NEW k \in 0 .. n PROVE g[k] = IF k = 0 THEN <<>> ELSE g[k - 1] \o Placed(k)
    <3>1. k = 0 \/ k \in 1 .. n
      BY <1>2
    <3> QED
      BY <1>9, <3>1
  <2>2. g = [k \in 0 .. n |-> g[k]]
    BY <1>8
  <2>3. [k \in 0 .. n |-> g[k]] = [k \in 0 .. n |-> IF k = 0 THEN <<>> ELSE g[k - 1] \o Placed(k)]
    BY <2>1
  <2> QED
    BY <2>2, <2>3
<1>11. Defines(joined)
  <2> HIDE DEF Defines
  <2> QED
    BY <1>10
<1> HIDE DEF joined
<1>12. \A k \in 0 .. n : joined[k] = IF k = 0 THEN <<>> ELSE joined[k - 1] \o Placed(k)
  BY <1>11
<1>13. DOMAIN joined = 0 .. n /\ joined = [k \in 0 .. n |-> joined[k]]
  <2>1. DOMAIN joined = 0 .. n
    BY <1>11
  <2> QED
    BY <1>11, <2>1
<1> HIDE DEF Defines
<1> DEFINE S == {k \in Nat : k <= n => joined[k] \in Seq(BlockRecords)}
<1>14. 0 \in S
  <2>1. 0 \in 0 .. n
    BY <1>2
  <2>2. joined[0] = <<>>
    BY <1>12, <2>1
  <2> QED
    BY <1>7, <2>2
<1>15. ASSUME NEW k \in Nat, k \in S PROVE k + 1 \in S
  <2> SUFFICES ASSUME k + 1 <= n PROVE joined[k + 1] \in Seq(BlockRecords)
    OBVIOUS
  <2>1. joined[k] \in Seq(BlockRecords)
    BY <1>2, <1>15
  <2>2. k + 1 \in 0 .. n /\ k + 1 # 0 /\ k + 1 \in 1 .. n /\ (k + 1) - 1 = k
    BY <1>2
  <2>3. joined[k + 1] = joined[k] \o Placed(k + 1)
    BY <1>12, <2>2
  <2> QED
    BY <1>3, <2>1, <2>2, <2>3
<1> HIDE DEF S
<1>16. \A k \in Nat : k \in S
  BY <1>14, <1>15, Induction
<1>17. \A k \in 0 .. n : joined[k] \in Seq(BlockRecords)
  BY <1>2, <1>16 DEF S
<1>18. joined \in [0 .. n -> Seq(BlockRecords)]
  BY <1>13, <1>17
<1>19. joined[0] = <<>> /\ \A k \in 1 .. n : joined[k] = joined[k - 1] \o Placed(k)
  <2>1. 0 \in 0 .. n /\ \A k \in 1 .. n : k \in 0 .. n /\ k # 0
    BY <1>2
  <2>2. joined[0] = <<>>
    BY <1>12, <2>1
  <2>3. \A k \in 1 .. n : joined[k] = joined[k - 1] \o Placed(k)
    BY <1>12, <2>1
  <2> QED
    BY <2>2, <2>3
<1> QED
  BY <1>1, <1>18, <1>19 DEF JoinsRecords, n, Placed

\* Nothing is found behind the end.
LEMMA ScanEnds ==
  ASSUME NEW text \in Strings, NEW scan, Scans(scan, text)
  PROVE  /\ scan[Len(text)].records = <<>> /\ scan[Len(text)].reason = "EndOfFile"
         /\ scan[Len(text)].stopped_at = Len(text)
<1>1. Len(text) \in Nat /\ Len(text) + 3 > Len(text)
  BY DEF Strings
<1>2. scan[Len(text)] = Blk!Stop(Len(text), "EndOfFile")
  BY <1>1 DEF Scans, ScanStep
<1> QED
  BY <1>2 DEF Blk!Stop

\* What one of the files adds to the scan of the whole.
Adds(g, file, key, by, end) ==
  /\ g[by].records = Blk!Shifted(RecordsOf(file, key), by) \o g[end].records
  /\ g[by].stopped_at = g[end].stopped_at /\ g[by].reason = g[end].reason

LEMMA FileIsScanned ==
  ASSUME MAGIC # 0, CHUNK \in Nat \ {0}, NEW key, IsKey(key), NEW files \in Seq(Strings),
         Blk!Joins(files, key), Blk!HoldHeaders(files, key),
         NEW out, Outputs(out, files, key), NEW k \in 1 .. Len(files),
         NEW g, Scans(g, Decoded(out[Len(files)], key))
  PROVE  Adds(g, files[k], key, Len(out[k - 1]), Len(out[k]))
<1> DEFINE file == files[k]
           by == Len(out[k - 1])
           end == StopOf(file, key)
           whole == Decoded(out[Len(files)], key)
           text == Decoded(file, key)
<1>1. /\ file \in Strings /\ out[k - 1] \in Strings /\ out[k] \in Strings
      /\ end \in Nat /\ end <= Len(file) /\ Len(out[k]) = by + end
      /\ \A i \in 1 .. end : Decoded(out[k], key)[by + i] = text[i]
  BY OutputFacts
<1>2. /\ out[Len(files)] \in Strings /\ Len(out[k]) <= Len(out[Len(files)])
      /\ \A i \in 1 .. Len(out[k]) : whole[i] = Decoded(out[k], key)[i]
  <2>1. k \in 0 .. Len(files)
    OBVIOUS
  <2> QED
    BY <2>1, OutputsGrow
<1>3. /\ text \in Strings /\ Len(text) = Len(file)
      /\ whole \in Strings /\ Len(whole) = Len(out[Len(files)])
  <2>1. text \in Strings /\ Len(text) = Len(file)
    BY <1>1, DecodedIsString
  <2>2. whole \in Strings /\ Len(whole) = Len(out[Len(files)])
    BY <1>2, DecodedIsString
  <2> QED
    BY <2>1, <2>2
<1>4. PICK f : Scans(f, text) /\ Blk!ScanFile(file, key) = f[0]
  BY <1>1, ScanFacts
<1>5. f[0].stopped_at = end /\ f[0].records = RecordsOf(file, key) /\ HasHeaders(f[0].records)
  <2>1. k \in DOMAIN files
    OBVIOUS
  <2>2. \A j \in DOMAIN Blk!ScanFile(files[k], key).records :
          Blk!ScanFile(files[k], key).records[j].size >= 1
    BY <2>1 DEF Blk!HoldHeaders
  <2> QED
    BY <1>4, <2>2 DEF HasHeaders, StopOf, RecordsOf
<1>6. by \in Nat
  BY <1>1 DEF Strings
<1>7. ASSUME NEW i \in 1 .. end PROVE whole[by + i] = text[i]
  <2>1. by + i \in 1 .. Len(out[k])
    BY <1>1, <1>6
  <2> HIDE DEF by, end, whole, text
  <2> QED
    BY <1>1, <1>2, <2>1
<1>8. by + end <= Len(whole) /\ end <= Len(text)
  <2> DEFINE a == Len(out[k])
             b == Len(whole)
  <2>1. a <= b /\ a = by + end
    BY <1>1, <1>2, <1>3
  <2> QED
    BY <1>1, <1>3, <2>1
<1>9. Scans(g, whole)
  OBVIOUS
<1> HIDE DEF by, end, whole, text, file
<1>10. Carries(f, g, by, end)
  <2>1. \A i \in 1 .. end : whole[by + i] = text[i]
    BY <1>7
  <2>2. Lies(text, whole, by, end)
    BY <1>1, <1>3, <1>6, <1>8, <2>1 DEF Lies
  <2> QED
    BY <1>4, <1>9, <2>2, ScanCarries
<1>11. /\ g[by + 0].records = Blk!Shifted(f[0].records, by) \o g[by + end].records
       /\ g[by + 0].stopped_at = g[by + end].stopped_at
       /\ g[by + 0].reason = g[by + end].reason
  BY <1>5, <1>10 DEF Carries
<1>12. by + 0 = by /\ by + end = Len(out[k])
  BY <1>1, <1>6
<1>13. /\ g[by].records = Blk!Shifted(RecordsOf(file, key), by) \o g[Len(out[k])].records
       /\ g[by].stopped_at = g[Len(out[k])].stopped_at
       /\ g[by].reason = g[Len(out[k])].reason
  BY <1>5, <1>11, <1>12
<1> QED
  BY <1>13 DEF by, file, Adds

\* A join that succeeds loses no record that a scan of the single files found
\* (concat.rs:9-22).
THEOREM JoinsKeepRecords ==
  ASSUME MAGIC # 0, CHUNK \in Nat \ {0}, NEW key, IsKey(key), NEW files \in Seq(Strings)
  PROVE  Blk!JoinKeepsRecords(files, key)
<1> SUFFICES ASSUME Blk!Joins(files, key), Blk!HoldHeaders(files, key)
             PROVE  LET scan == Blk!ScanFile(Blk!Join(files, key), key)
                    IN  /\ scan.records = Blk!Joined(files, key)
                        /\ scan.reason = "EndOfFile"
                        /\ scan.stopped_at = Len(Blk!Join(files, key))
  BY DEF Blk!JoinKeepsRecords
<1> DEFINE n == Len(files)
<1>1. PICK out : Outputs(out, files, key) /\ Blk!Join(files, key) = out[n]
  BY JoinFacts
<1>2. n \in Nat
  OBVIOUS
<1>3. \A k \in 1 .. n : Blk!Starts(files, key)[k] = Len(out[k - 1])
  BY <1>1, StartsFacts
<1>4. \A k \in 1 .. n : Len(out[k - 1]) \in Nat
  <2> SUFFICES ASSUME NEW k \in 1 .. n PROVE Len(out[k - 1]) \in Nat
    OBVIOUS
  <2>1. out[k - 1] \in Strings
    BY <1>1, OutputFacts
  <2> QED
    BY <2>1 DEF Strings
<1>5. PICK joined : JoinsRecords(joined, files, key) /\ Blk!Joined(files, key) = joined[n]
  <2>1. \A k \in 1 .. Len(files) : Blk!Starts(files, key)[k] \in Nat
    BY <1>3, <1>4
  <2> QED
    BY <2>1, JoinedFacts
<1>6. out[n] \in Strings /\ out[0] = <<>>
  <2>1. n \in 0 .. n
    BY <1>2
  <2> QED
    BY <1>1, <2>1 DEF Outputs
<1> DEFINE whole == Decoded(out[n], key)
<1>7. whole \in Strings /\ Len(whole) = Len(out[n])
  BY <1>6, DecodedIsString
<1>8. PICK g : Scans(g, whole) /\ Blk!ScanFile(out[n], key) = g[0]
  BY <1>6, ScanFacts
<1>9. \A o \in Nat : g[o].records \in Seq(BlockRecords)
  <2>1. \A o \in Nat : g[o] \in Results
    BY <1>8 DEF Scans
  <2>2. \A r \in Results : r.records \in Seq(BlockRecords)
    BY DEF Results
  <2> QED
    BY <2>1, <2>2
<1> DEFINE Kept(k) == /\ g[0].records = joined[k] \o g[Len(out[k])].records
                      /\ g[0].stopped_at = g[Len(out[k])].stopped_at
                      /\ g[0].reason = g[Len(out[k])].reason
           S == {k \in Nat : k <= n => Kept(k)}
<1> HIDE DEF whole
<1>10. 0 \in S
  <2>1. Len(out[0]) = 0 /\ joined[0] = <<>> /\ g[0].records \in Seq(BlockRecords)
    BY <1>5, <1>6, <1>9 DEF JoinsRecords
  <2>2. <<>> \o g[0].records = g[0].records
    BY <2>1, RecordsAssociate
  <2> QED
    BY <2>1, <2>2
<1> HIDE DEF Kept
<1>11. ASSUME NEW k \in Nat, k \in S PROVE k + 1 \in S
  <2> SUFFICES ASSUME k + 1 <= n PROVE Kept(k + 1)
    OBVIOUS
  <2> DEFINE l == k + 1
             by == Len(out[k])
             rest == g[Len(out[l])].records
             moved == Blk!Shifted(RecordsOf(files[l], key), by)
  <2>1. l \in 1 .. Len(files) /\ l - 1 = k /\ k <= n /\ k \in 0 .. Len(files) /\ l \in 0 .. Len(files)
    BY <1>2
  <2>2. Kept(k)
    BY <1>11, <2>1
  <2> HIDE DEF l
  <2>3. /\ g[by].records = moved \o rest
        /\ g[by].stopped_at = g[Len(out[l])].stopped_at
        /\ g[by].reason = g[Len(out[l])].reason
    <3>1. Adds(g, files[l], key, Len(out[l - 1]), Len(out[l]))
      <4>1. Outputs(out, files, key) /\ Scans(g, Decoded(out[Len(files)], key))
        BY <1>1, <1>8 DEF whole
      <4> HIDE DEF by, rest, moved, n
      <4> QED
        BY <2>1, <4>1, FileIsScanned
    <3> QED
      BY <2>1, <3>1 DEF Adds
  <2>4. joined[l] = joined[k] \o moved
    <3>1. joined[l] = joined[l - 1] \o Blk!Shifted(RecordsOf(files[l], key), Blk!Starts(files, key)[l])
      BY <1>5, <2>1 DEF JoinsRecords
    <3>2. Blk!Starts(files, key)[l] = Len(out[l - 1])
      BY <1>3, <2>1
    <3> QED
      BY <2>1, <3>1, <3>2
  <2>5. joined[k] \in Seq(BlockRecords)
    BY <1>5, <2>1 DEF JoinsRecords
  <2>6. moved \in Seq(BlockRecords)
    <3>1. files[l] \in Strings
      BY <2>1
    <3>2. RecordsOf(files[l], key) \in Seq(BlockRecords)
      BY <3>1, ScanIsResult
    <3>3. by \in Nat
      BY <1>4, <2>1
    <3> QED
      BY <3>2, <3>3, ShiftedFacts
  <2>7. rest \in Seq(BlockRecords)
    <3>1. out[l] \in Strings
      BY <1>1, <2>1 DEF Outputs
    <3>2. Len(out[l]) \in Nat
      BY <3>1 DEF Strings
    <3> QED
      BY <1>9, <3>2
  <2> HIDE DEF moved, rest
  <2>8. (joined[k] \o moved) \o rest = joined[k] \o (moved \o rest)
    BY <2>5, <2>6, <2>7, RecordsAssociate
  <2>9. g[0].records = joined[l] \o rest
    BY <2>2, <2>3, <2>4, <2>8 DEF Kept
  <2>10. g[0].stopped_at = g[Len(out[l])].stopped_at /\ g[0].reason = g[Len(out[l])].reason
    BY <2>2, <2>3 DEF Kept
  <2> QED
    BY <2>9, <2>10 DEF l, rest, Kept
<1> HIDE DEF S
<1>12. \A k \in Nat : k \in S
  BY <1>10, <1>11, Induction
<1>13. Kept(n)
  <2>1. n \in S /\ n <= n
    BY <1>2, <1>12
  <2> QED
    BY <2>1 DEF S
<1>14. /\ g[Len(out[n])].records = <<>> /\ g[Len(out[n])].reason = "EndOfFile"
       /\ g[Len(out[n])].stopped_at = Len(out[n])
  <2>1. whole \in Strings /\ Len(whole) = Len(out[n]) /\ Scans(g, whole)
    BY <1>7, <1>8
  <2> QED
    BY <2>1, ScanEnds
<1>15. joined[n] \in Seq(BlockRecords)
  <2>1. n \in 0 .. Len(files)
    BY <1>2
  <2> QED
    BY <1>5, <2>1 DEF JoinsRecords
<1>16. joined[n] \o <<>> = joined[n]
  BY <1>15, RecordsAssociate
<1>17. g[0].records = joined[n] /\ g[0].reason = "EndOfFile" /\ g[0].stopped_at = Len(out[n])
  BY <1>13, <1>14, <1>16 DEF Kept
<1> QED
  BY <1>1, <1>5, <1>8, <1>17

-----------------------------------------------------------------------------
(* The digits of a number, little end first, and the number they are.      *)

ByteAssumption == Byte \in Nat /\ Byte > 3

\* A quotient and a remainder.
LEMMA Quotients ==
  ASSUME NEW c \in Nat \ {0}, NEW n \in Nat
  PROVE  n \div c \in Nat /\ n % c \in 0 .. c - 1 /\ n = (n % c) + c * (n \div c)
OBVIOUS

LEMMA QuotientOf ==
  ASSUME NEW c \in Nat \ {0}, NEW x \in Nat, NEW y \in 0 .. c - 1
  PROVE  (y + c * x) \div c = x /\ (y + c * x) % c = y
<1> DEFINE n == y + c * x
<1>1. y \in Nat /\ y < c /\ c * x \in Nat /\ n \in Nat
  OBVIOUS
<1>2. n \div c = x
  BY <1>1, Divides
<1> HIDE DEF n
<1>3. n = (n % c) + c * (n \div c) /\ n % c \in Int
  BY <1>1, Quotients
<1>4. n % c = y
  <2>1. n = (n % c) + c * x
    BY <1>2, <1>3
  <2>2. n = y + c * x
    BY DEF n
  <2> QED
    BY <1>1, <1>3, <2>1, <2>2
<1> QED
  BY <1>2, <1>4 DEF n

LEMMA QuotientBelow ==
  ASSUME NEW c \in Nat \ {0}, NEW n \in Nat, NEW y \in Nat, n < c * y
  PROVE  n \div c < y
<1> DEFINE q == n \div c
<1>1. q \in Nat /\ c * q <= n
  <2>1. q \in Nat /\ n = (n % c) + c * q /\ n % c \in Nat /\ c * q \in Nat
    <3>1. q \in Nat /\ n % c \in 0 .. c - 1 /\ n = (n % c) + c * q
      BY Quotients
    <3> HIDE DEF q
    <3> QED
      BY <3>1
  <2> HIDE DEF q
  <2> QED
    BY <2>1
<1> HIDE DEF q
<1>2. \A u, w \in Int : u >= w => c * u >= c * w
  OBVIOUS
<1>3. ~(q >= y)
  <2>1. c * q \in Int /\ c * y \in Int
    BY <1>1
  <2> QED
    BY <1>1, <1>2, <2>1
<1> QED
  BY <1>1, <1>3 DEF q

\* The bytes of a number are the remainders of what is left of it.
Remains(rest, n) ==
  /\ rest \in [Nat -> Nat] /\ rest[0] = n
  /\ \A k \in Nat : rest[k + 1] = rest[k] \div Byte

LEMMA LittleEndianFacts ==
  ASSUME Byte \in Nat \ {0}, NEW n \in Nat
  PROVE  \E rest : /\ Remains(rest, n)
                   /\ \A width \in Nat :
                        Encodings!LittleEndian(n, width) = [i \in 1 .. width |-> rest[i - 1] % Byte]
<1> DEFINE Defines(f) == f = [i \in Nat |-> IF i = 0 THEN n ELSE f[i - 1] \div Byte]
           rest == CHOOSE f : Defines(f)
           step == [s \in Nat \X Nat |-> s[2] \div Byte]
<1>1. \A width \in Nat : Encodings!LittleEndian(n, width) = [i \in 1 .. width |-> rest[i - 1] % Byte]
  BY DEF Encodings!LittleEndian
<1>2. step \in [Nat \X Nat -> Nat] /\ \A k \in Nat, x \in Nat : step[<<k, x>>] = x \div Byte
  <2>1. \A x \in Nat : x \div Byte \in Nat
    BY Quotients
  <2> QED
    BY <2>1
<1> HIDE DEF step
<1>3. PICK f \in [Nat -> Nat] : Iterated(f, n, step)
  BY <1>2, Iterates, Zenon
<1>4. f[0] = n /\ \A k \in Nat : f[k + 1] = f[k] \div Byte
  BY <1>2, <1>3 DEF Iterated
<1>5. Defines(f)
  <2>1. ASSUME NEW k \in Nat PROVE f[k] = IF k = 0 THEN n ELSE f[k - 1] \div Byte
    <3>1. CASE k = 0
      BY <1>4, <3>1
    <3>2. CASE k # 0
      <4>1. k - 1 \in Nat /\ (k - 1) + 1 = k
        BY <3>2
      <4>2. f[(k - 1) + 1] = f[k - 1] \div Byte
        BY <1>4, <4>1
      <4> QED
        BY <3>2, <4>1, <4>2
    <3> QED
      BY <3>1, <3>2
  <2>2. f = [k \in Nat |-> f[k]]
    BY <1>3
  <2>3. [k \in Nat |-> f[k]] = [k \in Nat |-> IF k = 0 THEN n ELSE f[k - 1] \div Byte]
    BY <2>1
  <2> QED
    BY <2>2, <2>3
<1>6. Defines(rest)
  <2> HIDE DEF Defines
  <2> QED
    BY <1>5
<1> HIDE DEF rest
<1>7. rest[0] = n /\ rest = [k \in Nat |-> rest[k]]
  BY <1>6
<1>8. \A k \in Nat : rest[k + 1] = rest[k] \div Byte
  <2> SUFFICES ASSUME NEW k \in Nat PROVE rest[k + 1] = rest[k] \div Byte
    OBVIOUS
  <2>1. k + 1 \in Nat /\ k + 1 # 0 /\ (k + 1) - 1 = k
    OBVIOUS
  <2>2. rest[k + 1] = rest[(k + 1) - 1] \div Byte
    BY <1>6, <2>1
  <2> QED
    BY <2>1, <2>2
<1> HIDE DEF Defines
<1>9. rest \in [Nat -> Nat]
  <2> DEFINE S == {k \in Nat : rest[k] \in Nat}
  <2>1. 0 \in S
    BY <1>7
  <2>2. ASSUME NEW k \in Nat, k \in S PROVE k + 1 \in S
    <3>1. rest[k + 1] = rest[k] \div Byte /\ rest[k] \in Nat
      BY <1>8, <2>2
    <3>2. rest[k + 1] \in Nat
      BY <3>1, Quotients
    <3> QED
      BY <3>2
  <2> HIDE DEF S
  <2>3. \A k \in Nat : k \in S
    BY <2>1, <2>2, Induction
  <2>4. \A k \in Nat : rest[k] \in Nat
    BY <2>3 DEF S
  <2> QED
    BY <1>7, <2>4
<1> QED
  BY <1>1, <1>7, <1>8, <1>9 DEF Remains

\* After as many bytes as a number has, nothing is left.
LEMMA NothingRemains ==
  ASSUME Byte \in Nat \ {0}, NEW p, Powers(p), NEW n \in Nat, NEW rest, Remains(rest, n),
         NEW width \in Nat, n < p[width]
  PROVE  rest[width] = 0
<1>1. p \in [Nat -> Nat] /\ p[0] = 1 /\ \A k \in Nat : p[k + 1] = Byte * p[k]
  BY DEF Powers
<1>2. rest \in [Nat -> Nat] /\ rest[0] = n /\ \A k \in Nat : rest[k + 1] = rest[k] \div Byte
  BY DEF Remains
<1> DEFINE S == {k \in Nat : k <= width => rest[k] < p[width - k]}
<1>3. 0 \in S
  <2>1. width - 0 = width
    OBVIOUS
  <2> QED
    BY <1>2, <2>1
<1>4. ASSUME NEW k \in Nat, k \in S PROVE k + 1 \in S
  <2> SUFFICES ASSUME k + 1 <= width PROVE rest[k + 1] < p[width - (k + 1)]
    OBVIOUS
  <2> DEFINE m == width - (k + 1)
  <2>1. m \in Nat /\ width - k = m + 1 /\ k <= width
    OBVIOUS
  <2> HIDE DEF m
  <2>2. rest[k] < Byte * p[m]
    BY <1>1, <1>4, <2>1
  <2>3. rest[k] \in Nat /\ p[m] \in Nat /\ rest[k + 1] = rest[k] \div Byte
    BY <1>1, <1>2, <2>1
  <2>4. rest[k + 1] < p[m]
    BY <2>2, <2>3, QuotientBelow
  <2> QED
    BY <2>4 DEF m
<1> HIDE DEF S
<1>5. width \in S
  BY <1>3, <1>4, Induction
<1>6. rest[width] < p[0]
  <2>1. width - width = 0
    OBVIOUS
  <2> QED
    BY <1>5, <2>1 DEF S
<1>7. rest[width] \in Nat
  BY <1>2
<1> QED
  BY <1>1, <1>6, <1>7

\* A number from its bytes, from the last one down.
Backwards(bytes) == [i \in 1 .. Len(bytes) |-> bytes[Len(bytes) - i + 1]]

LEMMA FromFacts ==
  ASSUME Byte \in Nat \ {0}, NEW bytes \in Seq(0 .. Byte - 1)
  PROVE  /\ Backwards(bytes) \in [1 .. Len(bytes) -> 0 .. Byte - 1]
         /\ \E last : /\ Accumulates(last, Backwards(bytes), Len(bytes))
                      /\ Encodings!FromLittleEndian(bytes) = last[Len(bytes)]
<1> DEFINE n == Len(bytes)
           a == Backwards(bytes)
           Defines(f) == f = [i \in 0 .. n |-> IF i = 0 THEN 0 ELSE bytes[n - i + 1] + Byte * f[i - 1]]
           last == CHOOSE f : Defines(f)
           step == [s \in (1 .. n) \X Int |-> bytes[n - s[1] + 1] + Byte * s[2]]
<1>1. n \in Nat /\ bytes \in [1 .. n -> 0 .. Byte - 1]
  OBVIOUS
<1>2. Encodings!FromLittleEndian(bytes) = last[n]
  BY DEF Encodings!FromLittleEndian
<1>3. \A i \in 1 .. n : n - i + 1 \in 1 .. n /\ bytes[n - i + 1] \in 0 .. Byte - 1
      /\ a[i] = bytes[n - i + 1]
  BY <1>1 DEF Backwards
<1>4. a \in [1 .. n -> 0 .. Byte - 1]
  BY <1>3 DEF Backwards
<1> HIDE DEF n, a
<1>5. step \in [(1 .. n) \X Int -> Int]
      /\ \A i \in 1 .. n, x \in Int : step[<<i, x>>] = bytes[n - i + 1] + Byte * x
  <2>1. ASSUME NEW i \in 1 .. n, NEW x \in Int PROVE bytes[n - i + 1] + Byte * x \in Int
    <3>1. bytes[n - i + 1] \in Int /\ Byte * x \in Int
      BY <1>3
    <3> HIDE <1>3
    <3> QED
      BY <3>1
  <2> QED
    BY <2>1
<1> HIDE DEF step
<1>6. PICK f \in [0 .. n -> Int] : Filled(f, n, 0, step)
  <2>1. 0 \in Int /\ n \in Nat /\ step \in [(1 .. n) \X Int -> Int]
    BY <1>1, <1>5
  <2> QED
    BY <2>1, Fills
<1>7. f[0] = 0 /\ \A i \in 1 .. n : f[i] = bytes[n - i + 1] + Byte * f[i - 1]
  <2>1. ASSUME NEW i \in 1 .. n PROVE f[i] = bytes[n - i + 1] + Byte * f[i - 1]
    <3>1. f[i] = step[<<i, f[i - 1]>>] /\ i - 1 \in 0 .. n
      BY <1>1, <1>6 DEF Filled
    <3>2. f[i - 1] \in Int
      BY <3>1
    <3> QED
      BY <1>5, <3>1, <3>2
  <2> QED
    BY <1>6, <2>1 DEF Filled
<1>8. Defines(f)
  <2>1. ASSUME NEW i \in 0 .. n PROVE f[i] = IF i = 0 THEN 0 ELSE bytes[n - i + 1] + Byte * f[i - 1]
    <3>1. i = 0 \/ i \in 1 .. n
      BY <1>1
    <3> QED
      BY <1>7, <3>1
  <2>2. f = [i \in 0 .. n |-> f[i]]
    OBVIOUS
  <2>3. [i \in 0 .. n |-> f[i]]
          = [i \in 0 .. n |-> IF i = 0 THEN 0 ELSE bytes[n - i + 1] + Byte * f[i - 1]]
    BY <2>1
  <2> QED
    BY <2>2, <2>3
<1>9. Defines(last)
  <2> HIDE DEF Defines
  <2> QED
    BY <1>8
<1> HIDE DEF last
<1>10. \A i \in 0 .. n : last[i] = IF i = 0 THEN 0 ELSE bytes[n - i + 1] + Byte * last[i - 1]
  BY <1>9
<1>11. last = [i \in 0 .. n |-> last[i]]
  BY <1>9
<1> HIDE DEF Defines
<1>12. last[0] = 0 /\ \A i \in 1 .. n : last[i] = a[i] + Byte * last[i - 1]
  <2>1. 0 \in 0 .. n /\ \A i \in 1 .. n : i \in 0 .. n /\ i # 0
    BY <1>1
  <2>2. last[0] = 0
    BY <1>10, <2>1
  <2>3. ASSUME NEW i \in 1 .. n PROVE last[i] = a[i] + Byte * last[i - 1]
    <3>1. last[i] = bytes[n - i + 1] + Byte * last[i - 1]
      BY <1>10, <2>1
    <3> QED
      BY <1>3, <3>1
  <2> QED
    BY <2>2, <2>3
<1> DEFINE S == {i \in Nat : i <= n => last[i] \in Int}
<1>13. 0 \in S
  BY <1>12
<1>14. ASSUME NEW i \in Nat, i \in S PROVE i + 1 \in S
  <2> SUFFICES ASSUME i + 1 <= n PROVE last[i + 1] \in Int
    OBVIOUS
  <2>1. i + 1 \in 1 .. n /\ (i + 1) - 1 = i /\ last[i] \in Int
    BY <1>1, <1>14
  <2>2. last[i + 1] = a[i + 1] + Byte * last[i] /\ a[i + 1] \in Int
    <3>1. a[i + 1] \in 0 .. Byte - 1
      BY <1>4, <2>1
    <3>2. last[i + 1] = a[i + 1] + Byte * last[(i + 1) - 1]
      BY <1>12, <2>1
    <3> QED
      BY <2>1, <3>1, <3>2
  <2>3. Byte * last[i] \in Int
    BY <2>1
  <2> QED
    BY <2>2, <2>3
<1> HIDE DEF S
<1>15. \A i \in Nat : i \in S
  BY <1>13, <1>14, Induction
<1>16. \A i \in 0 .. n : last[i] \in Int
  BY <1>1, <1>15 DEF S
<1>17. last \in [0 .. n -> Int]
  BY <1>11, <1>16
<1>18. Accumulates(last, a, n)
  BY <1>12, <1>17 DEF Accumulates
<1> QED
  BY <1>2, <1>4, <1>18 DEF n, a

LEMMA NumberIsRead ==
  ASSUME Byte \in Nat \ {0}, NEW p, Powers(p), NEW n \in Nat, NEW width \in Nat, n < p[width]
  PROVE  /\ Encodings!LittleEndian(n, width) \in Seq(0 .. Byte - 1)
         /\ Len(Encodings!LittleEndian(n, width)) = width
         /\ Encodings!FromLittleEndian(Encodings!LittleEndian(n, width)) = n
<1> DEFINE bytes == Encodings!LittleEndian(n, width)
<1>1. PICK rest : /\ Remains(rest, n)
                  /\ bytes = [i \in 1 .. width |-> rest[i - 1] % Byte]
  BY LittleEndianFacts
<1>2. rest \in [Nat -> Nat] /\ rest[0] = n /\ \A k \in Nat : rest[k + 1] = rest[k] \div Byte
  BY <1>1 DEF Remains
<1>3. \A i \in 1 .. width : rest[i - 1] % Byte \in 0 .. Byte - 1
  <2> SUFFICES ASSUME NEW i \in 1 .. width PROVE rest[i - 1] % Byte \in 0 .. Byte - 1
    OBVIOUS
  <2>1. rest[i - 1] \in Nat
    BY <1>2
  <2> QED
    BY <2>1, Quotients
<1>4. bytes \in Seq(0 .. Byte - 1) /\ Len(bytes) = width
  BY <1>1, <1>3
<1>5. \A i \in 1 .. width : bytes[i] = rest[i - 1] % Byte
  BY <1>1
<1> HIDE DEF bytes
<1>6. PICK last : /\ Accumulates(last, Backwards(bytes), width)
                  /\ Encodings!FromLittleEndian(bytes) = last[width]
  BY <1>4, FromFacts
<1>7. last[0] = 0 /\ \A i \in 1 .. width : last[i] = Backwards(bytes)[i] + Byte * last[i - 1]
  BY <1>6 DEF Accumulates
<1>8. rest[width] = 0
  BY <1>1, NothingRemains
<1> DEFINE S == {i \in Nat : i <= width => last[i] = rest[width - i]}
<1>9. 0 \in S
  BY <1>7, <1>8
<1>10. ASSUME NEW i \in Nat, i \in S PROVE i + 1 \in S
  <2> SUFFICES ASSUME i + 1 <= width PROVE last[i + 1] = rest[width - (i + 1)]
    OBVIOUS
  <2> DEFINE m == width - (i + 1)
  <2>1. m \in Nat /\ width - i = m + 1 /\ i + 1 \in 1 .. width /\ (i + 1) - 1 = i
        /\ width - (i + 1) + 1 = m + 1 /\ m + 1 \in 1 .. width /\ (m + 1) - 1 = m /\ i <= width
    OBVIOUS
  <2>2. Backwards(bytes)[i + 1] = bytes[m + 1]
    BY <1>4, <2>1 DEF Backwards
  <2> HIDE DEF m
  <2>3. bytes[m + 1] = rest[m] % Byte
    BY <1>5, <2>1
  <2>4. last[i] = rest[m + 1]
    BY <1>10, <2>1
  <2>5. last[i + 1] = (rest[m] % Byte) + Byte * (rest[m] \div Byte)
    BY <1>2, <1>7, <2>1, <2>2, <2>3, <2>4
  <2>6. rest[m] \in Nat
    BY <1>2, <2>1
  <2>7. rest[m] = (rest[m] % Byte) + Byte * (rest[m] \div Byte)
    BY <2>6, Quotients
  <2> QED
    BY <2>5, <2>7 DEF m
<1> HIDE DEF S
<1>11. width \in S
  BY <1>9, <1>10, Induction
<1>12. last[width] = rest[0]
  <2>1. width - width = 0
    OBVIOUS
  <2> QED
    BY <1>11, <2>1 DEF S
<1> QED
  BY <1>2, <1>4, <1>6, <1>12 DEF bytes

LEMMA BytesAreWritten ==
  ASSUME Byte \in Nat \ {0}, NEW p, Powers(p), NEW bytes \in Seq(0 .. Byte - 1)
  PROVE  /\ Encodings!FromLittleEndian(bytes) \in Nat
         /\ Encodings!FromLittleEndian(bytes) < p[Len(bytes)]
         /\ Encodings!LittleEndian(Encodings!FromLittleEndian(bytes), Len(bytes)) = bytes
<1> DEFINE width == Len(bytes)
           n == Encodings!FromLittleEndian(bytes)
           a == Backwards(bytes)
<1>1. a \in [1 .. width -> 0 .. Byte - 1] /\ width \in Nat /\ bytes = [i \in 1 .. width |-> bytes[i]]
      /\ \A i \in 1 .. width : bytes[i] \in 0 .. Byte - 1
  BY FromFacts
<1>2. PICK last : Accumulates(last, a, width) /\ n = last[width]
  BY FromFacts
<1>3. last[0] = 0 /\ \A i \in 1 .. width : last[i] = a[i] + Byte * last[i - 1]
  BY <1>2 DEF Accumulates
<1>4. \A i \in 1 .. width : a[i] = bytes[width - i + 1]
  BY <1>1 DEF Backwards
<1> HIDE DEF width, n, a
<1>5. \A i \in 0 .. width : last[i] \in Nat /\ last[i] < p[i]
  BY <1>1, <1>2, ValuesAreBounded
<1>6. n \in Nat /\ n < p[width]
  BY <1>1, <1>2, <1>5
<1>7. PICK rest : /\ Remains(rest, n)
                  /\ Encodings!LittleEndian(n, width) = [i \in 1 .. width |-> rest[i - 1] % Byte]
  BY <1>1, <1>6, LittleEndianFacts
<1>8. rest \in [Nat -> Nat] /\ rest[0] = n /\ \A k \in Nat : rest[k + 1] = rest[k] \div Byte
  BY <1>7 DEF Remains
<1>9. ASSUME NEW k \in Nat, k + 1 <= width, rest[k] = last[width - k]
      PROVE  rest[k] % Byte = bytes[k + 1] /\ rest[k + 1] = last[width - (k + 1)]
  <2> DEFINE m == width - (k + 1)
  <2>0. width \in Nat
    BY <1>1
  <2>1. m \in 0 .. width /\ width - k = m + 1 /\ m + 1 \in 1 .. width /\ (m + 1) - 1 = m
        /\ width - (m + 1) + 1 = k + 1 /\ k + 1 \in 1 .. width
    BY <1>9, <2>0
  <2> HIDE DEF m
  <2>2. rest[k] = bytes[k + 1] + Byte * last[m]
    BY <1>3, <1>4, <1>9, <2>1
  <2>3. bytes[k + 1] \in 0 .. Byte - 1 /\ last[m] \in Nat
    BY <1>1, <1>5, <2>1
  <2>4. rest[k] \div Byte = last[m] /\ rest[k] % Byte = bytes[k + 1]
    <3> DEFINE x == last[m]
               y == bytes[k + 1]
    <3>1. x \in Nat /\ y \in 0 .. Byte - 1 /\ rest[k] = y + Byte * x
      BY <2>2, <2>3
    <3> HIDE DEF x, y
    <3>2. (y + Byte * x) \div Byte = x /\ (y + Byte * x) % Byte = y
      BY <3>1, QuotientOf
    <3> QED
      BY <3>1, <3>2 DEF x, y
  <2> QED
    BY <1>8, <2>4 DEF m
<1> DEFINE S == {k \in Nat : k <= width => rest[k] = last[width - k]}
<1>10. 0 \in S
  <2>1. width - 0 = width
    BY <1>1
  <2> QED
    BY <1>2, <1>8, <2>1
<1>11. ASSUME NEW k \in Nat, k \in S PROVE k + 1 \in S
  <2> SUFFICES ASSUME k + 1 <= width PROVE rest[k + 1] = last[width - (k + 1)]
    OBVIOUS
  <2>1. rest[k] = last[width - k]
    BY <1>1, <1>11
  <2> QED
    BY <1>9, <2>1
<1> HIDE DEF S
<1>12. \A k \in Nat : k \in S
  BY <1>10, <1>11, Induction
<1>13. \A i \in 1 .. width : rest[i - 1] % Byte = bytes[i]
  <2> SUFFICES ASSUME NEW i \in 1 .. width PROVE rest[i - 1] % Byte = bytes[i]
    OBVIOUS
  <2>1. i - 1 \in Nat /\ (i - 1) + 1 = i /\ i <= width /\ i - 1 <= width
    BY <1>1
  <2>2. rest[i - 1] = last[width - (i - 1)]
    <3>1. i - 1 \in S
      BY <1>12, <2>1
    <3> QED
      BY <2>1, <3>1 DEF S
  <2> QED
    BY <1>9, <2>1, <2>2
<1>14. [i \in 1 .. width |-> rest[i - 1] % Byte] = [i \in 1 .. width |-> bytes[i]]
  BY <1>13
<1> QED
  BY <1>1, <1>6, <1>7, <1>14 DEF width, n

-----------------------------------------------------------------------------
(* Readers: what they accept, and what ends too early for them.            *)

\* Two strings behind one another.
LEMMA Halves ==
  ASSUME NEW a \in Strings, NEW b \in Strings
  PROVE  /\ a \o b \in Strings /\ Len(a \o b) = Len(a) + Len(b) /\ Len(a) \in Nat /\ Len(b) \in Nat
         /\ \A i \in 1 .. Len(a) : (a \o b)[i] = a[i]
         /\ \A i \in 1 .. Len(b) : (a \o b)[Len(a) + i] = b[i]
         /\ SubSeq(a \o b, 1, Len(a)) = a
         /\ SubSeq(a \o b, Len(a) + 1, Len(a \o b)) = b
<1> DEFINE w == a \o b
           m == Len(a)
           n == Len(b)
<1>1. w \in Strings /\ Len(w) = m + n /\ m \in Nat /\ n \in Nat
  BY Joins
<1>2. \A i \in 1 .. m + n : w[i] = IF i <= m THEN a[i] ELSE b[i - m]
  BY ConcatProperties DEF Strings
<1> HIDE DEF w, m, n
<1>3. \A i \in 1 .. m : w[i] = a[i]
  BY <1>1, <1>2
<1>4. ASSUME NEW i \in 1 .. n PROVE w[m + i] = b[i]
  <2>1. m + i \in 1 .. m + n /\ ~(m + i <= m) /\ (m + i) - m = i
    BY <1>1
  <2> QED
    BY <1>2, <2>1
<1>5. SubSeq(w, 1, m) = a
  <2> DEFINE x == SubSeq(w, 0 + 1, 0 + m)
  <2>1. x \in Strings /\ Len(x) = m /\ \A j \in 1 .. m : x[j] = w[0 + j]
    <3>1. 0 \in Nat /\ 0 + m <= Len(w)
      BY <1>1
    <3> QED
      BY <1>1, <3>1, PartOfFile
  <2>2. \A j \in 1 .. m : 0 + j = j
    OBVIOUS
  <2>3. 0 + 1 = 1 /\ 0 + m = m
    BY <1>1
  <2> HIDE DEF x
  <2>4. \A j \in 1 .. m : x[j] = a[j]
    BY <1>3, <2>1, <2>2
  <2>5. x = a
    BY <2>1, <2>4, SeqEqual DEF Strings, m
  <2> QED
    BY <2>3, <2>5 DEF x
<1>6. SubSeq(w, m + 1, m + n) = b
  <2> DEFINE x == SubSeq(w, m + 1, m + n)
  <2>1. x \in Strings /\ Len(x) = n /\ \A j \in 1 .. n : x[j] = w[m + j]
    BY <1>1, PartOfFile
  <2> HIDE DEF x
  <2>2. \A j \in 1 .. n : x[j] = b[j]
    BY <1>4, <2>1
  <2>3. x = b
    BY <2>1, <2>2, SeqEqual DEF Strings, n
  <2> QED
    BY <2>3 DEF x
<1> QED
  BY <1>1, <1>3, <1>4, <1>5, <1>6 DEF w, m, n

\* A string that ends too early.
Cut(b, s) == b \in Strings /\ Len(b) < Len(s) /\ \A i \in 1 .. Len(b) : b[i] = s[i]

LEMMA SplitCut ==
  ASSUME NEW s \in Strings, NEW t \in Strings, NEW b, Cut(b, s \o t)
  PROVE  Cut(b, s) \/ \E c \in Strings : b = s \o c /\ Cut(c, t)
<1> DEFINE w == s \o t
           m == Len(s)
           n == Len(t)
           l == Len(b)
<1>1. /\ w \in Strings /\ Len(w) = m + n /\ m \in Nat /\ n \in Nat
      /\ \A i \in 1 .. m : w[i] = s[i]
      /\ \A i \in 1 .. n : w[m + i] = t[i]
  BY Halves
<1>2. b \in Strings /\ l < m + n /\ l \in Nat /\ \A i \in 1 .. l : b[i] = w[i]
  BY <1>1 DEF Cut, Strings
<1> HIDE DEF w, m, n, l
<1>3. CASE l < m
  <2>1. \A i \in 1 .. l : i \in 1 .. m
    BY <1>1, <1>2, <1>3
  <2>2. \A i \in 1 .. l : b[i] = s[i]
    BY <1>1, <1>2, <2>1
  <2> QED
    BY <1>2, <1>3, <2>2 DEF Cut, l, m
<1>4. CASE ~(l < m)
  <2> DEFINE k == l - m
             c == SubSeq(b, m + 1, m + k)
  <2>1. k \in Nat /\ m + k = l /\ k < n
    BY <1>1, <1>2, <1>4
  <2> HIDE DEF k
  <2>2. c \in Strings /\ Len(c) = k /\ \A j \in 1 .. k : c[j] = b[m + j]
    <3>1. m + k <= Len(b)
      BY <1>2, <2>1 DEF l
    <3> QED
      BY <1>1, <1>2, <2>1, <3>1, PartOfFile
  <2> HIDE DEF c
  <2>3. Cut(c, t)
    <3>1. ASSUME NEW j \in 1 .. k PROVE c[j] = t[j]
      <4>1. m + j \in 1 .. l /\ j \in 1 .. n
        BY <1>1, <2>1
      <4> QED
        BY <1>1, <1>2, <2>2, <4>1
    <3> QED
      BY <2>1, <2>2, <3>1 DEF Cut, n
  <2>4. b = s \o c
    <3> DEFINE d == s \o c
    <3>1. /\ d \in Strings /\ Len(d) = m + k
          /\ \A i \in 1 .. m : d[i] = s[i]
          /\ \A i \in 1 .. k : d[m + i] = c[i]
      BY <2>2, Halves DEF m
    <3> HIDE DEF d
    <3>2. ASSUME NEW i \in 1 .. l PROVE b[i] = d[i]
      <4>1. CASE i \in 1 .. m
        BY <1>1, <1>2, <3>1, <4>1
      <4>2. CASE i \notin 1 .. m
        <5> DEFINE j == i - m
        <5>1. j \in 1 .. k /\ m + j = i
          BY <1>1, <1>2, <2>1, <4>2
        <5> HIDE DEF j
        <5> QED
          BY <2>2, <3>1, <5>1
      <4> QED
        BY <4>1, <4>2
    <3>3. Len(b) = Len(d) /\ \A i \in 1 .. Len(b) : b[i] = d[i]
      BY <2>1, <3>1, <3>2 DEF l
    <3> QED
      BY <1>2, <3>1, <3>3, SeqEqual DEF Strings, d
  <2> QED
    BY <2>2, <2>3, <2>4
<1> QED
  BY <1>3, <1>4

LEMMA CutOfOne ==
  ASSUME NEW x \in Nat, NEW b, Cut(b, <<x>>)
  PROVE  b = <<>>
<1>1. Len(<<x>>) = 1 /\ b \in Strings /\ Len(b) \in Nat
  BY DEF Cut, Strings
<1>2. Len(b) = 0
  BY <1>1 DEF Cut
<1> QED
  BY <1>1, <1>2 DEF Strings

LEMMA PrefixIsCut ==
  ASSUME NEW s \in Strings, NEW n \in 0 .. Len(s) - 1
  PROVE  Cut(SubSeq(s, 1, n), s)
<1> DEFINE x == SubSeq(s, 0 + 1, 0 + n)
<1>1. Len(s) \in Nat /\ n \in Nat /\ 0 \in Nat /\ 0 + n <= Len(s) /\ n < Len(s)
  BY DEF Strings
<1>2. x \in Strings /\ Len(x) = n /\ \A j \in 1 .. n : x[j] = s[0 + j]
  <2>1. IsPartOfFile(x, s, 0, n)
    BY <1>1, TakesPartOfFile, Zenon
  <2> HIDE DEF x
  <2> QED
    BY <2>1, Zenon DEF IsPartOfFile
<1>3. \A j \in 1 .. n : 0 + j = j
  OBVIOUS
<1>4. 0 + 1 = 1 /\ 0 + n = n
  BY <1>1
<1> HIDE DEF x
<1>5. Cut(x, s)
  BY <1>1, <1>2, <1>3 DEF Cut
<1> QED
  BY <1>4, <1>5 DEF x

-----------------------------------------------------------------------------
\* The refusal of an input that ends too early.
End == Encodings!ReadError("UnexpectedEnd")

\* What was read, and what is left to read.
IsRead(read, v, rest) == read = Encodings!Read(v, rest)

LEMMA ReadFacts ==
  ASSUME NEW read, NEW v, NEW rest, IsRead(read, v, rest)
  PROVE  /\ read.value = v /\ read.rest = rest /\ read.error = ""
         /\ \A next : Encodings!AndThen(read, next) = next
<1>1. read.value = v
  BY Zenon DEF IsRead, Encodings!Read
<1>2. read.rest = rest
  BY Zenon DEF IsRead, Encodings!Read
<1>3. read.error = ""
  BY Zenon DEF IsRead, Encodings!Read
<1>4. \A next : Encodings!AndThen(read, next) = next
  BY <1>3, Zenon DEF Encodings!AndThen
<1> QED
  BY <1>1, <1>2, <1>3, <1>4

LEMMA EndFacts ==
  /\ End.error = "UnexpectedEnd"
  /\ \A next : Encodings!AndThen(End, next) = End
<1>1. End.error = "UnexpectedEnd"
  BY Zenon DEF End, Encodings!ReadError
<1>2. "UnexpectedEnd" # ""
  BY SMT
<1> QED
  BY <1>1, <1>2, Zenon DEF Encodings!AndThen

\* As many bytes as a string has are that string; of less there are not enough.
LEMMA BytesAreRead ==
  ASSUME NEW s \in Strings
  PROVE  /\ \A rest \in Strings : Encodings!ReadBytes(Len(s), s \o rest) = Encodings!Read(s, rest)
         /\ \A b : Cut(b, s) => Encodings!ReadBytes(Len(s), b) = End
<1>1. ASSUME NEW rest \in Strings
      PROVE  Encodings!ReadBytes(Len(s), s \o rest) = Encodings!Read(s, rest)
  <2> DEFINE w == s \o rest
  <2>1. ~(Len(s) > Len(w)) /\ SubSeq(w, 1, Len(s)) = s /\ SubSeq(w, Len(s) + 1, Len(w)) = rest
    <3>1. /\ Len(w) = Len(s) + Len(rest) /\ Len(s) \in Nat /\ Len(rest) \in Nat
          /\ SubSeq(w, 1, Len(s)) = s /\ SubSeq(w, Len(s) + 1, Len(w)) = rest
      BY Halves
    <3> HIDE DEF w
    <3> QED
      BY <3>1
  <2> HIDE DEF w
  <2>2. Encodings!ReadBytes(Len(s), w) = Encodings!Read(s, rest)
    BY <2>1, Zenon DEF Encodings!ReadBytes
  <2> QED
    BY <2>2 DEF w
<1>2. ASSUME NEW b, Cut(b, s) PROVE Encodings!ReadBytes(Len(s), b) = End
  <2>1. Len(s) > Len(b)
    <3>1. Len(b) \in Nat /\ Len(s) \in Nat /\ Len(b) < Len(s)
      BY <1>2 DEF Cut, Strings
    <3> QED
      BY <3>1
  <2> QED
    BY <2>1, Zenon DEF Encodings!ReadBytes, End
<1> QED
  BY <1>1, <1>2

LEMMA FieldIsRead ==
  ASSUME NEW x \in Nat, NEW rest \in Strings
  PROVE  /\ Encodings!ReadField(<<x>> \o rest) = Encodings!Read(x, rest)
         /\ Encodings!ReadField(<<>>) = End
<1>1. <<x>> \in Strings /\ Len(<<x>>) = 1 /\ <<x>>[1] = x /\ <<>> \in Strings /\ Len(<<>>) = 0
  BY DEF Strings
<1>2. Encodings!ReadBytes(1, <<x>> \o rest) = Encodings!Read(<<x>>, rest)
  BY <1>1, BytesAreRead
<1>3. Encodings!ReadBytes(1, <<>>) = End
  <2>1. Cut(<<>>, <<x>>)
    BY <1>1 DEF Cut
  <2> QED
    BY <1>1, <2>1, BytesAreRead
<1>4. Encodings!ReadField(<<x>> \o rest) = Encodings!Read(x, rest)
  <2> DEFINE read == Encodings!ReadBytes(1, <<x>> \o rest)
  <2> HIDE DEF read
  <2>0. IsRead(read, <<x>>, rest)
    BY <1>2 DEF read, IsRead
  <2>1. read.value = <<x>> /\ read.rest = rest
        /\ \A next : Encodings!AndThen(read, next) = next
    BY <2>0, ReadFacts
  <2>2. read.value[1] = x
    BY <1>1, <2>1, Zenon
  <2>3. Encodings!ReadField(<<x>> \o rest)
          = Encodings!AndThen(read, Encodings!Read(read.value[1], read.rest))
    BY Zenon DEF Encodings!ReadField, read
  <2> QED
    BY <2>1, <2>2, <2>3, Zenon DEF read
<1>5. Encodings!ReadField(<<>>) = End
  BY <1>3, EndFacts, Zenon DEF Encodings!ReadField
<1> QED
  BY <1>4, <1>5

-----------------------------------------------------------------------------
(* The four forms of an integer, and the prefix each of them has.          *)

LEMMA Splits ==
  ASSUME NEW s \in Strings, NEW w \in Nat, w <= Len(s)
  PROVE  /\ SubSeq(s, 1, w) \in Strings /\ Len(SubSeq(s, 1, w)) = w
         /\ SubSeq(s, w + 1, Len(s)) \in Strings /\ Len(SubSeq(s, w + 1, Len(s))) = Len(s) - w
         /\ s = SubSeq(s, 1, w) \o SubSeq(s, w + 1, Len(s))
         /\ \A i \in 1 .. w : SubSeq(s, 1, w)[i] = s[i]
<1> DEFINE n == Len(s)
           k == n - w
           a == SubSeq(s, 0 + 1, 0 + w)
           b == SubSeq(s, w + 1, w + k)
<1>1. n \in Nat /\ k \in Nat /\ w + k = n /\ 0 + w <= Len(s) /\ w + k <= Len(s) /\ 0 \in Nat
      /\ 0 + 1 = 1 /\ 0 + w = w
  BY DEF Strings
<1> HIDE DEF k
<1>2. a \in Strings /\ Len(a) = w /\ \A j \in 1 .. w : a[j] = s[0 + j]
  <2>1. IsPartOfFile(a, s, 0, w)
    BY <1>1, TakesPartOfFile, Zenon
  <2> HIDE DEF a
  <2> QED
    BY <2>1, Zenon DEF IsPartOfFile
<1>3. b \in Strings /\ Len(b) = k /\ \A j \in 1 .. k : b[j] = s[w + j]
  <2>1. IsPartOfFile(b, s, w, k)
    BY <1>1, TakesPartOfFile, Zenon
  <2> HIDE DEF b
  <2> QED
    BY <2>1, Zenon DEF IsPartOfFile
<1>4. a = SubSeq(s, 1, w) /\ b = SubSeq(s, w + 1, n)
  BY <1>1
<1> HIDE DEF a, b
<1>5. \A j \in 1 .. w : a[j] = s[j]
  <2>1. \A j \in 1 .. w : 0 + j = j
    OBVIOUS
  <2> QED
    BY <1>2, <2>1
<1> DEFINE d == a \o b
<1>6. /\ d \in Strings /\ Len(d) = w + k
      /\ \A i \in 1 .. w : d[i] = a[i]
      /\ \A i \in 1 .. k : d[w + i] = b[i]
  BY <1>2, <1>3, Halves
<1> HIDE DEF d, n
<1>7. ASSUME NEW i \in 1 .. n PROVE s[i] = d[i]
  <2>1. CASE i \in 1 .. w
    BY <1>5, <1>6, <2>1
  <2>2. CASE i \notin 1 .. w
    <3> DEFINE j == i - w
    <3>1. j \in 1 .. k /\ w + j = i
      BY <1>1, <2>2
    <3> HIDE DEF j
    <3> QED
      BY <1>3, <1>6, <3>1
  <2> QED
    BY <2>1, <2>2
<1>8. s = d
  <2>1. Len(s) = Len(d) /\ \A i \in 1 .. Len(s) : s[i] = d[i]
    BY <1>1, <1>6, <1>7 DEF n
  <2> QED
    BY <1>6, <2>1, SeqEqual DEF Strings
<1>9. k = Len(s) - w
  BY DEF k, n
<1> QED
  BY <1>2, <1>3, <1>4, <1>5, <1>8, <1>9 DEF d, n

LEMMA FirstAndRest ==
  ASSUME NEW s \in Strings, s # <<>>
  PROVE  s[1] \in Nat /\ Len(s) \in Nat /\ Len(s) >= 1
         /\ SubSeq(s, 2, Len(s)) \in Strings /\ s = <<s[1]>> \o SubSeq(s, 2, Len(s))
<1>1. Len(s) \in Nat /\ Len(s) >= 1 /\ s[1] \in Nat
  BY EmptySeq DEF Strings
<1> DEFINE a == SubSeq(s, 1, 1)
           b == SubSeq(s, 1 + 1, Len(s))
<1>2. a \in Strings /\ Len(a) = 1 /\ b \in Strings /\ s = a \o b /\ \A i \in 1 .. 1 : a[i] = s[i]
  BY <1>1, Splits
<1> HIDE DEF a
<1>3. a = <<s[1]>>
  <2>1. a[1] = s[1]
    BY <1>2
  <2> DEFINE t == <<s[1]>>
  <2>2. t \in Strings /\ Len(t) = 1 /\ t[1] = s[1]
    BY <1>1 DEF Strings
  <2> HIDE DEF t
  <2>3. \A i \in 1 .. Len(a) : a[i] = t[i]
    <3>1. \A i \in 1 .. 1 : i = 1
      OBVIOUS
    <3> QED
      BY <1>2, <2>1, <2>2, <3>1
  <2>4. a = t
    BY <1>2, <2>2, <2>3, SeqEqual DEF Strings
  <2> QED
    BY <2>4 DEF t
<1>4. 1 + 1 = 2
  OBVIOUS
<1> QED
  BY <1>1, <1>2, <1>3, <1>4

-----------------------------------------------------------------------------
\* The powers by which the encodings place their digits.
EncodingPowers(p) == Powers(p) /\ \A n \in Nat : Encodings!Power(n) = p[n]

\* The three longer forms: of how many bytes, and from which value on.
LEMMA FormFacts ==
  ASSUME ByteAssumption, NEW p, EncodingPowers(p)
  PROVE  /\ p[2] \in Nat /\ p[4] \in Nat /\ p[8] \in Nat
         /\ Byte <= p[2] /\ p[2] <= p[4] /\ p[4] <= p[8]
         /\ Encodings!Width(Byte - 3) = 2 /\ Encodings!Least(Byte - 3) = Byte - 3
         /\ Encodings!Width(Byte - 2) = 4 /\ Encodings!Least(Byte - 2) = p[2]
         /\ Encodings!Width(Byte - 1) = 8 /\ Encodings!Least(Byte - 1) = p[4]
<1>1. Byte \in Nat \ {0} /\ Byte - 3 # Byte - 2 /\ Byte - 3 # Byte - 1 /\ Byte - 2 # Byte - 1
  BY DEF ByteAssumption
<1>2. Powers(p) /\ \A n \in Nat : Encodings!Power(n) = p[n]
  BY DEF EncodingPowers
<1>3. p \in [Nat -> Nat] /\ p[0] = 1 /\ p[0 + 1] = Byte * p[0]
  BY <1>2 DEF Powers
<1>4. p[1 + 1] >= p[1] /\ p[2 + 2] >= p[2] /\ p[4 + 4] >= p[4]
  BY <1>1, <1>2, PowersGrow
<1>5. p[1] = Byte
  BY <1>1, <1>3
<1>6. Encodings!Width(Byte - 3) = 2 /\ Encodings!Width(Byte - 2) = 4 /\ Encodings!Width(Byte - 1) = 8
  BY <1>1 DEF Encodings!Width
<1>7. Encodings!Least(Byte - 3) = Byte - 3 /\ Encodings!Least(Byte - 2) = p[2]
      /\ Encodings!Least(Byte - 1) = p[4]
  BY <1>1, <1>2 DEF Encodings!Least
<1> QED
  BY <1>3, <1>4, <1>5, <1>6, <1>7

\* A value that needs a prefix, of one form.
IsForm(prefix, v, p) ==
  /\ prefix \in Byte - 3 .. Byte - 1
  /\ Encodings!Least(prefix) <= v /\ v < p[Encodings!Width(prefix)]

LEMMA PrefixIs ==
  ASSUME ByteAssumption, NEW p, EncodingPowers(p), NEW v \in Nat, NEW prefix, IsForm(prefix, v, p)
  PROVE  Encodings!PrefixOf(v) = prefix /\ v >= Byte - 3 /\ Encodings!Width(prefix) \in {2, 4, 8}
<1>1. /\ p[2] \in Nat /\ p[4] \in Nat /\ p[8] \in Nat
      /\ Byte <= p[2] /\ p[2] <= p[4] /\ p[4] <= p[8]
      /\ Encodings!Width(Byte - 3) = 2 /\ Encodings!Least(Byte - 3) = Byte - 3
      /\ Encodings!Width(Byte - 2) = 4 /\ Encodings!Least(Byte - 2) = p[2]
      /\ Encodings!Width(Byte - 1) = 8 /\ Encodings!Least(Byte - 1) = p[4]
  BY FormFacts
<1>2. Byte \in Nat /\ Byte > 3
  BY DEF ByteAssumption
<1>3. \A a \in Byte - 3 .. Byte - 1 : a = Byte - 3 \/ a = Byte - 2 \/ a = Byte - 1
  BY <1>2
<1>4. \A a : IsForm(a, v, p) =>
        \/ a = Byte - 3 /\ Byte - 3 <= v /\ v < p[2]
        \/ a = Byte - 2 /\ p[2] <= v /\ v < p[4]
        \/ a = Byte - 1 /\ p[4] <= v /\ v < p[8]
  BY <1>1, <1>3 DEF IsForm
<1>5. \A a, b : IsForm(a, v, p) /\ IsForm(b, v, p) => a = b
  <2> SUFFICES ASSUME NEW a, NEW b, IsForm(a, v, p), IsForm(b, v, p) PROVE a = b
    OBVIOUS
  <2>1. \/ a = Byte - 3 /\ Byte - 3 <= v /\ v < p[2]
        \/ a = Byte - 2 /\ p[2] <= v /\ v < p[4]
        \/ a = Byte - 1 /\ p[4] <= v /\ v < p[8]
    BY <1>4
  <2>2. \/ b = Byte - 3 /\ Byte - 3 <= v /\ v < p[2]
        \/ b = Byte - 2 /\ p[2] <= v /\ v < p[4]
        \/ b = Byte - 1 /\ p[4] <= v /\ v < p[8]
    BY <1>4
  <2> QED
    BY <1>1, <1>2, <2>1, <2>2
<1>6. \A n \in {2, 4, 8} : Encodings!Power(n) = p[n]
  BY DEF EncodingPowers
<1>7. \A a \in Byte - 3 .. Byte - 1 :
        (Encodings!Least(a) <= v /\ v < Encodings!Power(Encodings!Width(a))) <=> IsForm(a, v, p)
  <2> SUFFICES ASSUME NEW a \in Byte - 3 .. Byte - 1
               PROVE  (Encodings!Least(a) <= v /\ v < Encodings!Power(Encodings!Width(a)))
                        <=> IsForm(a, v, p)
    OBVIOUS
  <2>1. Encodings!Width(a) \in {2, 4, 8}
    BY <1>1, <1>3
  <2>2. Encodings!Power(Encodings!Width(a)) = p[Encodings!Width(a)]
    BY <1>6, <2>1
  <2> QED
    BY <2>2 DEF IsForm
<1>8. prefix \in Byte - 3 .. Byte - 1
  BY DEF IsForm
<1> DEFINE P(a) == Encodings!Least(a) <= v /\ v < Encodings!Power(Encodings!Width(a))
<1>9. Encodings!PrefixOf(v) = CHOOSE a \in Byte - 3 .. Byte - 1 : P(a)
  BY DEF Encodings!PrefixOf
<1>10. P(prefix)
  BY <1>7, <1>8
<1>11. \A a \in Byte - 3 .. Byte - 1 : P(a) => a = prefix
  BY <1>5, <1>7
<1> HIDE DEF P
<1>12. Encodings!PrefixOf(v) = prefix
  BY <1>8, <1>9, <1>10, <1>11
<1>13. v >= Byte - 3 /\ Encodings!Width(prefix) \in {2, 4, 8}
  <2>1. \/ prefix = Byte - 3 /\ Byte - 3 <= v /\ v < p[2]
        \/ prefix = Byte - 2 /\ p[2] <= v /\ v < p[4]
        \/ prefix = Byte - 1 /\ p[4] <= v /\ v < p[8]
    BY <1>4
  <2> QED
    BY <1>1, <1>2, <2>1
<1> QED
  BY <1>12, <1>13

LEMMA FormExists ==
  ASSUME ByteAssumption, NEW p, EncodingPowers(p), NEW v \in Nat, v >= Byte - 3, v < p[8]
  PROVE  \E prefix : IsForm(prefix, v, p)
<1>1. /\ p[2] \in Nat /\ p[4] \in Nat /\ p[8] \in Nat
      /\ Encodings!Width(Byte - 3) = 2 /\ Encodings!Least(Byte - 3) = Byte - 3
      /\ Encodings!Width(Byte - 2) = 4 /\ Encodings!Least(Byte - 2) = p[2]
      /\ Encodings!Width(Byte - 1) = 8 /\ Encodings!Least(Byte - 1) = p[4]
  BY FormFacts
<1>2. Byte \in Nat /\ Byte > 3
  BY DEF ByteAssumption
<1>3. Byte - 3 \in Byte - 3 .. Byte - 1 /\ Byte - 2 \in Byte - 3 .. Byte - 1
      /\ Byte - 1 \in Byte - 3 .. Byte - 1
  BY <1>2
<1>4. CASE v < p[2]
  <2>1. IsForm(Byte - 3, v, p)
    BY <1>1, <1>2, <1>3, <1>4 DEF IsForm
  <2> QED
    BY <2>1
<1>5. CASE p[2] <= v /\ v < p[4]
  <2>1. IsForm(Byte - 2, v, p)
    BY <1>1, <1>3, <1>5 DEF IsForm
  <2> QED
    BY <2>1
<1>6. CASE p[4] <= v
  <2>1. IsForm(Byte - 1, v, p)
    BY <1>1, <1>3, <1>6 DEF IsForm
  <2> QED
    BY <2>1
<1> QED
  BY <1>1, <1>4, <1>5, <1>6

\* What is read of an integer, from what is read of its first byte and of the rest.
LEMMA VarintUnfolds ==
  ASSUME NEW bytes
  PROVE  LET first == Encodings!ReadField(bytes)
         IN  /\ first = End => Encodings!ReadVarint(bytes) = End
             /\ \A x, rest : IsRead(first, x, rest) =>
                  /\ x < Byte - 3 => Encodings!ReadVarint(bytes) = first
                  /\ ~(x < Byte - 3) =>
                       LET wide == Encodings!ReadBytes(Encodings!Width(x), rest)
                       IN  /\ wide = End => Encodings!ReadVarint(bytes) = End
                           /\ \A s, more : IsRead(wide, s, more) =>
                                Encodings!ReadVarint(bytes)
                                  = IF Encodings!FromLittleEndian(s) < Encodings!Least(x)
                                    THEN Encodings!ReadError("NonCanonical")
                                    ELSE Encodings!Read(Encodings!FromLittleEndian(s), more)
<1> DEFINE first == Encodings!ReadField(bytes)
           wide == Encodings!ReadBytes(Encodings!Width(first.value), first.rest)
           value == Encodings!FromLittleEndian(wide.value)
           checked == IF value < Encodings!Least(first.value)
                      THEN Encodings!ReadError("NonCanonical")
                      ELSE Encodings!Read(value, wide.rest)
           longer == Encodings!AndThen(wide, checked)
           any == IF first.value < Byte - 3 THEN first ELSE longer
<1>1. Encodings!ReadVarint(bytes) = Encodings!AndThen(first, any)
  BY Zenon DEF Encodings!ReadVarint, Encodings!ReadWide
<1> HIDE DEF any, longer, checked, value, wide, first
<1>2. first = End => Encodings!ReadVarint(bytes) = End
  BY <1>1, EndFacts
<1>3. ASSUME NEW x, NEW rest, IsRead(first, x, rest)
      PROVE  /\ x < Byte - 3 => Encodings!ReadVarint(bytes) = first
             /\ ~(x < Byte - 3) => Encodings!ReadVarint(bytes) = longer
             /\ wide = Encodings!ReadBytes(Encodings!Width(x), rest)
             /\ first.value = x
  <2>1. first.value = x /\ first.rest = rest /\ Encodings!AndThen(first, any) = any
    BY <1>3, ReadFacts
  <2>2. any = IF x < Byte - 3 THEN first ELSE longer
    BY <2>1, Zenon DEF any
  <2>3. wide = Encodings!ReadBytes(Encodings!Width(x), rest)
    BY <2>1, Zenon DEF wide
  <2> QED
    BY <1>1, <2>1, <2>2, <2>3
<1>4. wide = End => longer = End
  BY EndFacts, Zenon DEF longer
<1>5. ASSUME NEW x, first.value = x, NEW s, NEW more, IsRead(wide, s, more)
      PROVE  longer = IF Encodings!FromLittleEndian(s) < Encodings!Least(x)
                      THEN Encodings!ReadError("NonCanonical")
                      ELSE Encodings!Read(Encodings!FromLittleEndian(s), more)
  <2>1. wide.value = s /\ wide.rest = more /\ Encodings!AndThen(wide, checked) = checked
    BY <1>5, ReadFacts
  <2>2. checked = IF Encodings!FromLittleEndian(s) < Encodings!Least(x)
                  THEN Encodings!ReadError("NonCanonical")
                  ELSE Encodings!Read(Encodings!FromLittleEndian(s), more)
    BY <1>5, <2>1, Zenon DEF checked, value
  <2> QED
    BY <2>1, <2>2, Zenon DEF longer
<1> QED
  <2> SUFFICES
        /\ first = End => Encodings!ReadVarint(bytes) = End
        /\ \A x, rest : IsRead(first, x, rest) =>
             /\ x < Byte - 3 => Encodings!ReadVarint(bytes) = first
             /\ ~(x < Byte - 3) =>
                  /\ Encodings!ReadBytes(Encodings!Width(x), rest) = End
                       => Encodings!ReadVarint(bytes) = End
                  /\ \A s, more : IsRead(Encodings!ReadBytes(Encodings!Width(x), rest), s, more) =>
                       Encodings!ReadVarint(bytes)
                         = IF Encodings!FromLittleEndian(s) < Encodings!Least(x)
                           THEN Encodings!ReadError("NonCanonical")
                           ELSE Encodings!Read(Encodings!FromLittleEndian(s), more)
    BY DEF first
  <2>1. ASSUME NEW x, NEW rest, IsRead(first, x, rest), ~(x < Byte - 3)
        PROVE  /\ Encodings!ReadBytes(Encodings!Width(x), rest) = End
                 => Encodings!ReadVarint(bytes) = End
               /\ \A s, more : IsRead(Encodings!ReadBytes(Encodings!Width(x), rest), s, more) =>
                    Encodings!ReadVarint(bytes)
                      = IF Encodings!FromLittleEndian(s) < Encodings!Least(x)
                        THEN Encodings!ReadError("NonCanonical")
                        ELSE Encodings!Read(Encodings!FromLittleEndian(s), more)
    <3>1. Encodings!ReadVarint(bytes) = longer /\ wide = Encodings!ReadBytes(Encodings!Width(x), rest)
          /\ first.value = x
      BY <1>3, <2>1
    <3>2. Encodings!ReadBytes(Encodings!Width(x), rest) = End => Encodings!ReadVarint(bytes) = End
      BY <1>4, <3>1
    <3>3. ASSUME NEW s, NEW more, IsRead(wide, s, more)
          PROVE  Encodings!ReadVarint(bytes)
                      = IF Encodings!FromLittleEndian(s) < Encodings!Least(x)
                        THEN Encodings!ReadError("NonCanonical")
                        ELSE Encodings!Read(Encodings!FromLittleEndian(s), more)
      BY <1>5, <3>1, <3>3
    <3> QED
      BY <3>1, <3>2, <3>3, Zenon
  <2> QED
    BY <1>2, <1>3, <2>1, Zenon

-----------------------------------------------------------------------------
(* An integer is read as it was written, and only from its own bytes.      *)

\* What a reader that accepts a string of its value does with anything that begins so,
\* and with less.
Reads(reader, s, v) ==
  /\ s \in Strings
  /\ \A rest \in Strings : IsRead(reader[s \o rest], v, rest)
  /\ \A b : Cut(b, s) => reader[b] = End

Varints == [bytes \in Strings |-> Encodings!ReadVarint(bytes)]

LEMMA DigitsAreBytes ==
  ASSUME Byte \in Nat
  PROVE  Seq(0 .. Byte - 1) \subseteq Strings
<1>1. 0 .. Byte - 1 \subseteq Nat
  OBVIOUS
<1> HIDE DEF Strings
<1>2. \A s \in Seq(0 .. Byte - 1) : s \in Seq(Nat)
  <2> SUFFICES ASSUME NEW s \in Seq(0 .. Byte - 1) PROVE s \in Seq(Nat)
    OBVIOUS
  <2>1. Len(s) \in Nat /\ s \in [1 .. Len(s) -> 0 .. Byte - 1]
    OBVIOUS
  <2>2. s \in [1 .. Len(s) -> Nat]
    BY <1>1, <2>1
  <2> QED
    BY <2>1, <2>2
<1> QED
  BY <1>2 DEF Strings

LEMMA VarintIsRead ==
  ASSUME ByteAssumption, NEW p, EncodingPowers(p), NEW v \in Nat, v < p[8]
  PROVE  Reads(Varints, Encodings!Encode(v), v) /\ Len(Encodings!Encode(v)) = Encodings!EncodedLen(v)
<1> DEFINE e == Encodings!Encode(v)
<1>1. Byte \in Nat \ {0} /\ Byte > 3
  BY DEF ByteAssumption
<1>2. CASE v < Byte - 3
  <2>1. e = <<v>> /\ Encodings!EncodedLen(v) = 1
    BY <1>2 DEF Encodings!Encode, Encodings!EncodedLen
  <2>2. <<v>> \in Strings /\ Len(<<v>>) = 1
    BY DEF Strings
  <2>3. ASSUME NEW rest \in Strings PROVE IsRead(Varints[<<v>> \o rest], v, rest)
    <3> DEFINE w == <<v>> \o rest
    <3>1. w \in Strings
      BY <2>2, Halves
    <3>2. Encodings!ReadField(w) = Encodings!Read(v, rest)
      BY FieldIsRead
    <3> HIDE DEF w
    <3>3. IsRead(Encodings!ReadField(w), v, rest)
      BY <3>2 DEF IsRead
    <3>4. Encodings!ReadVarint(w) = Encodings!ReadField(w)
      BY <1>2, <3>3, VarintUnfolds
    <3>5. Varints[w] = Encodings!ReadVarint(w)
      BY <3>1 DEF Varints
    <3> QED
      BY <3>2, <3>4, <3>5 DEF w, IsRead
  <2>4. ASSUME NEW b, Cut(b, <<v>>) PROVE Varints[b] = End
    <3>1. b = <<>> /\ b \in Strings
      BY <2>4, CutOfOne DEF Cut
    <3>2. Encodings!ReadField(b) = End
      <4>1. Encodings!ReadField(<<>>) = End
        BY <2>2, FieldIsRead
      <4> QED
        BY <3>1, <4>1
    <3>3. Encodings!ReadVarint(b) = End
      BY <3>2, VarintUnfolds
    <3> QED
      BY <3>1, <3>3 DEF Varints
  <2> QED
    BY <2>1, <2>2, <2>3, <2>4 DEF Reads
<1>3. CASE ~(v < Byte - 3)
  <2>1. PICK x : IsForm(x, v, p)
    <3>1. v >= Byte - 3
      BY <1>1, <1>3
    <3> QED
      BY <3>1, FormExists
  <2>2. Encodings!PrefixOf(v) = x /\ Encodings!Width(x) \in {2, 4, 8}
    BY <2>1, PrefixIs
  <2>3. x \in Nat /\ ~(x < Byte - 3) /\ ~(v < Encodings!Least(x)) /\ v < p[Encodings!Width(x)]
    <3>1. x \in Nat /\ ~(x < Byte - 3)
      BY <1>1, <2>1 DEF IsForm
    <3>2. Encodings!Least(x) <= v /\ Encodings!Least(x) \in Int
      <4>1. x = Byte - 3 \/ x = Byte - 2 \/ x = Byte - 1
        BY <1>1, <2>1 DEF IsForm
      <4>2. Encodings!Least(x) \in Int
        BY <1>1, <4>1, FormFacts
      <4> QED
        BY <2>1, <4>2 DEF IsForm
    <3> QED
      BY <2>1, <3>1, <3>2 DEF IsForm
  <2> DEFINE k == Encodings!Width(x)
             le == Encodings!LittleEndian(v, k)
  <2>4. k \in Nat
    BY <2>2
  <2> HIDE DEF k
  <2>5. le \in Strings /\ Len(le) = k /\ Encodings!FromLittleEndian(le) = v
    <3>1. Powers(p) /\ v < p[k]
      BY <2>3 DEF EncodingPowers, k
    <3>2. le \in Seq(0 .. Byte - 1) /\ Len(le) = k /\ Encodings!FromLittleEndian(le) = v
      BY <1>1, <2>4, <3>1, NumberIsRead
    <3> QED
      BY <1>1, <3>2, DigitsAreBytes
  <2>6. e = <<x>> \o le /\ Encodings!EncodedLen(v) = 1 + k
    BY <1>3, <2>2 DEF Encodings!Encode, Encodings!EncodedLen, k
  <2> HIDE DEF le
  <2>7. <<x>> \in Strings /\ Len(<<x>>) = 1
    BY <2>3 DEF Strings
  <2>8. <<x>> \o le \in Strings /\ Len(<<x>> \o le) = 1 + k
    BY <2>5, <2>7, Halves
  <2>9. ASSUME NEW rest \in Strings PROVE IsRead(Varints[(<<x>> \o le) \o rest], v, rest)
    <3> DEFINE w == (<<x>> \o le) \o rest
               more == le \o rest
    <3>1. w \in Strings /\ more \in Strings
      BY <2>5, <2>8, Halves
    <3>2. w = <<x>> \o more
      BY <2>5, <2>7, Associative DEF Associates
    <3> HIDE DEF w
    <3>3. IsRead(Encodings!ReadField(w), x, more)
      BY <2>3, <3>1, <3>2, FieldIsRead DEF IsRead
    <3>4. IsRead(Encodings!ReadBytes(Encodings!Width(x), more), le, rest)
      <4>1. Encodings!ReadBytes(Len(le), le \o rest) = Encodings!Read(le, rest)
        BY <2>5, BytesAreRead
      <4> QED
        BY <2>5, <4>1 DEF IsRead, k
    <3> HIDE DEF more
    <3>5. Encodings!ReadVarint(w)
            = IF Encodings!FromLittleEndian(le) < Encodings!Least(x)
              THEN Encodings!ReadError("NonCanonical")
              ELSE Encodings!Read(Encodings!FromLittleEndian(le), rest)
      BY <2>3, <3>3, <3>4, VarintUnfolds
    <3>6. Encodings!ReadVarint(w) = Encodings!Read(v, rest)
      BY <2>3, <2>5, <3>5
    <3> QED
      BY <3>1, <3>6 DEF Varints, IsRead, w
  <2>10. ASSUME NEW b, Cut(b, <<x>> \o le) PROVE Varints[b] = End
    <3>0. b \in Strings
      BY <2>10 DEF Cut
    <3>1. Cut(b, <<x>>) \/ \E c \in Strings : b = <<x>> \o c /\ Cut(c, le)
      BY <2>5, <2>7, <2>10, SplitCut
    <3>2. CASE Cut(b, <<x>>)
      <4>1. b = <<>>
        BY <2>3, <3>2, CutOfOne
      <4>2. Encodings!ReadField(<<>>) = End
        BY <2>3, <2>7, FieldIsRead
      <4>3. Encodings!ReadVarint(b) = End
        BY <4>1, <4>2, VarintUnfolds
      <4> QED
        BY <3>0, <4>3 DEF Varints
    <3>3. CASE \E c \in Strings : b = <<x>> \o c /\ Cut(c, le)
      <4>1. PICK c \in Strings : b = <<x>> \o c /\ Cut(c, le)
        BY <3>3
      <4>2. IsRead(Encodings!ReadField(b), x, c)
        BY <2>3, <4>1, FieldIsRead DEF IsRead
      <4>3. Encodings!ReadBytes(Encodings!Width(x), c) = End
        <5>1. Encodings!ReadBytes(Len(le), c) = End
          BY <2>5, <4>1, BytesAreRead
        <5> QED
          BY <2>5, <5>1 DEF k
      <4>4. Encodings!ReadVarint(b) = End
        BY <2>3, <4>2, <4>3, VarintUnfolds
      <4> QED
        BY <3>0, <4>4 DEF Varints
    <3> QED
      BY <3>1, <3>2, <3>3
  <2> QED
    BY <2>6, <2>8, <2>9, <2>10 DEF Reads
<1> QED
  BY <1>2, <1>3

LEMMA EntriesOf ==
  ASSUME NEW S, NEW s \in Seq(S), NEW i \in 1 .. Len(s)
  PROVE  s[i] \in S
  OBVIOUS

LEMMA SeqOfEntries ==
  ASSUME NEW S, NEW s \in Strings, \A i \in 1 .. Len(s) : s[i] \in S
  PROVE  s \in Seq(S)
<1>1. Len(s) \in Nat /\ s = [i \in 1 .. Len(s) |-> s[i]]
  BY DEF Strings
<1>2. s \in [1 .. Len(s) -> S]
  BY <1>1
<1> QED
  BY <1>1, <1>2

\* A longer form than the value needs.
Refused == Encodings!ReadError("NonCanonical")

\* What is neither cut short nor refused is the encoding of what is read from it.
LEMMA AcceptedIsEncoded ==
  ASSUME ByteAssumption, NEW bytes \in Seq(0 .. Byte - 1),
         Encodings!ReadVarint(bytes) # End, Encodings!ReadVarint(bytes) # Refused
  PROVE  /\ bytes = Encodings!Encode(Encodings!ReadVarint(bytes).value)
           \o Encodings!ReadVarint(bytes).rest
         /\ Len(bytes) = Encodings!EncodedLen(Encodings!ReadVarint(bytes).value)
                         + Len(Encodings!ReadVarint(bytes).rest)
<1> DEFINE read == Encodings!ReadVarint(bytes)
<1>0. read # End /\ read # Refused
  OBVIOUS
<1>1. Byte \in Nat \ {0} /\ Byte > 3
  BY DEF ByteAssumption
<1>2. PICK p : EncodingPowers(p)
  BY <1>1, PowerFacts DEF EncodingPowers
<1>3. bytes \in Strings
  BY <1>1, DigitsAreBytes
<1>5. bytes # <<>>
  <2>1. <<>> \in Strings /\ 0 \in Nat
    BY DEF Strings
  <2>2. Encodings!ReadField(<<>>) = End
    BY <2>1, FieldIsRead
  <2> QED
    BY <1>0, <2>2, VarintUnfolds
<1> DEFINE x == bytes[1]
           tail == SubSeq(bytes, 2, Len(bytes))
<1>6. x \in Nat /\ tail \in Strings /\ bytes = <<x>> \o tail /\ Len(bytes) >= 1 /\ Len(bytes) \in Nat
  BY <1>3, <1>5, FirstAndRest
<1>7. x \in 0 .. Byte - 1
  <2>1. 1 \in 1 .. Len(bytes)
    BY <1>6
  <2> QED
    BY <2>1, EntriesOf
<1> HIDE DEF x, read, tail
<1>8. <<x>> \in Strings /\ Len(<<x>>) = 1
  BY <1>6 DEF Strings
<1>9. IsRead(Encodings!ReadField(bytes), x, tail)
  BY <1>6, FieldIsRead DEF IsRead
<1>10. Len(bytes) = 1 + Len(tail) /\ Len(tail) \in Nat
  BY <1>6, <1>8, Halves
<1>11. CASE x < Byte - 3
  <2>1. read = Encodings!ReadField(bytes)
    BY <1>9, <1>11, VarintUnfolds DEF read
  <2>2. read.value = x /\ read.rest = tail
    BY <1>9, <2>1, ReadFacts
  <2>3. Encodings!Encode(x) = <<x>> /\ Encodings!EncodedLen(x) = 1
    BY <1>11 DEF Encodings!Encode, Encodings!EncodedLen
  <2> QED
    BY <1>6, <1>10, <2>2, <2>3 DEF read
<1>12. CASE ~(x < Byte - 3)
  <2> DEFINE w == Encodings!Width(x)
  <2>1. x = Byte - 3 \/ x = Byte - 2 \/ x = Byte - 1
    BY <1>1, <1>7, <1>12
  <2>2. w \in Nat /\ Encodings!Least(x) \in Nat
    BY <1>1, <1>2, <2>1, FormFacts
  <2> HIDE DEF w
  <2>3. w <= Len(tail)
    <3> SUFFICES ASSUME ~(w <= Len(tail)) PROVE FALSE
      OBVIOUS
    <3>1. w > Len(tail)
      BY <1>10, <2>2
    <3>2. Encodings!ReadBytes(Encodings!Width(x), tail) = End
      BY <3>1 DEF Encodings!ReadBytes, End, w
    <3>3. read = End
      BY <1>9, <1>12, <3>2, VarintUnfolds DEF read
    <3> QED
      BY <1>0, <3>3
  <2> DEFINE s == SubSeq(tail, 1, w)
             more == SubSeq(tail, w + 1, Len(tail))
  <2>4. /\ s \in Strings /\ Len(s) = w /\ more \in Strings /\ Len(more) = Len(tail) - w
        /\ tail = s \o more /\ \A i \in 1 .. w : s[i] = tail[i]
    BY <1>6, <2>2, <2>3, Splits
  <2>5. IsRead(Encodings!ReadBytes(Encodings!Width(x), tail), s, more)
    <3>1. ~(w > Len(tail))
      BY <1>10, <2>2, <2>3
    <3> QED
      BY <3>1 DEF Encodings!ReadBytes, IsRead, w
  <2>6. s \in Seq(0 .. Byte - 1)
    <3>1. ASSUME NEW i \in 1 .. w PROVE s[i] \in 0 .. Byte - 1
      <4>1. tail[i] = bytes[1 + i]
        <5>1. i \in 1 .. Len(tail)
          BY <1>10, <2>2, <2>3
        <5>2. \A j \in 1 .. Len(tail) : (<<x>> \o tail)[Len(<<x>>) + j] = tail[j]
          BY <1>6, <1>8, Halves
        <5> QED
          BY <1>6, <1>8, <5>1, <5>2
      <4>2. 1 + i \in 1 .. Len(bytes)
        BY <1>10, <2>2, <2>3
      <4>3. bytes[1 + i] \in 0 .. Byte - 1
        BY <4>2, EntriesOf
      <4> QED
        BY <2>4, <4>1, <4>3
    <3> HIDE DEF s
    <3>2. \A i \in 1 .. Len(s) : s[i] \in 0 .. Byte - 1
      BY <2>4, <3>1
    <3> QED
      BY <2>4, <3>2, SeqOfEntries
  <2> HIDE DEF s, more
  <2> DEFINE v == Encodings!FromLittleEndian(s)
  <2>7. v \in Nat /\ v < p[w] /\ Encodings!LittleEndian(v, w) = s
    <3>1. Powers(p)
      BY <1>2 DEF EncodingPowers
    <3>2. /\ Encodings!FromLittleEndian(s) \in Nat
          /\ Encodings!FromLittleEndian(s) < p[Len(s)]
          /\ Encodings!LittleEndian(Encodings!FromLittleEndian(s), Len(s)) = s
      BY <1>1, <2>6, <3>1, BytesAreWritten
    <3> QED
      BY <2>4, <3>2
  <2>8. read = IF v < Encodings!Least(x)
               THEN Encodings!ReadError("NonCanonical")
               ELSE Encodings!Read(v, more)
    BY <1>9, <1>12, <2>5, VarintUnfolds DEF read
  <2> HIDE DEF v
  <2>9. ~(v < Encodings!Least(x))
    <3> SUFFICES ASSUME v < Encodings!Least(x) PROVE FALSE
      OBVIOUS
    <3>1. read = Refused
      BY <2>8 DEF Refused
    <3> QED
      BY <1>0, <3>1
  <2>10. IsRead(read, v, more)
    BY <2>8, <2>9 DEF IsRead
  <2>11. read.value = v /\ read.rest = more
    BY <2>10, ReadFacts
  <2>12. IsForm(x, v, p)
    BY <1>1, <2>1, <2>2, <2>7, <2>9 DEF IsForm, w
  <2>13. Encodings!PrefixOf(v) = x /\ ~(v < Byte - 3)
    <3>1. Encodings!PrefixOf(v) = x /\ v >= Byte - 3
      BY <1>2, <2>7, <2>12, PrefixIs
    <3> QED
      BY <1>1, <2>7, <3>1
  <2>14. Encodings!Encode(v) = <<x>> \o s /\ Encodings!EncodedLen(v) = 1 + w
    BY <2>7, <2>13 DEF Encodings!Encode, Encodings!EncodedLen, w
  <2>15. bytes = (<<x>> \o s) \o more
    BY <1>6, <1>8, <2>4, Associative DEF Associates
  <2>16. bytes = Encodings!Encode(read.value) \o read.rest
    BY <2>11, <2>14, <2>15
  <2>17. Len(bytes) = Encodings!EncodedLen(read.value) + Len(read.rest)
    BY <1>10, <2>2, <2>4, <2>11, <2>14
  <2> QED
    BY <2>16, <2>17 DEF read
<1> QED
  BY <1>11, <1>12 DEF read

LEMMA RefusalFacts == End.error # "" /\ Refused.error # ""
<1>1. End.error # ""
  BY EndFacts, SMT
<1>2. Refused.error = "NonCanonical"
  BY Zenon DEF Refused, Encodings!ReadError
<1>3. "NonCanonical" # ""
  BY SMT
<1> QED
  BY <1>1, <1>2, <1>3, Zenon

\* Whatever is accepted is the one encoding of its value (varint.rs:56-60).
THEOREM VarintsAreCanonical ==
  ASSUME ByteAssumption, NEW bytes \in Seq(0 .. Byte - 1)
  PROVE  Encodings!VarintIsCanonical(bytes)
<1> DEFINE read == Encodings!ReadVarint(bytes)
<1>1. read.error = "" => read # End /\ read # Refused
  BY RefusalFacts, Zenon
<1>2. read # End /\ read # Refused
        => /\ bytes = Encodings!Encode(read.value) \o read.rest
           /\ Len(bytes) = Encodings!EncodedLen(read.value) + Len(read.rest)
  BY AcceptedIsEncoded
<1> QED
  BY <1>1, <1>2, Zenon DEF Encodings!VarintIsCanonical

-----------------------------------------------------------------------------
(* Readers one after the other.                                            *)

\* A reader of one field, which the model keeps in one place.
Fields == [b \in Strings |-> Encodings!ReadField(b)]

LEMMA FieldReads ==
  ASSUME NEW x \in Nat PROVE Reads(Fields, <<x>>, x)
<1>1. <<x>> \in Strings
  BY DEF Strings
<1>2. ASSUME NEW rest \in Strings PROVE IsRead(Fields[<<x>> \o rest], x, rest)
  <2>1. <<x>> \o rest \in Strings
    BY <1>1, Halves
  <2>2. Encodings!ReadField(<<x>> \o rest) = Encodings!Read(x, rest)
    BY FieldIsRead
  <2> QED
    BY <2>1, <2>2 DEF IsRead, Fields
<1>3. ASSUME NEW b, Cut(b, <<x>>) PROVE Fields[b] = End
  <2>1. b = <<>> /\ b \in Strings
    BY <1>3, CutOfOne DEF Cut
  <2>2. Encodings!ReadField(<<>>) = End
    BY <1>1, FieldIsRead
  <2> QED
    BY <2>1, <2>2 DEF Fields
<1> QED
  BY <1>1, <1>2, <1>3 DEF Reads

\* A reader that goes on with another one after the value v, and stops where the first
\* one stops.
Chains(reader, v, next, whole) ==
  \A b \in Strings :
    /\ reader[b] = End => whole[b] = End
    /\ \A rest \in Strings : IsRead(reader[b], v, rest) => whole[b] = next[rest]

LEMMA InTurn ==
  ASSUME NEW reader, NEW s, NEW v, Reads(reader, s, v),
         NEW next, NEW t, NEW w, Reads(next, t, w),
         NEW whole, Chains(reader, v, next, whole)
  PROVE  Reads(whole, s \o t, w)
<1>1. s \in Strings /\ t \in Strings
  BY DEF Reads
<1>2. s \o t \in Strings
  BY <1>1, Halves
<1>3. ASSUME NEW rest \in Strings PROVE IsRead(whole[(s \o t) \o rest], w, rest)
  <2>1. t \o rest \in Strings /\ s \o (t \o rest) \in Strings
    BY <1>1, Halves
  <2>2. (s \o t) \o rest = s \o (t \o rest)
    BY <1>1, Associative DEF Associates
  <2>3. IsRead(reader[s \o (t \o rest)], v, t \o rest)
    BY <2>1 DEF Reads
  <2>4. whole[s \o (t \o rest)] = next[t \o rest]
    BY <2>1, <2>3 DEF Chains
  <2>5. IsRead(next[t \o rest], w, rest)
    BY DEF Reads
  <2> QED
    BY <2>2, <2>4, <2>5
<1>4. ASSUME NEW b, Cut(b, s \o t) PROVE whole[b] = End
  <2>1. b \in Strings
    BY <1>4 DEF Cut
  <2>2. Cut(b, s) \/ \E c \in Strings : b = s \o c /\ Cut(c, t)
    BY <1>1, <1>4, SplitCut
  <2>3. CASE Cut(b, s)
    BY <2>1, <2>3 DEF Reads, Chains
  <2>4. CASE \E c \in Strings : b = s \o c /\ Cut(c, t)
    <3>1. PICK c \in Strings : b = s \o c /\ Cut(c, t)
      BY <2>4
    <3>2. IsRead(reader[b], v, c)
      BY <3>1 DEF Reads
    <3>3. whole[b] = next[c]
      BY <2>1, <3>2 DEF Chains
    <3>4. next[c] = End
      BY <3>1 DEF Reads
    <3> QED
      BY <3>3, <3>4
  <2> QED
    BY <2>2, <2>3, <2>4
<1> QED
  BY <1>2, <1>3, <1>4 DEF Reads

\* A reader that reads nothing.
Already(v) == [b \in Strings |-> Encodings!Read(v, b)]

LEMMA AlreadyReads ==
  ASSUME NEW v PROVE Reads(Already(v), <<>>, v)
<1>1. <<>> \in Strings /\ Len(<<>>) = 0
  BY DEF Strings
<1>2. ASSUME NEW rest \in Strings PROVE IsRead(Already(v)[<<>> \o rest], v, rest)
  <2>1. <<>> \o rest = rest
    BY DEF Strings
  <2> QED
    BY <2>1 DEF Already, IsRead
<1>3. ASSUME NEW b, Cut(b, <<>>) PROVE FALSE
  <2>1. b \in Strings /\ Len(b) < 0
    BY <1>1, <1>3 DEF Cut
  <2>2. Len(b) \in Nat
    BY <2>1, <1>1, Halves
  <2> QED
    BY <2>1, <2>2
<1> QED
  BY <1>1, <1>2, <1>3 DEF Reads

LEMMA LastOfAll ==
  ASSUME NEW reader, NEW s, NEW v, Reads(reader, s, v), NEW w, NEW whole,
         Chains(reader, v, Already(w), whole)
  PROVE  Reads(whole, s, w)
<1>1. s \in Strings /\ s \o <<>> = s
  BY DEF Reads, Strings
<1>2. Reads(whole, s \o <<>>, w)
  BY AlreadyReads, InTurn
<1> QED
  BY <1>1, <1>2

-----------------------------------------------------------------------------
\* A reader of so many bytes.
TakeBytes(n) == [b \in Strings |-> Encodings!ReadBytes(n, b)]

LEMMA CountReads ==
  ASSUME NEW s \in Strings PROVE Reads(TakeBytes(Len(s)), s, s)
<1>1. ASSUME NEW rest \in Strings PROVE IsRead(TakeBytes(Len(s))[s \o rest], s, rest)
  <2>1. s \o rest \in Strings
    BY Halves
  <2>2. Encodings!ReadBytes(Len(s), s \o rest) = Encodings!Read(s, rest)
    BY BytesAreRead
  <2> QED
    BY <2>1, <2>2 DEF IsRead, TakeBytes
<1>2. ASSUME NEW b, Cut(b, s) PROVE TakeBytes(Len(s))[b] = End
  <2>1. b \in Strings
    BY <1>2 DEF Cut
  <2>2. Encodings!ReadBytes(Len(s), b) = End
    BY <1>2, BytesAreRead
  <2> QED
    BY <2>1, <2>2 DEF TakeBytes
<1> QED
  BY <1>1, <1>2 DEF Reads

LEMMA VarBytesReads ==
  ASSUME ByteAssumption, NEW p, EncodingPowers(p), NEW s \in Strings, Len(s) < p[8]
  PROVE  Reads([b \in Strings |-> Encodings!ReadVarBytes(b)], Encodings!VarBytes(s), s)
<1> DEFINE whole == [b \in Strings |-> Encodings!ReadVarBytes(b)]
<1>1. Len(s) \in Nat
  BY Halves
<1>2. Reads(Varints, Encodings!Encode(Len(s)), Len(s))
  BY <1>1, VarintIsRead
<1>3. Reads(TakeBytes(Len(s)), s, s)
  BY CountReads
<1>4. ASSUME NEW b \in Strings, Varints[b] = End PROVE whole[b] = End
  <2>1. Encodings!ReadVarint(b) = End
    BY <1>4 DEF Varints
  <2>2. Encodings!ReadVarBytes(b) = End
    BY <2>1, EndFacts DEF Encodings!ReadVarBytes
  <2> QED
    BY <2>2
<1>5. ASSUME NEW b \in Strings, NEW rest \in Strings, IsRead(Varints[b], Len(s), rest)
      PROVE  whole[b] = TakeBytes(Len(s))[rest]
  <2>1. IsRead(Encodings!ReadVarint(b), Len(s), rest)
    BY <1>5 DEF Varints
  <2>2. Encodings!ReadVarBytes(b) = Encodings!ReadBytes(Len(s), rest)
    BY <2>1, ReadFacts DEF Encodings!ReadVarBytes
  <2> QED
    BY <2>2 DEF TakeBytes
<1> HIDE DEF whole
<1>6. Chains(Varints, Len(s), TakeBytes(Len(s)), whole)
  BY <1>4, <1>5 DEF Chains
<1>7. Reads(whole, Encodings!Encode(Len(s)) \o s, s)
  BY <1>2, <1>3, <1>6, InTurn
<1> QED
  BY <1>7 DEF whole, Encodings!VarBytes

-----------------------------------------------------------------------------
(* An input and an output, part by part.                                   *)

LEMMA GoesOn ==
  ASSUME NEW read, NEW v, NEW rest, IsRead(read, v, rest)
  PROVE  read.value = v /\ read.rest = rest /\ \A next : Encodings!AndThen(read, next) = next
  BY ReadFacts

\* An input from what was read.
InputOf(previous, script, sequence) ==
  [previous_output |-> previous, script_sig |-> script, sequence |-> sequence, witness |-> <<>>]

LEMMA InputUnfolds ==
  ASSUME NEW b
  PROVE  /\ Encodings!ReadField(b) = End => Encodings!ReadInput(b) = End
         /\ \A x, rest : IsRead(Encodings!ReadField(b), x, rest) =>
              Encodings!ReadInput(b) = Encodings!InputAfter(x, rest)
<1>1. Encodings!ReadField(b) = End => Encodings!ReadInput(b) = End
  BY EndFacts DEF Encodings!ReadInput
<1>2. ASSUME NEW x, NEW rest, IsRead(Encodings!ReadField(b), x, rest)
      PROVE  Encodings!ReadInput(b) = Encodings!InputAfter(x, rest)
  <2> DEFINE read == Encodings!ReadField(b)
  <2>1. read.value = x /\ read.rest = rest /\ \A next : Encodings!AndThen(read, next) = next
    BY <1>2, GoesOn
  <2> QED
    BY <2>1 DEF Encodings!ReadInput, Encodings!InputAfter
<1> QED
  BY <1>1, <1>2

LEMMA InputAfterUnfolds ==
  ASSUME NEW b, NEW x
  PROVE  /\ Encodings!ReadVarBytes(b) = End => Encodings!InputAfter(x, b) = End
         /\ \A s, rest : IsRead(Encodings!ReadVarBytes(b), s, rest) =>
              Encodings!InputAfter(x, b) = Encodings!InputEnd(x, s, rest)
<1>1. Encodings!ReadVarBytes(b) = End => Encodings!InputAfter(x, b) = End
  BY EndFacts DEF Encodings!InputAfter
<1>2. ASSUME NEW s, NEW rest, IsRead(Encodings!ReadVarBytes(b), s, rest)
      PROVE  Encodings!InputAfter(x, b) = Encodings!InputEnd(x, s, rest)
  <2> DEFINE read == Encodings!ReadVarBytes(b)
  <2>1. read.value = s /\ read.rest = rest /\ \A next : Encodings!AndThen(read, next) = next
    BY <1>2, GoesOn
  <2> QED
    BY <2>1 DEF Encodings!InputAfter, Encodings!InputEnd
<1> QED
  BY <1>1, <1>2

LEMMA InputEndUnfolds ==
  ASSUME NEW b, NEW x, NEW s
  PROVE  /\ Encodings!ReadField(b) = End => Encodings!InputEnd(x, s, b) = End
         /\ \A y, rest : IsRead(Encodings!ReadField(b), y, rest) =>
              Encodings!InputEnd(x, s, b) = Encodings!Read(InputOf(x, s, y), rest)
<1>1. Encodings!ReadField(b) = End => Encodings!InputEnd(x, s, b) = End
  BY EndFacts DEF Encodings!InputEnd
<1>2. ASSUME NEW y, NEW rest, IsRead(Encodings!ReadField(b), y, rest)
      PROVE  Encodings!InputEnd(x, s, b) = Encodings!Read(InputOf(x, s, y), rest)
  BY <1>2, ReadFacts DEF Encodings!InputEnd, InputOf
<1> QED
  BY <1>1, <1>2

\* The readers of scripts and of inputs.
VarByteStrings == [b \in Strings |-> Encodings!ReadVarBytes(b)]
InputReader == [b \in Strings |-> Encodings!ReadInput(b)]

LEMMA InputReads ==
  ASSUME ByteAssumption, NEW p, EncodingPowers(p), NEW x \in Nat, NEW s \in Strings,
         Len(s) < p[8], NEW y \in Nat
  PROVE  Reads(InputReader, (<<x>> \o Encodings!VarBytes(s)) \o <<y>>, InputOf(x, s, y))
<1> DEFINE after == [b \in Strings |-> Encodings!InputAfter(x, b)]
           end == [b \in Strings |-> Encodings!InputEnd(x, s, b)]
<1>1. Chains(Fields, x, after, InputReader)
  BY InputUnfolds DEF Chains, Fields, InputReader
<1>2. Chains(VarByteStrings, s, end, after)
  BY InputAfterUnfolds DEF Chains, VarByteStrings
<1>3. Chains(Fields, y, Already(InputOf(x, s, y)), end)
  BY InputEndUnfolds DEF Chains, Fields, Already
<1> HIDE DEF after, end
<1>4. Reads(Fields, <<x>>, x) /\ Reads(Fields, <<y>>, y)
  BY FieldReads
<1>5. Reads(VarByteStrings, Encodings!VarBytes(s), s)
  BY VarBytesReads DEF VarByteStrings
<1>6. Reads(end, <<y>>, InputOf(x, s, y))
  BY <1>3, <1>4, LastOfAll
<1>7. Reads(after, Encodings!VarBytes(s) \o <<y>>, InputOf(x, s, y))
  BY <1>2, <1>5, <1>6, InTurn
<1>8. Reads(InputReader, <<x>> \o (Encodings!VarBytes(s) \o <<y>>), InputOf(x, s, y))
  BY <1>1, <1>4, <1>7, InTurn
<1>9. <<x>> \in Strings /\ Encodings!VarBytes(s) \in Strings /\ <<y>> \in Strings
  BY <1>4, <1>5 DEF Reads
<1>10. (<<x>> \o Encodings!VarBytes(s)) \o <<y>> = <<x>> \o (Encodings!VarBytes(s) \o <<y>>)
  BY <1>9, Associative DEF Associates
<1> QED
  BY <1>8, <1>10

-----------------------------------------------------------------------------
OutputOf(value, script) == [value |-> value, script_pubkey |-> script]

LEMMA OutputUnfolds ==
  ASSUME NEW b
  PROVE  /\ Encodings!ReadField(b) = End => Encodings!ReadOutput(b) = End
         /\ \A x, rest : IsRead(Encodings!ReadField(b), x, rest) =>
              Encodings!ReadOutput(b) = Encodings!OutputEnd(x, rest)
<1>1. Encodings!ReadField(b) = End => Encodings!ReadOutput(b) = End
  BY EndFacts DEF Encodings!ReadOutput
<1>2. ASSUME NEW x, NEW rest, IsRead(Encodings!ReadField(b), x, rest)
      PROVE  Encodings!ReadOutput(b) = Encodings!OutputEnd(x, rest)
  <2> DEFINE read == Encodings!ReadField(b)
  <2>1. read.value = x /\ read.rest = rest /\ \A next : Encodings!AndThen(read, next) = next
    BY <1>2, GoesOn
  <2> QED
    BY <2>1 DEF Encodings!ReadOutput, Encodings!OutputEnd
<1> QED
  BY <1>1, <1>2

LEMMA OutputEndUnfolds ==
  ASSUME NEW b, NEW x
  PROVE  /\ Encodings!ReadVarBytes(b) = End => Encodings!OutputEnd(x, b) = End
         /\ \A s, rest : IsRead(Encodings!ReadVarBytes(b), s, rest) =>
              Encodings!OutputEnd(x, b) = Encodings!Read(OutputOf(x, s), rest)
<1>1. Encodings!ReadVarBytes(b) = End => Encodings!OutputEnd(x, b) = End
  BY EndFacts DEF Encodings!OutputEnd
<1>2. ASSUME NEW s, NEW rest, IsRead(Encodings!ReadVarBytes(b), s, rest)
      PROVE  Encodings!OutputEnd(x, b) = Encodings!Read(OutputOf(x, s), rest)
  BY <1>2, ReadFacts DEF Encodings!OutputEnd, OutputOf
<1> QED
  BY <1>1, <1>2

OutputReader == [b \in Strings |-> Encodings!ReadOutput(b)]

LEMMA OutputReads ==
  ASSUME ByteAssumption, NEW p, EncodingPowers(p), NEW x \in Nat, NEW s \in Strings, Len(s) < p[8]
  PROVE  Reads(OutputReader, <<x>> \o Encodings!VarBytes(s), OutputOf(x, s))
<1> DEFINE end == [b \in Strings |-> Encodings!OutputEnd(x, b)]
<1>1. Chains(Fields, x, end, OutputReader)
  BY OutputUnfolds DEF Chains, Fields, OutputReader
<1>2. Chains(VarByteStrings, s, Already(OutputOf(x, s)), end)
  BY OutputEndUnfolds DEF Chains, VarByteStrings, Already
<1> HIDE DEF end
<1>3. Reads(Fields, <<x>>, x)
  BY FieldReads
<1>4. Reads(VarByteStrings, Encodings!VarBytes(s), s)
  BY VarBytesReads DEF VarByteStrings
<1>5. Reads(end, Encodings!VarBytes(s), OutputOf(x, s))
  BY <1>2, <1>4, LastOfAll
<1> QED
  BY <1>1, <1>3, <1>5, InTurn

-----------------------------------------------------------------------------
\* The four loops of a transaction, by what they read.
ReadItem(kind, b) ==
  IF kind = 0 THEN Encodings!ReadVarBytes(b)
  ELSE IF kind = 1 THEN Encodings!ReadInput(b)
  ELSE IF kind = 2 THEN Encodings!ReadOutput(b)
  ELSE Encodings!ReadWitness(b)

OneMore(kind, items) ==
  LET item == ReadItem(kind, items.rest)
  IN  Encodings!AndThen(items,
        Encodings!AndThen(item, Encodings!Read(Append(items.value, item.value), item.rest)))

LoopOf(kind, f, count, b) ==
  f = [n \in 0 .. count |-> IF n = 0 THEN Encodings!Read(<<>>, b) ELSE OneMore(kind, f[n - 1])]

IsLoop(kind, f, count, b) ==
  f[0] = Encodings!Read(<<>>, b) /\ \A n \in 1 .. count : f[n] = OneMore(kind, f[n - 1])

LEMMA LoopExists ==
  ASSUME NEW kind, NEW b, NEW count \in Nat
  PROVE  \E f : LoopOf(kind, f, count, b)
<1> DEFINE start == Encodings!Read(<<>>, b)
           Step(x) == OneMore(kind, x)
           Runs(f, m) == f = [n \in 0 .. m |-> IF n = 0 THEN start ELSE Step(f[n - 1])]
           S == {m \in Nat : \E f : Runs(f, m)}
<1> HIDE DEF start, Step
<1>1. 0 \in S
  <2> DEFINE f == [n \in 0 .. 0 |-> start]
  <2>1. \A n \in 0 .. 0 : n = 0
    BY SMT
  <2>2. [n \in 0 .. 0 |-> start] = [n \in 0 .. 0 |-> IF n = 0 THEN start ELSE Step(f[n - 1])]
    BY <2>1, Zenon
  <2>3. Runs(f, 0)
    BY <2>2
  <2> QED
    BY <2>3
<1>2. ASSUME NEW m \in Nat, m \in S PROVE m + 1 \in S
  <2>1. PICK f : Runs(f, m)
    BY <1>2
  <2> DEFINE g == [n \in 0 .. m + 1 |-> IF n = m + 1 THEN Step(f[m]) ELSE f[n]]
  <2>2. ASSUME NEW n \in 0 .. m + 1 PROVE g[n] = IF n = 0 THEN start ELSE Step(g[n - 1])
    <3>1. CASE n = 0
      BY <2>1, <3>1
    <3>2. CASE n = m + 1
      <4>1. g[n] = Step(f[m]) /\ g[n - 1] = f[m] /\ n # 0
        BY <3>2
      <4> QED
        BY <4>1
    <3>3. CASE n \in 1 .. m
      <4>1. g[n] = f[n] /\ g[n - 1] = f[n - 1] /\ n # 0
        BY <3>3
      <4>2. f[n] = Step(f[n - 1])
        BY <2>1, <3>3
      <4> QED
        BY <4>1, <4>2
    <3> QED
      BY <3>1, <3>2, <3>3
  <2>3. g = [n \in 0 .. m + 1 |-> g[n]]
    OBVIOUS
  <2> HIDE DEF g
  <2>4. g = [n \in 0 .. m + 1 |-> IF n = 0 THEN start ELSE Step(g[n - 1])]
    BY <2>2, <2>3, Zenon
  <2> QED
    BY <2>4
<1> HIDE DEF S
<1>3. \A m \in Nat : m \in S
  BY <1>1, <1>2, Induction
<1> QED
  BY <1>3 DEF S, LoopOf, start, Step

LEMMA LoopIs ==
  ASSUME NEW kind, NEW f, NEW count \in Nat, NEW b, LoopOf(kind, f, count, b)
  PROVE  IsLoop(kind, f, count, b)
<1> DEFINE start == Encodings!Read(<<>>, b)
           Step(x) == OneMore(kind, x)
<1>1. f = [n \in 0 .. count |-> IF n = 0 THEN start ELSE Step(f[n - 1])]
  BY DEF LoopOf
<1> HIDE DEF start, Step
<1>2. f[0] = start /\ \A n \in 1 .. count : f[n] = Step(f[n - 1])
  BY <1>1, SMT
<1> QED
  BY <1>2 DEF start, Step, IsLoop

LEMMA InputsAreLooped ==
  ASSUME NEW b, NEW count \in Nat
  PROVE  \E f : IsLoop(1, f, count, b) /\ Encodings!ReadMany(Encodings!ReadInput, count, b) = f[count]
<1> DEFINE Defines(f) ==
             f = [n \in 0 .. count |->
                    IF n = 0
                    THEN Encodings!Read(<<>>, b)
                    ELSE Encodings!AndThen(f[n - 1],
                           Encodings!AndThen(Encodings!ReadInput(f[n - 1].rest),
                             Encodings!Read(Append(f[n - 1].value,
                                                   Encodings!ReadInput(f[n - 1].rest).value),
                                            Encodings!ReadInput(f[n - 1].rest).rest)))]
           after == CHOOSE f : Defines(f)
<1>1. Encodings!ReadMany(Encodings!ReadInput, count, b) = after[count]
  BY DEF Encodings!ReadMany
<1>2. \A x : ReadItem(1, x) = Encodings!ReadInput(x)
  BY DEF ReadItem
<1> HIDE DEF Defines
<1>3. \A f : LoopOf(1, f, count, b) <=> Defines(f)
  BY <1>2, Zenon DEF LoopOf, OneMore, Defines
<1>4. Defines(after)
  BY <1>3, LoopExists, Zenon
<1> HIDE DEF after
<1> QED
  BY <1>1, <1>3, <1>4, LoopIs, Zenon

LEMMA StringsAreLooped ==
  ASSUME NEW b, NEW count \in Nat
  PROVE  \E f : IsLoop(0, f, count, b)
         /\ Encodings!ReadMany(Encodings!ReadVarBytes, count, b) = f[count]
<1> DEFINE Defines(f) ==
             f = [n \in 0 .. count |->
                    IF n = 0
                    THEN Encodings!Read(<<>>, b)
                    ELSE Encodings!AndThen(f[n - 1],
                           Encodings!AndThen(Encodings!ReadVarBytes(f[n - 1].rest),
                             Encodings!Read(Append(f[n - 1].value,
                                                   Encodings!ReadVarBytes(f[n - 1].rest).value),
                                            Encodings!ReadVarBytes(f[n - 1].rest).rest)))]
           after == CHOOSE f : Defines(f)
<1>1. Encodings!ReadMany(Encodings!ReadVarBytes, count, b) = after[count]
  BY DEF Encodings!ReadMany
<1>2. \A x : ReadItem(0, x) = Encodings!ReadVarBytes(x)
  BY DEF ReadItem
<1> HIDE DEF Defines
<1>3. \A f : LoopOf(0, f, count, b) <=> Defines(f)
  BY <1>2, Zenon DEF LoopOf, OneMore, Defines
<1>4. Defines(after)
  BY <1>3, LoopExists, Zenon
<1> HIDE DEF after
<1> QED
  BY <1>1, <1>3, <1>4, LoopIs, Zenon

LEMMA OutputsAreLooped ==
  ASSUME NEW b, NEW count \in Nat
  PROVE  \E f : IsLoop(2, f, count, b) /\ Encodings!ReadMany(Encodings!ReadOutput, count, b) = f[count]
<1> DEFINE Defines(f) ==
             f = [n \in 0 .. count |->
                    IF n = 0
                    THEN Encodings!Read(<<>>, b)
                    ELSE Encodings!AndThen(f[n - 1],
                           Encodings!AndThen(Encodings!ReadOutput(f[n - 1].rest),
                             Encodings!Read(Append(f[n - 1].value,
                                                   Encodings!ReadOutput(f[n - 1].rest).value),
                                            Encodings!ReadOutput(f[n - 1].rest).rest)))]
           after == CHOOSE f : Defines(f)
<1>1. Encodings!ReadMany(Encodings!ReadOutput, count, b) = after[count]
  BY DEF Encodings!ReadMany
<1>2. \A x : ReadItem(2, x) = Encodings!ReadOutput(x)
  BY DEF ReadItem
<1> HIDE DEF Defines
<1>3. \A f : LoopOf(2, f, count, b) <=> Defines(f)
  BY <1>2, Zenon DEF LoopOf, OneMore, Defines
<1>4. Defines(after)
  BY <1>3, LoopExists, Zenon
<1> HIDE DEF after
<1> QED
  BY <1>1, <1>3, <1>4, LoopIs, Zenon

LEMMA StacksAreLooped ==
  ASSUME NEW b, NEW count \in Nat
  PROVE  \E f : IsLoop(3, f, count, b) /\ Encodings!ReadMany(Encodings!ReadWitness, count, b) = f[count]
<1> DEFINE Defines(f) ==
             f = [n \in 0 .. count |->
                    IF n = 0
                    THEN Encodings!Read(<<>>, b)
                    ELSE Encodings!AndThen(f[n - 1],
                           Encodings!AndThen(Encodings!ReadWitness(f[n - 1].rest),
                             Encodings!Read(Append(f[n - 1].value,
                                                   Encodings!ReadWitness(f[n - 1].rest).value),
                                            Encodings!ReadWitness(f[n - 1].rest).rest)))]
           after == CHOOSE f : Defines(f)
<1>1. Encodings!ReadMany(Encodings!ReadWitness, count, b) = after[count]
  BY DEF Encodings!ReadMany
<1>2. \A x : ReadItem(3, x) = Encodings!ReadWitness(x)
  BY DEF ReadItem
<1> HIDE DEF Defines
<1>3. \A f : LoopOf(3, f, count, b) <=> Defines(f)
  BY <1>2, Zenon DEF LoopOf, OneMore, Defines
<1>4. Defines(after)
  BY <1>3, LoopExists, Zenon
<1> HIDE DEF after
<1> QED
  BY <1>1, <1>3, <1>4, LoopIs, Zenon

-----------------------------------------------------------------------------
\* Strings behind one another.
Concats(cat, text, count) == cat[0] = <<>> /\ \A n \in 1 .. count : cat[n] = cat[n - 1] \o text[n]

LEMMA ConcatExists ==
  ASSUME NEW count \in Nat, NEW text \in [1 .. count -> Strings]
  PROVE  \E f \in [0 .. count -> Strings] :
           f = [n \in 0 .. count |-> IF n = 0 THEN <<>> ELSE f[n - 1] \o text[n]]
<1> DEFINE step == [s \in (1 .. count) \X Strings |-> s[2] \o text[s[1]]]
<1>1. <<>> \in Strings
  BY DEF Strings
<1>2. step \in [(1 .. count) \X Strings -> Strings]
  <2>1. ASSUME NEW s \in (1 .. count) \X Strings PROVE s[2] \o text[s[1]] \in Strings
    BY Halves
  <2> QED
    BY <2>1
<1>3. \A n \in 1 .. count, s \in Strings : step[<<n, s>>] = s \o text[n]
  OBVIOUS
<1> HIDE DEF step
<1>4. PICK f \in [0 .. count -> Strings] : Filled(f, count, <<>>, step)
  BY <1>1, <1>2, Fills, Zenon
<1>5. ASSUME NEW n \in 0 .. count PROVE f[n] = IF n = 0 THEN <<>> ELSE f[n - 1] \o text[n]
  <2>1. CASE n = 0
    BY <1>4, <2>1 DEF Filled
  <2>2. CASE n # 0
    <3>1. n \in 1 .. count /\ n - 1 \in 0 .. count
      BY <2>2
    <3>2. f[n] = step[<<n, f[n - 1]>>] /\ f[n - 1] \in Strings
      BY <1>4, <3>1 DEF Filled
    <3> QED
      BY <1>3, <2>2, <3>1, <3>2
  <2> QED
    BY <2>1, <2>2
<1>6. f = [n \in 0 .. count |-> f[n]]
  OBVIOUS
<1>7. f = [n \in 0 .. count |-> IF n = 0 THEN <<>> ELSE f[n - 1] \o text[n]]
  BY <1>5, <1>6, Zenon
<1> QED
  BY <1>7, Zenon

LEMMA InputsAreJoined ==
  ASSUME NEW items, NEW count \in Nat, Len(items) = count,
         NEW text \in [1 .. count -> Strings],
         \A n \in 1 .. count : text[n] = Encodings!WriteInput(items[n])
  PROVE  \E cat : Concats(cat, text, count)
         /\ Encodings!Concat(Encodings!WriteInput, items) = cat[count]
<1> DEFINE Defines(f) ==
             f = [n \in 0 .. Len(items) |->
                    IF n = 0 THEN <<>> ELSE f[n - 1] \o Encodings!WriteInput(items[n])]
           first == CHOOSE f : Defines(f)
<1>1. Encodings!Concat(Encodings!WriteInput, items) = first[Len(items)]
  BY DEF Encodings!Concat
<1>2. PICK f : f = [n \in 0 .. count |-> IF n = 0 THEN <<>> ELSE f[n - 1] \o text[n]]
  <2>1. PICK f \in [0 .. count -> Strings] :
          f = [n \in 0 .. count |-> IF n = 0 THEN <<>> ELSE f[n - 1] \o text[n]]
    BY ConcatExists
  <2> QED
    BY <2>1
<1>3. ASSUME NEW n \in 0 .. count
      PROVE  (IF n = 0 THEN <<>> ELSE f[n - 1] \o text[n])
               = IF n = 0 THEN <<>> ELSE f[n - 1] \o Encodings!WriteInput(items[n])
  <2>1. n # 0 => n \in 1 .. count
    BY SMT
  <2> QED
    BY <2>1, Zenon
<1>4. Defines(f)
  BY <1>2, <1>3, Zenon
<1>5. Defines(first)
  BY <1>4, Zenon
<1> HIDE DEF first
<1>6. Concats(first, text, count)
  <2>1. first[0] = <<>>
    BY <1>5
  <2>2. \A n \in 1 .. count : first[n] = first[n - 1] \o Encodings!WriteInput(items[n])
    BY <1>5
  <2> QED
    BY <2>1, <2>2 DEF Concats
<1> QED
  BY <1>1, <1>6

LEMMA StringsAreJoined ==
  ASSUME NEW items, NEW count \in Nat, Len(items) = count,
         NEW text \in [1 .. count -> Strings],
         \A n \in 1 .. count : text[n] = Encodings!VarBytes(items[n])
  PROVE  \E cat : Concats(cat, text, count) /\ Encodings!Concat(Encodings!VarBytes, items) = cat[count]
<1> DEFINE Defines(f) ==
             f = [n \in 0 .. Len(items) |->
                    IF n = 0 THEN <<>> ELSE f[n - 1] \o Encodings!VarBytes(items[n])]
           first == CHOOSE f : Defines(f)
<1>1. Encodings!Concat(Encodings!VarBytes, items) = first[Len(items)]
  BY DEF Encodings!Concat
<1>2. PICK f : f = [n \in 0 .. count |-> IF n = 0 THEN <<>> ELSE f[n - 1] \o text[n]]
  <2>1. PICK f \in [0 .. count -> Strings] :
          f = [n \in 0 .. count |-> IF n = 0 THEN <<>> ELSE f[n - 1] \o text[n]]
    BY ConcatExists
  <2> QED
    BY <2>1
<1>3. ASSUME NEW n \in 0 .. count
      PROVE  (IF n = 0 THEN <<>> ELSE f[n - 1] \o text[n])
               = IF n = 0 THEN <<>> ELSE f[n - 1] \o Encodings!VarBytes(items[n])
  <2>1. n # 0 => n \in 1 .. count
    BY SMT
  <2> QED
    BY <2>1, Zenon
<1>4. Defines(f)
  BY <1>2, <1>3, Zenon
<1>5. Defines(first)
  BY <1>4, Zenon
<1> HIDE DEF first
<1>6. Concats(first, text, count)
  <2>1. first[0] = <<>>
    BY <1>5
  <2>2. \A n \in 1 .. count : first[n] = first[n - 1] \o Encodings!VarBytes(items[n])
    BY <1>5
  <2> QED
    BY <2>1, <2>2 DEF Concats
<1> QED
  BY <1>1, <1>6

LEMMA OutputsAreJoined ==
  ASSUME NEW items, NEW count \in Nat, Len(items) = count,
         NEW text \in [1 .. count -> Strings],
         \A n \in 1 .. count : text[n] = Encodings!WriteOutput(items[n])
  PROVE  \E cat : Concats(cat, text, count)
         /\ Encodings!Concat(Encodings!WriteOutput, items) = cat[count]
<1> DEFINE Defines(f) ==
             f = [n \in 0 .. Len(items) |->
                    IF n = 0 THEN <<>> ELSE f[n - 1] \o Encodings!WriteOutput(items[n])]
           first == CHOOSE f : Defines(f)
<1>1. Encodings!Concat(Encodings!WriteOutput, items) = first[Len(items)]
  BY DEF Encodings!Concat
<1>2. PICK f : f = [n \in 0 .. count |-> IF n = 0 THEN <<>> ELSE f[n - 1] \o text[n]]
  <2>1. PICK f \in [0 .. count -> Strings] :
          f = [n \in 0 .. count |-> IF n = 0 THEN <<>> ELSE f[n - 1] \o text[n]]
    BY ConcatExists
  <2> QED
    BY <2>1
<1>3. ASSUME NEW n \in 0 .. count
      PROVE  (IF n = 0 THEN <<>> ELSE f[n - 1] \o text[n])
               = IF n = 0 THEN <<>> ELSE f[n - 1] \o Encodings!WriteOutput(items[n])
  <2>1. n # 0 => n \in 1 .. count
    BY SMT
  <2> QED
    BY <2>1, Zenon
<1>4. Defines(f)
  BY <1>2, <1>3, Zenon
<1>5. Defines(first)
  BY <1>4, Zenon
<1> HIDE DEF first
<1>6. Concats(first, text, count)
  <2>1. first[0] = <<>>
    BY <1>5
  <2>2. \A n \in 1 .. count : first[n] = first[n - 1] \o Encodings!WriteOutput(items[n])
    BY <1>5
  <2> QED
    BY <2>1, <2>2 DEF Concats
<1> QED
  BY <1>1, <1>6

LEMMA StacksAreJoined ==
  ASSUME NEW items, NEW count \in Nat, Len(items) = count,
         NEW text \in [1 .. count -> Strings],
         \A n \in 1 .. count : text[n] = Encodings!WriteWitness(items[n])
  PROVE  \E cat : Concats(cat, text, count)
         /\ Encodings!Concat(Encodings!WriteWitness, items) = cat[count]
<1> DEFINE Defines(f) ==
             f = [n \in 0 .. Len(items) |->
                    IF n = 0 THEN <<>> ELSE f[n - 1] \o Encodings!WriteWitness(items[n])]
           first == CHOOSE f : Defines(f)
<1>1. Encodings!Concat(Encodings!WriteWitness, items) = first[Len(items)]
  BY DEF Encodings!Concat
<1>2. PICK f : f = [n \in 0 .. count |-> IF n = 0 THEN <<>> ELSE f[n - 1] \o text[n]]
  <2>1. PICK f \in [0 .. count -> Strings] :
          f = [n \in 0 .. count |-> IF n = 0 THEN <<>> ELSE f[n - 1] \o text[n]]
    BY ConcatExists
  <2> QED
    BY <2>1
<1>3. ASSUME NEW n \in 0 .. count
      PROVE  (IF n = 0 THEN <<>> ELSE f[n - 1] \o text[n])
               = IF n = 0 THEN <<>> ELSE f[n - 1] \o Encodings!WriteWitness(items[n])
  <2>1. n # 0 => n \in 1 .. count
    BY SMT
  <2> QED
    BY <2>1, Zenon
<1>4. Defines(f)
  BY <1>2, <1>3, Zenon
<1>5. Defines(first)
  BY <1>4, Zenon
<1> HIDE DEF first
<1>6. Concats(first, text, count)
  <2>1. first[0] = <<>>
    BY <1>5
  <2>2. \A n \in 1 .. count : first[n] = first[n - 1] \o Encodings!WriteWitness(items[n])
    BY <1>5
  <2> QED
    BY <2>1, <2>2 DEF Concats
<1> QED
  BY <1>1, <1>6

-----------------------------------------------------------------------------
(* A loop over strings that are read one by one reads them all. *)

\* The reader of one item of a loop.
Items(kind) == [b \in Strings |-> ReadItem(kind, b)]

LEMMA AppendFirsts ==
  ASSUME NEW V, NEW count \in Nat, NEW value \in [1 .. count -> V], NEW n \in Nat, n + 1 <= count
  PROVE  Append([i \in 1 .. n |-> value[i]], value[n + 1]) = [i \in 1 .. n + 1 |-> value[i]]
<1>1. [i \in 1 .. n |-> value[i]] \in Seq(V) /\ Len([i \in 1 .. n |-> value[i]]) = n
  OBVIOUS
<1> QED
  BY <1>1

\* Each item is read from its text, and each text has its loop.
EachIsRead(kind, text, value, count) ==
  \A i \in 1 .. count : Reads(Items(kind), text[i], value[i])
EachIsLoop(kind, loops, count) == \A b \in Strings : IsLoop(kind, loops[b], count, b)
LoopReader(loops, count) == [b \in Strings |-> loops[b][count]]

LEMMA LoopReads ==
  ASSUME NEW kind, NEW count \in Nat, NEW V, NEW value \in [1 .. count -> V], NEW text,
         EachIsRead(kind, text, value, count),
         NEW cat, Concats(cat, text, count),
         NEW loops, EachIsLoop(kind, loops, count)
  PROVE  Reads(LoopReader(loops, count), cat[count], value)
<1>0. /\ \A i \in 1 .. count : Reads(Items(kind), text[i], value[i])
      /\ \A b \in Strings : IsLoop(kind, loops[b], count, b)
  BY DEF EachIsRead, EachIsLoop
<1> DEFINE After(n) == [b \in Strings |-> loops[b][n]]
           Firsts(n) == [i \in 1 .. n |-> value[i]]
           S == {n \in Nat : n <= count => Reads(After(n), cat[n], Firsts(n))}
<1>1. Reads(After(0), cat[0], Firsts(0))
  <2>1. cat[0] = <<>>
    BY DEF Concats
  <2>2. Firsts(0) = <<>>
    OBVIOUS
  <2>3. After(0) = Already(<<>>)
    <3>1. ASSUME NEW b \in Strings PROVE loops[b][0] = Encodings!Read(<<>>, b)
      BY <1>0 DEF IsLoop
    <3> QED
      BY <3>1, Zenon DEF Already
  <2> HIDE DEF After, Firsts
  <2> QED
    BY <2>1, <2>2, <2>3, AlreadyReads
<1>2. ASSUME NEW n \in Nat, n + 1 <= count, Reads(After(n), cat[n], Firsts(n))
      PROVE  Reads(After(n + 1), cat[n + 1], Firsts(n + 1))
  <2>1. n + 1 \in 1 .. count /\ (n + 1) - 1 = n
    BY <1>2
  <2>2. cat[n + 1] = cat[n] \o text[n + 1]
    BY <2>1 DEF Concats
  <2> DEFINE more == [b \in Strings |->
                       Encodings!AndThen(ReadItem(kind, b),
                         Encodings!Read(Append(Firsts(n), ReadItem(kind, b).value),
                                        ReadItem(kind, b).rest))]
  <2>3. Append(Firsts(n), value[n + 1]) = Firsts(n + 1)
    BY <1>2, AppendFirsts
  <2> HIDE DEF Firsts
  <2>4. Chains(Items(kind), value[n + 1], Already(Firsts(n + 1)), more)
    <3>1. ASSUME NEW b \in Strings, Items(kind)[b] = End PROVE more[b] = End
      <4>1. ReadItem(kind, b) = End
        BY <3>1 DEF Items
      <4>2. \A next : Encodings!AndThen(ReadItem(kind, b), next) = End
        BY <4>1, EndFacts
      <4> QED
        BY <4>2
    <3>2. ASSUME NEW b \in Strings, NEW rest \in Strings, IsRead(Items(kind)[b], value[n + 1], rest)
          PROVE  more[b] = Already(Firsts(n + 1))[rest]
      <4>1. IsRead(ReadItem(kind, b), value[n + 1], rest)
        BY <3>2 DEF Items
      <4> DEFINE item == ReadItem(kind, b)
      <4>2. item.value = value[n + 1] /\ item.rest = rest
            /\ \A next : Encodings!AndThen(item, next) = next
        BY <4>1, GoesOn
      <4> HIDE DEF item
      <4>3. more[b] = Encodings!AndThen(item, Encodings!Read(Append(Firsts(n), item.value), item.rest))
        BY DEF item
      <4>4. more[b] = Encodings!Read(Firsts(n + 1), rest)
        BY <2>3, <4>2, <4>3
      <4> QED
        BY <4>4 DEF Already
    <3> QED
      BY <3>1, <3>2, Zenon DEF Chains
  <2>5. Chains(After(n), Firsts(n), more, After(n + 1))
    <3>1. ASSUME NEW b \in Strings PROVE After(n + 1)[b] = OneMore(kind, After(n)[b])
      <4>1. loops[b][n + 1] = OneMore(kind, loops[b][n])
        BY <1>0, <2>1 DEF IsLoop
      <4> QED
        BY <4>1
    <3> HIDE DEF After
    <3>2. ASSUME NEW b \in Strings, After(n)[b] = End PROVE After(n + 1)[b] = End
      <4>1. OneMore(kind, End) = End
        BY EndFacts DEF OneMore
      <4> QED
        BY <3>1, <3>2, <4>1
    <3>3. ASSUME NEW b \in Strings, NEW rest \in Strings, IsRead(After(n)[b], Firsts(n), rest)
          PROVE  After(n + 1)[b] = more[rest]
      <4> DEFINE items == After(n)[b]
      <4>1. items.value = Firsts(n) /\ items.rest = rest
            /\ \A next : Encodings!AndThen(items, next) = next
        BY <3>3, GoesOn
      <4>2. After(n + 1)[b] = OneMore(kind, items)
        BY <3>1
      <4> HIDE DEF items
      <4>3. OneMore(kind, items) = more[rest]
        BY <4>1 DEF OneMore
      <4> QED
        BY <4>2, <4>3
    <3> QED
      BY <3>2, <3>3, Zenon DEF Chains
  <2> HIDE DEF more, After
  <2>6. Reads(more, text[n + 1], Firsts(n + 1))
    BY <1>0, <2>1, <2>4, LastOfAll
  <2> QED
    BY <1>2, <2>2, <2>5, <2>6, InTurn
<1> HIDE DEF After, Firsts
<1>3. 0 \in S
  BY <1>1
<1>4. \A n \in Nat : n \in S => n + 1 \in S
  <2>1. ASSUME NEW n \in Nat, n \in S PROVE n + 1 \in S
    <3>1. n + 1 <= count => n <= count
      OBVIOUS
    <3>2. n + 1 <= count => Reads(After(n + 1), cat[n + 1], Firsts(n + 1))
      BY <1>2, <2>1, <3>1
    <3> QED
      BY <3>2
  <2> QED
    BY <2>1
<1> HIDE DEF S
<1>5. count \in S
  BY <1>3, <1>4, Induction
<1>6. Reads(After(count), cat[count], Firsts(count))
  BY <1>5 DEF S
<1>7. Firsts(count) = value
  BY DEF Firsts
<1>8. After(count) = LoopReader(loops, count)
  BY DEF After, LoopReader
<1> QED
  BY <1>6, <1>7, <1>8

-----------------------------------------------------------------------------
(* The loops over the inputs, outputs, scripts and stacks of a transaction. *)

\* A reader of the stack of an input.
StackReader == [b \in Strings |-> Encodings!ReadWitness(b)]

LEMMA InputsAreRead ==
  ASSUME NEW items, NEW count \in Nat, Len(items) = count, NEW V, NEW value \in [1 .. count -> V],
         \A i \in 1 .. count : Reads(InputReader, Encodings!WriteInput(items[i]), value[i])
  PROVE  Reads([b \in Strings |-> Encodings!ReadMany(Encodings!ReadInput, count, b)],
               Encodings!Concat(Encodings!WriteInput, items), value)
<1> DEFINE text == [i \in 1 .. count |-> Encodings!WriteInput(items[i])]
           many == [b \in Strings |-> Encodings!ReadMany(Encodings!ReadInput, count, b)]
           Loops(f, b) == /\ IsLoop(1, f, count, b)
                          /\ Encodings!ReadMany(Encodings!ReadInput, count, b) = f[count]
           loops == [b \in Strings |-> CHOOSE f : Loops(f, b)]
<1>1. Items(1) = InputReader
  <2>1. \A b : ReadItem(1, b) = Encodings!ReadInput(b)
    BY DEF ReadItem
  <2> QED
    BY <2>1, Zenon DEF Items, InputReader
<1>2. \A i \in 1 .. count : Reads(Items(1), text[i], value[i])
  BY <1>1
<1>3. \A i \in 1 .. count : text[i] \in Strings
  BY <1>2 DEF Reads
<1>4. text \in [1 .. count -> Strings]
  BY <1>3
<1>5. \A i \in 1 .. count : text[i] = Encodings!WriteInput(items[i])
  OBVIOUS
<1> HIDE DEF text
<1>6. PICK cat : Concats(cat, text, count) /\ Encodings!Concat(Encodings!WriteInput, items) = cat[count]
  BY <1>4, <1>5, InputsAreJoined
<1> HIDE DEF Loops
<1>7. \A b \in Strings : Loops(loops[b], b)
  <2>1. ASSUME NEW b \in Strings PROVE Loops(CHOOSE f : Loops(f, b), b)
    <3>1. \E f : Loops(f, b)
      BY InputsAreLooped, Zenon DEF Loops
    <3> QED
      BY <3>1, Zenon
  <2> QED
    BY <2>1, Zenon
<1> HIDE DEF loops
<1>8. EachIsLoop(1, loops, count) /\ EachIsRead(1, text, value, count)
  BY <1>2, <1>7 DEF Loops, EachIsLoop, EachIsRead
<1>9. Reads(LoopReader(loops, count), cat[count], value)
  BY <1>6, <1>8, LoopReads
<1>10. \A b \in Strings : Encodings!ReadMany(Encodings!ReadInput, count, b) = loops[b][count]
  BY <1>7, Zenon DEF Loops
<1>11. many = LoopReader(loops, count)
  BY <1>10, Zenon DEF LoopReader
<1> HIDE DEF many
<1>12. Reads(many, Encodings!Concat(Encodings!WriteInput, items), value)
  BY <1>6, <1>9, <1>11
<1> QED
  BY <1>12 DEF many

LEMMA StringsAreRead ==
  ASSUME NEW items, NEW count \in Nat, Len(items) = count, NEW V, NEW value \in [1 .. count -> V],
         \A i \in 1 .. count : Reads(VarByteStrings, Encodings!VarBytes(items[i]), value[i])
  PROVE  Reads([b \in Strings |-> Encodings!ReadMany(Encodings!ReadVarBytes, count, b)],
               Encodings!Concat(Encodings!VarBytes, items), value)
<1> DEFINE text == [i \in 1 .. count |-> Encodings!VarBytes(items[i])]
           many == [b \in Strings |-> Encodings!ReadMany(Encodings!ReadVarBytes, count, b)]
           Loops(f, b) == /\ IsLoop(0, f, count, b)
                          /\ Encodings!ReadMany(Encodings!ReadVarBytes, count, b) = f[count]
           loops == [b \in Strings |-> CHOOSE f : Loops(f, b)]
<1>1. Items(0) = VarByteStrings
  <2>1. \A b : ReadItem(0, b) = Encodings!ReadVarBytes(b)
    BY DEF ReadItem
  <2> QED
    BY <2>1, Zenon DEF Items, VarByteStrings
<1>2. \A i \in 1 .. count : Reads(Items(0), text[i], value[i])
  BY <1>1
<1>3. \A i \in 1 .. count : text[i] \in Strings
  BY <1>2 DEF Reads
<1>4. text \in [1 .. count -> Strings]
  BY <1>3
<1>5. \A i \in 1 .. count : text[i] = Encodings!VarBytes(items[i])
  OBVIOUS
<1> HIDE DEF text
<1>6. PICK cat : Concats(cat, text, count) /\ Encodings!Concat(Encodings!VarBytes, items) = cat[count]
  BY <1>4, <1>5, StringsAreJoined
<1> HIDE DEF Loops
<1>7. \A b \in Strings : Loops(loops[b], b)
  <2>1. ASSUME NEW b \in Strings PROVE Loops(CHOOSE f : Loops(f, b), b)
    <3>1. \E f : Loops(f, b)
      BY StringsAreLooped, Zenon DEF Loops
    <3> QED
      BY <3>1, Zenon
  <2> QED
    BY <2>1, Zenon
<1> HIDE DEF loops
<1>8. EachIsLoop(0, loops, count) /\ EachIsRead(0, text, value, count)
  BY <1>2, <1>7 DEF Loops, EachIsLoop, EachIsRead
<1>9. Reads(LoopReader(loops, count), cat[count], value)
  BY <1>6, <1>8, LoopReads
<1>10. \A b \in Strings : Encodings!ReadMany(Encodings!ReadVarBytes, count, b) = loops[b][count]
  BY <1>7, Zenon DEF Loops
<1>11. many = LoopReader(loops, count)
  BY <1>10, Zenon DEF LoopReader
<1> HIDE DEF many
<1>12. Reads(many, Encodings!Concat(Encodings!VarBytes, items), value)
  BY <1>6, <1>9, <1>11
<1> QED
  BY <1>12 DEF many

LEMMA OutputsAreRead ==
  ASSUME NEW items, NEW count \in Nat, Len(items) = count, NEW V, NEW value \in [1 .. count -> V],
         \A i \in 1 .. count : Reads(OutputReader, Encodings!WriteOutput(items[i]), value[i])
  PROVE  Reads([b \in Strings |-> Encodings!ReadMany(Encodings!ReadOutput, count, b)],
               Encodings!Concat(Encodings!WriteOutput, items), value)
<1> DEFINE text == [i \in 1 .. count |-> Encodings!WriteOutput(items[i])]
           many == [b \in Strings |-> Encodings!ReadMany(Encodings!ReadOutput, count, b)]
           Loops(f, b) == /\ IsLoop(2, f, count, b)
                          /\ Encodings!ReadMany(Encodings!ReadOutput, count, b) = f[count]
           loops == [b \in Strings |-> CHOOSE f : Loops(f, b)]
<1>1. Items(2) = OutputReader
  <2>1. \A b : ReadItem(2, b) = Encodings!ReadOutput(b)
    BY DEF ReadItem
  <2> QED
    BY <2>1, Zenon DEF Items, OutputReader
<1>2. \A i \in 1 .. count : Reads(Items(2), text[i], value[i])
  BY <1>1
<1>3. \A i \in 1 .. count : text[i] \in Strings
  BY <1>2 DEF Reads
<1>4. text \in [1 .. count -> Strings]
  BY <1>3
<1>5. \A i \in 1 .. count : text[i] = Encodings!WriteOutput(items[i])
  OBVIOUS
<1> HIDE DEF text
<1>6. PICK cat : Concats(cat, text, count)
      /\ Encodings!Concat(Encodings!WriteOutput, items) = cat[count]
  BY <1>4, <1>5, OutputsAreJoined
<1> HIDE DEF Loops
<1>7. \A b \in Strings : Loops(loops[b], b)
  <2>1. ASSUME NEW b \in Strings PROVE Loops(CHOOSE f : Loops(f, b), b)
    <3>1. \E f : Loops(f, b)
      BY OutputsAreLooped, Zenon DEF Loops
    <3> QED
      BY <3>1, Zenon
  <2> QED
    BY <2>1, Zenon
<1> HIDE DEF loops
<1>8. EachIsLoop(2, loops, count) /\ EachIsRead(2, text, value, count)
  BY <1>2, <1>7 DEF Loops, EachIsLoop, EachIsRead
<1>9. Reads(LoopReader(loops, count), cat[count], value)
  BY <1>6, <1>8, LoopReads
<1>10. \A b \in Strings : Encodings!ReadMany(Encodings!ReadOutput, count, b) = loops[b][count]
  BY <1>7, Zenon DEF Loops
<1>11. many = LoopReader(loops, count)
  BY <1>10, Zenon DEF LoopReader
<1> HIDE DEF many
<1>12. Reads(many, Encodings!Concat(Encodings!WriteOutput, items), value)
  BY <1>6, <1>9, <1>11
<1> QED
  BY <1>12 DEF many

LEMMA StacksAreRead ==
  ASSUME NEW items, NEW count \in Nat, Len(items) = count, NEW V, NEW value \in [1 .. count -> V],
         \A i \in 1 .. count : Reads(StackReader, Encodings!WriteWitness(items[i]), value[i])
  PROVE  Reads([b \in Strings |-> Encodings!ReadMany(Encodings!ReadWitness, count, b)],
               Encodings!Concat(Encodings!WriteWitness, items), value)
<1> DEFINE text == [i \in 1 .. count |-> Encodings!WriteWitness(items[i])]
           many == [b \in Strings |-> Encodings!ReadMany(Encodings!ReadWitness, count, b)]
           Loops(f, b) == /\ IsLoop(3, f, count, b)
                          /\ Encodings!ReadMany(Encodings!ReadWitness, count, b) = f[count]
           loops == [b \in Strings |-> CHOOSE f : Loops(f, b)]
<1>1. Items(3) = StackReader
  <2>1. \A b : ReadItem(3, b) = Encodings!ReadWitness(b)
    BY DEF ReadItem
  <2> QED
    BY <2>1, Zenon DEF Items, StackReader
<1>2. \A i \in 1 .. count : Reads(Items(3), text[i], value[i])
  BY <1>1
<1>3. \A i \in 1 .. count : text[i] \in Strings
  BY <1>2 DEF Reads
<1>4. text \in [1 .. count -> Strings]
  BY <1>3
<1>5. \A i \in 1 .. count : text[i] = Encodings!WriteWitness(items[i])
  OBVIOUS
<1> HIDE DEF text
<1>6. PICK cat : Concats(cat, text, count)
      /\ Encodings!Concat(Encodings!WriteWitness, items) = cat[count]
  BY <1>4, <1>5, StacksAreJoined
<1> HIDE DEF Loops
<1>7. \A b \in Strings : Loops(loops[b], b)
  <2>1. ASSUME NEW b \in Strings PROVE Loops(CHOOSE f : Loops(f, b), b)
    <3>1. \E f : Loops(f, b)
      BY StacksAreLooped, Zenon DEF Loops
    <3> QED
      BY <3>1, Zenon
  <2> QED
    BY <2>1, Zenon
<1> HIDE DEF loops
<1>8. EachIsLoop(3, loops, count) /\ EachIsRead(3, text, value, count)
  BY <1>2, <1>7 DEF Loops, EachIsLoop, EachIsRead
<1>9. Reads(LoopReader(loops, count), cat[count], value)
  BY <1>6, <1>8, LoopReads
<1>10. \A b \in Strings : Encodings!ReadMany(Encodings!ReadWitness, count, b) = loops[b][count]
  BY <1>7, Zenon DEF Loops
<1>11. many = LoopReader(loops, count)
  BY <1>10, Zenon DEF LoopReader
<1> HIDE DEF many
<1>12. Reads(many, Encodings!Concat(Encodings!WriteWitness, items), value)
  BY <1>6, <1>9, <1>11
<1> QED
  BY <1>12 DEF many

LEMMA StringsAreCounted ==
  ASSUME ByteAssumption, NEW p, EncodingPowers(p), NEW count \in Nat, count < p[8], NEW text, NEW v,
         Reads([b \in Strings |-> Encodings!ReadMany(Encodings!ReadVarBytes, count, b)], text, v)
  PROVE  Reads([b \in Strings |-> Encodings!ReadCounted(Encodings!ReadVarBytes, b)],
               Encodings!Encode(count) \o text, v)
<1> DEFINE many == [b \in Strings |-> Encodings!ReadMany(Encodings!ReadVarBytes, count, b)]
           whole == [b \in Strings |-> Encodings!ReadCounted(Encodings!ReadVarBytes, b)]
<1>1. Reads(Varints, Encodings!Encode(count), count)
  BY VarintIsRead
<1>2. ASSUME NEW b \in Strings, Varints[b] = End PROVE whole[b] = End
  <2>1. Encodings!ReadVarint(b) = End
    BY <1>2 DEF Varints
  <2>2. \A next : Encodings!AndThen(Encodings!ReadVarint(b), next) = End
    BY <2>1, EndFacts
  <2>3. Encodings!ReadCounted(Encodings!ReadVarBytes, b) = End
    BY <2>2, Zenon DEF Encodings!ReadCounted
  <2> QED
    BY <2>3
<1>3. ASSUME NEW b \in Strings, NEW rest \in Strings, IsRead(Varints[b], count, rest)
      PROVE  whole[b] = many[rest]
  <2> DEFINE read == Encodings!ReadVarint(b)
  <2>1. IsRead(read, count, rest)
    BY <1>3 DEF Varints
  <2>2. read.value = count /\ read.rest = rest /\ \A next : Encodings!AndThen(read, next) = next
    BY <2>1, GoesOn
  <2>3. Encodings!ReadCounted(Encodings!ReadVarBytes, b)
          = Encodings!ReadMany(Encodings!ReadVarBytes, read.value, read.rest)
    BY <2>2, Zenon DEF Encodings!ReadCounted
  <2>4. Encodings!ReadCounted(Encodings!ReadVarBytes, b)
          = Encodings!ReadMany(Encodings!ReadVarBytes, count, rest)
    BY <2>2, <2>3, Zenon
  <2> QED
    BY <2>4
<1> HIDE DEF whole, many
<1>4. Chains(Varints, count, many, whole)
  BY <1>2, <1>3, Zenon DEF Chains
<1>5. Reads(many, text, v)
  BY DEF many
<1>6. Reads(whole, Encodings!Encode(count) \o text, v)
  BY <1>1, <1>4, <1>5, InTurn
<1> QED
  BY <1>6 DEF whole

LEMMA OutputsAreCounted ==
  ASSUME ByteAssumption, NEW p, EncodingPowers(p), NEW count \in Nat, count < p[8], NEW text, NEW v,
         Reads([b \in Strings |-> Encodings!ReadMany(Encodings!ReadOutput, count, b)], text, v)
  PROVE  Reads([b \in Strings |-> Encodings!ReadCounted(Encodings!ReadOutput, b)],
               Encodings!Encode(count) \o text, v)
<1> DEFINE many == [b \in Strings |-> Encodings!ReadMany(Encodings!ReadOutput, count, b)]
           whole == [b \in Strings |-> Encodings!ReadCounted(Encodings!ReadOutput, b)]
<1>1. Reads(Varints, Encodings!Encode(count), count)
  BY VarintIsRead
<1>2. ASSUME NEW b \in Strings, Varints[b] = End PROVE whole[b] = End
  <2>1. Encodings!ReadVarint(b) = End
    BY <1>2 DEF Varints
  <2>2. \A next : Encodings!AndThen(Encodings!ReadVarint(b), next) = End
    BY <2>1, EndFacts
  <2>3. Encodings!ReadCounted(Encodings!ReadOutput, b) = End
    BY <2>2, Zenon DEF Encodings!ReadCounted
  <2> QED
    BY <2>3
<1>3. ASSUME NEW b \in Strings, NEW rest \in Strings, IsRead(Varints[b], count, rest)
      PROVE  whole[b] = many[rest]
  <2> DEFINE read == Encodings!ReadVarint(b)
  <2>1. IsRead(read, count, rest)
    BY <1>3 DEF Varints
  <2>2. read.value = count /\ read.rest = rest /\ \A next : Encodings!AndThen(read, next) = next
    BY <2>1, GoesOn
  <2>3. Encodings!ReadCounted(Encodings!ReadOutput, b)
          = Encodings!ReadMany(Encodings!ReadOutput, read.value, read.rest)
    BY <2>2, Zenon DEF Encodings!ReadCounted
  <2>4. Encodings!ReadCounted(Encodings!ReadOutput, b)
          = Encodings!ReadMany(Encodings!ReadOutput, count, rest)
    BY <2>2, <2>3, Zenon
  <2> QED
    BY <2>4
<1> HIDE DEF whole, many
<1>4. Chains(Varints, count, many, whole)
  BY <1>2, <1>3, Zenon DEF Chains
<1>5. Reads(many, text, v)
  BY DEF many
<1>6. Reads(whole, Encodings!Encode(count) \o text, v)
  BY <1>1, <1>4, <1>5, InTurn
<1> QED
  BY <1>6 DEF whole

-----------------------------------------------------------------------------
(* Each part of a transaction is read before the next one.                 *)

-----------------------------------------------------------------------------
(* A transaction, part by part: each is read behind the one before it.      *)

\* The loops over the inputs, the stacks and the outputs, and the whole, as readers.
ManyInputs(count) == [b \in Strings |-> Encodings!ReadMany(Encodings!ReadInput, count, b)]
ManyStacks(count) == [b \in Strings |-> Encodings!ReadMany(Encodings!ReadWitness, count, b)]
CountedOutputs == [b \in Strings |-> Encodings!ReadCounted(Encodings!ReadOutput, b)]
Deserializer == [b \in Strings |-> Encodings!Deserialize(b)]

LEMMA LockTimeIsLast ==
  ASSUME NEW version, NEW inputs, NEW outputs, NEW stacks, NEW lock_time
  PROVE  Chains(Fields, lock_time,
                Already(Encodings!TransactionOf(version, inputs, outputs, stacks, lock_time)),
                  [b \in Strings |-> Encodings!LockTimeEnd(version, inputs, outputs, stacks, b)])
<1>1. ASSUME NEW b \in Strings, Fields[b] = End
      PROVE  Encodings!LockTimeEnd(version, inputs, outputs, stacks, b) = End
  <2>1. Encodings!ReadField(b) = End
    BY <1>1 DEF Fields
  <2>2. \A next : Encodings!AndThen(Encodings!ReadField(b), next) = End
    BY <2>1, EndFacts
  <2> QED
    BY <2>2, Zenon DEF Encodings!LockTimeEnd
<1>2. ASSUME NEW b \in Strings, NEW rest \in Strings, IsRead(Fields[b], lock_time, rest)
      PROVE  Encodings!LockTimeEnd(version, inputs, outputs, stacks, b)
               = Encodings!Read(Encodings!TransactionOf(version, inputs, outputs, stacks, lock_time),
                                rest)
  <2> DEFINE read == Encodings!ReadField(b)
  <2>1. IsRead(read, lock_time, rest)
    BY <1>2 DEF Fields
  <2>2. read.value = lock_time /\ read.rest = rest /\ \A next : Encodings!AndThen(read, next) = next
    BY <2>1, GoesOn
  <2> QED
    BY <2>2, Zenon DEF Encodings!LockTimeEnd
<1>3. ASSUME NEW b \in Strings
      PROVE  [x \in Strings |-> Encodings!LockTimeEnd(version, inputs, outputs, stacks, x)][b]
               = Encodings!LockTimeEnd(version, inputs, outputs, stacks, b)
  OBVIOUS
<1>4. ASSUME NEW rest \in Strings
      PROVE  Already(Encodings!TransactionOf(version, inputs, outputs, stacks, lock_time))[rest]
               = Encodings!Read(Encodings!TransactionOf(version, inputs, outputs, stacks, lock_time),
                                rest)
  BY DEF Already
<1> QED
  BY <1>1, <1>2, <1>3, <1>4, Zenon DEF Chains

LEMMA StacksBeforeLockTime ==
  ASSUME NEW version, NEW inputs, NEW outputs, NEW stacks
  PROVE  Chains(ManyStacks(Len(inputs)), stacks,
                [b \in Strings |-> Encodings!LockTimeEnd(version, inputs, outputs, stacks, b)],
                  [b \in Strings |-> Encodings!StacksEnd(version, 0, inputs, outputs, b)])
<1>1. ASSUME NEW b \in Strings, ManyStacks(Len(inputs))[b] = End
      PROVE  Encodings!StacksEnd(version, 0, inputs, outputs, b) = End
  <2>1. Encodings!ReadMany(Encodings!ReadWitness, Len(inputs), b) = End
    BY <1>1 DEF ManyStacks
  <2>2. \A next : Encodings!AndThen(Encodings!ReadMany(Encodings!ReadWitness, Len(inputs), b), next)
          = End
    BY <2>1, EndFacts
  <2> QED
    BY <2>2, Zenon DEF Encodings!StacksEnd, Encodings!StacksOf
<1>2. ASSUME NEW b \in Strings, NEW rest \in Strings, IsRead(ManyStacks(Len(inputs))[b], stacks, rest)
      PROVE  Encodings!StacksEnd(version, 0, inputs, outputs, b)
               = Encodings!LockTimeEnd(version, inputs, outputs, stacks, rest)
  <2> DEFINE read == Encodings!ReadMany(Encodings!ReadWitness, Len(inputs), b)
  <2>1. IsRead(read, stacks, rest)
    BY <1>2 DEF ManyStacks
  <2>2. read.value = stacks /\ read.rest = rest /\ \A next : Encodings!AndThen(read, next) = next
    BY <2>1, GoesOn
  <2> QED
    BY <2>2, Zenon DEF Encodings!StacksEnd, Encodings!StacksOf
<1>3. ASSUME NEW b \in Strings
      PROVE  [x \in Strings |-> Encodings!StacksEnd(version, 0, inputs, outputs, x)][b]
               = Encodings!StacksEnd(version, 0, inputs, outputs, b)
  OBVIOUS
<1>4. ASSUME NEW rest \in Strings
      PROVE  [b \in Strings |-> Encodings!LockTimeEnd(version, inputs, outputs, stacks, b)][rest]
               = Encodings!LockTimeEnd(version, inputs, outputs, stacks, rest)
  BY DEF Already
<1> QED
  BY <1>1, <1>2, <1>3, <1>4, Zenon DEF Chains

LEMMA OutputsBeforeStacks ==
  ASSUME NEW version, NEW marker, NEW inputs, NEW outputs
  PROVE  Chains(CountedOutputs, outputs,
                [b \in Strings |-> Encodings!StacksEnd(version, marker, inputs, outputs, b)],
                  [b \in Strings |-> Encodings!OutputsEnd(version, marker, inputs, b)])
<1>1. ASSUME NEW b \in Strings, CountedOutputs[b] = End
      PROVE  Encodings!OutputsEnd(version, marker, inputs, b) = End
  <2>1. Encodings!ReadCounted(Encodings!ReadOutput, b) = End
    BY <1>1 DEF CountedOutputs
  <2>2. \A next : Encodings!AndThen(Encodings!ReadCounted(Encodings!ReadOutput, b), next) = End
    BY <2>1, EndFacts
  <2> QED
    BY <2>2, Zenon DEF Encodings!OutputsEnd
<1>2. ASSUME NEW b \in Strings, NEW rest \in Strings, IsRead(CountedOutputs[b], outputs, rest)
      PROVE  Encodings!OutputsEnd(version, marker, inputs, b)
               = Encodings!StacksEnd(version, marker, inputs, outputs, rest)
  <2> DEFINE read == Encodings!ReadCounted(Encodings!ReadOutput, b)
  <2>1. IsRead(read, outputs, rest)
    BY <1>2 DEF CountedOutputs
  <2>2. read.value = outputs /\ read.rest = rest /\ \A next : Encodings!AndThen(read, next) = next
    BY <2>1, GoesOn
  <2> QED
    BY <2>2, Zenon DEF Encodings!OutputsEnd
<1>3. ASSUME NEW b \in Strings
      PROVE  [x \in Strings |-> Encodings!OutputsEnd(version, marker, inputs, x)][b]
               = Encodings!OutputsEnd(version, marker, inputs, b)
  OBVIOUS
<1>4. ASSUME NEW rest \in Strings
      PROVE  [b \in Strings |-> Encodings!StacksEnd(version, marker, inputs, outputs, b)][rest]
               = Encodings!StacksEnd(version, marker, inputs, outputs, rest)
  BY DEF Already
<1> QED
  BY <1>1, <1>2, <1>3, <1>4, Zenon DEF Chains

LEMMA InputsBeforeOutputs ==
  ASSUME NEW version, NEW marker, NEW inputs, NEW count
  PROVE  Chains(ManyInputs(count), inputs,
                [b \in Strings |-> Encodings!OutputsEnd(version, marker, inputs, b)],
                  [b \in Strings |-> Encodings!InputsEnd(version, marker, count, b)])
<1>1. ASSUME NEW b \in Strings, ManyInputs(count)[b] = End
      PROVE  Encodings!InputsEnd(version, marker, count, b) = End
  <2>1. Encodings!ReadMany(Encodings!ReadInput, count, b) = End
    BY <1>1 DEF ManyInputs
  <2>2. \A next : Encodings!AndThen(Encodings!ReadMany(Encodings!ReadInput, count, b), next) = End
    BY <2>1, EndFacts
  <2> QED
    BY <2>2, Zenon DEF Encodings!InputsEnd
<1>2. ASSUME NEW b \in Strings, NEW rest \in Strings, IsRead(ManyInputs(count)[b], inputs, rest)
      PROVE  Encodings!InputsEnd(version, marker, count, b)
               = Encodings!OutputsEnd(version, marker, inputs, rest)
  <2> DEFINE read == Encodings!ReadMany(Encodings!ReadInput, count, b)
  <2>1. IsRead(read, inputs, rest)
    BY <1>2 DEF ManyInputs
  <2>2. read.value = inputs /\ read.rest = rest /\ \A next : Encodings!AndThen(read, next) = next
    BY <2>1, GoesOn
  <2> QED
    BY <2>2, Zenon DEF Encodings!InputsEnd
<1>3. ASSUME NEW b \in Strings
      PROVE  [x \in Strings |-> Encodings!InputsEnd(version, marker, count, x)][b]
               = Encodings!InputsEnd(version, marker, count, b)
  OBVIOUS
<1>4. ASSUME NEW rest \in Strings
      PROVE  [b \in Strings |-> Encodings!OutputsEnd(version, marker, inputs, b)][rest]
               = Encodings!OutputsEnd(version, marker, inputs, rest)
  BY DEF Already
<1> QED
  BY <1>1, <1>2, <1>3, <1>4, Zenon DEF Chains

LEMMA CountBeforeInputs ==
  ASSUME NEW version, NEW count
  PROVE  Chains(Varints, count, [b \in Strings |-> Encodings!InputsEnd(version, 0, count, b)],
                [b \in Strings |-> Encodings!CountEnd(version, b)])
<1>1. ASSUME NEW b \in Strings, Varints[b] = End PROVE Encodings!CountEnd(version, b) = End
  <2>1. Encodings!ReadVarint(b) = End
    BY <1>1 DEF Varints
  <2>2. \A next : Encodings!AndThen(Encodings!ReadVarint(b), next) = End
    BY <2>1, EndFacts
  <2> QED
    BY <2>2, Zenon DEF Encodings!CountEnd
<1>2. ASSUME NEW b \in Strings, NEW rest \in Strings, IsRead(Varints[b], count, rest)
      PROVE  Encodings!CountEnd(version, b) = Encodings!InputsEnd(version, 0, count, rest)
  <2> DEFINE read == Encodings!ReadVarint(b)
  <2>1. IsRead(read, count, rest)
    BY <1>2 DEF Varints
  <2>2. read.value = count /\ read.rest = rest /\ \A next : Encodings!AndThen(read, next) = next
    BY <2>1, GoesOn
  <2> QED
    BY <2>2, Zenon DEF Encodings!CountEnd
<1>3. ASSUME NEW b \in Strings
      PROVE  [x \in Strings |-> Encodings!CountEnd(version, x)][b] = Encodings!CountEnd(version, b)
  OBVIOUS
<1>4. ASSUME NEW rest \in Strings
      PROVE  [b \in Strings |-> Encodings!InputsEnd(version, 0, count, b)][rest]
               = Encodings!InputsEnd(version, 0, count, rest)
  BY DEF Already
<1> QED
  BY <1>1, <1>2, <1>3, <1>4, Zenon DEF Chains

LEMMA FlagBeforeCount ==
  ASSUME NEW version, NEW flag
  PROVE  Chains(TakeBytes(1), flag, [b \in Strings |-> Encodings!CountEnd(version, b)],
                [b \in Strings |-> Encodings!FlagEnd(version, b)])
<1>1. ASSUME NEW b \in Strings, TakeBytes(1)[b] = End PROVE Encodings!FlagEnd(version, b) = End
  <2>1. Encodings!ReadBytes(1, b) = End
    BY <1>1 DEF TakeBytes
  <2>2. \A next : Encodings!AndThen(Encodings!ReadBytes(1, b), next) = End
    BY <2>1, EndFacts
  <2> QED
    BY <2>2, Zenon DEF Encodings!FlagEnd
<1>2. ASSUME NEW b \in Strings, NEW rest \in Strings, IsRead(TakeBytes(1)[b], flag, rest)
      PROVE  Encodings!FlagEnd(version, b) = Encodings!CountEnd(version, rest)
  <2> DEFINE read == Encodings!ReadBytes(1, b)
  <2>1. IsRead(read, flag, rest)
    BY <1>2 DEF TakeBytes
  <2>2. read.value = flag /\ read.rest = rest /\ \A next : Encodings!AndThen(read, next) = next
    BY <2>1, GoesOn
  <2> QED
    BY <2>2, Zenon DEF Encodings!FlagEnd
<1>3. ASSUME NEW b \in Strings
      PROVE  [x \in Strings |-> Encodings!FlagEnd(version, x)][b] = Encodings!FlagEnd(version, b)
  OBVIOUS
<1>4. ASSUME NEW rest \in Strings
      PROVE  [b \in Strings |-> Encodings!CountEnd(version, b)][rest]
               = Encodings!CountEnd(version, rest)
  BY DEF Already
<1> QED
  BY <1>1, <1>2, <1>3, <1>4, Zenon DEF Chains

LEMMA MarkerBeforeFlag ==
  ASSUME NEW version
  PROVE  Chains(Varints, 0, [b \in Strings |-> Encodings!FlagEnd(version, b)],
                [b \in Strings |-> Encodings!MarkerEnd(version, b)])
<1>1. ASSUME NEW b \in Strings, Varints[b] = End PROVE Encodings!MarkerEnd(version, b) = End
  <2>1. Encodings!ReadVarint(b) = End
    BY <1>1 DEF Varints
  <2>2. \A next : Encodings!AndThen(Encodings!ReadVarint(b), next) = End
    BY <2>1, EndFacts
  <2> DEFINE after == IF Encodings!ReadVarint(b).value = 0
                      THEN Encodings!FlagEnd(version, Encodings!ReadVarint(b).rest)
                      ELSE Encodings!InputsEnd(version, Encodings!ReadVarint(b).value,
                                               Encodings!ReadVarint(b).value,
                                     Encodings!ReadVarint(b).rest)
  <2>3. Encodings!MarkerEnd(version, b) = Encodings!AndThen(Encodings!ReadVarint(b), after)
    BY Zenon DEF Encodings!MarkerEnd
  <2> HIDE DEF after
  <2> QED
    BY <2>2, <2>3, Zenon
<1>2. ASSUME NEW b \in Strings, NEW rest \in Strings, IsRead(Varints[b], 0, rest)
      PROVE  Encodings!MarkerEnd(version, b) = Encodings!FlagEnd(version, rest)
  <2> DEFINE read == Encodings!ReadVarint(b)
  <2>1. IsRead(read, 0, rest)
    BY <1>2 DEF Varints
  <2>2. read.value = 0 /\ read.rest = rest /\ \A next : Encodings!AndThen(read, next) = next
    BY <2>1, GoesOn
  <2> QED
    BY <2>2, Zenon DEF Encodings!MarkerEnd
<1>3. ASSUME NEW b \in Strings
      PROVE  [x \in Strings |-> Encodings!MarkerEnd(version, x)][b] = Encodings!MarkerEnd(version, b)
  OBVIOUS
<1>4. ASSUME NEW rest \in Strings
      PROVE  [b \in Strings |-> Encodings!FlagEnd(version, b)][rest] = Encodings!FlagEnd(version, rest)
  BY DEF Already
<1> QED
  BY <1>1, <1>2, <1>3, <1>4, Zenon DEF Chains

LEMMA NoMarkerBeforeInputs ==
  ASSUME NEW version, NEW count, count # 0
  PROVE  Chains(Varints, count, [b \in Strings |-> Encodings!InputsEnd(version, count, count, b)],
                [b \in Strings |-> Encodings!MarkerEnd(version, b)])
<1>1. ASSUME NEW b \in Strings, Varints[b] = End PROVE Encodings!MarkerEnd(version, b) = End
  <2>1. Encodings!ReadVarint(b) = End
    BY <1>1 DEF Varints
  <2>2. \A next : Encodings!AndThen(Encodings!ReadVarint(b), next) = End
    BY <2>1, EndFacts
  <2> DEFINE after == IF Encodings!ReadVarint(b).value = 0
                      THEN Encodings!FlagEnd(version, Encodings!ReadVarint(b).rest)
                      ELSE Encodings!InputsEnd(version, Encodings!ReadVarint(b).value,
                                               Encodings!ReadVarint(b).value,
                                     Encodings!ReadVarint(b).rest)
  <2>3. Encodings!MarkerEnd(version, b) = Encodings!AndThen(Encodings!ReadVarint(b), after)
    BY Zenon DEF Encodings!MarkerEnd
  <2> HIDE DEF after
  <2> QED
    BY <2>2, <2>3, Zenon
<1>2. ASSUME NEW b \in Strings, NEW rest \in Strings, IsRead(Varints[b], count, rest)
      PROVE  Encodings!MarkerEnd(version, b) = Encodings!InputsEnd(version, count, count, rest)
  <2> DEFINE read == Encodings!ReadVarint(b)
  <2>1. IsRead(read, count, rest)
    BY <1>2 DEF Varints
  <2>2. read.value = count /\ read.rest = rest /\ \A next : Encodings!AndThen(read, next) = next
    BY <2>1, GoesOn
  <2> QED
    BY <2>2, Zenon DEF Encodings!MarkerEnd
<1>3. ASSUME NEW b \in Strings
      PROVE  [x \in Strings |-> Encodings!MarkerEnd(version, x)][b] = Encodings!MarkerEnd(version, b)
  OBVIOUS
<1>4. ASSUME NEW rest \in Strings
      PROVE  [b \in Strings |-> Encodings!InputsEnd(version, count, count, b)][rest]
               = Encodings!InputsEnd(version, count, count, rest)
  BY DEF Already
<1> QED
  BY <1>1, <1>2, <1>3, <1>4, Zenon DEF Chains

LEMMA VersionFirst ==
  ASSUME NEW version
  PROVE  Chains(Fields, version, [b \in Strings |-> Encodings!MarkerEnd(version, b)], Deserializer)
<1>1. ASSUME NEW b \in Strings, Fields[b] = End PROVE Deserializer[b] = End
  <2>1. Encodings!ReadField(b) = End
    BY <1>1 DEF Fields
  <2>2. \A next : Encodings!AndThen(Encodings!ReadField(b), next) = End
    BY <2>1, EndFacts
  <2>3. Encodings!Deserialize(b) = End
    BY <2>2, Zenon DEF Encodings!Deserialize
  <2> QED
    BY <2>3 DEF Deserializer
<1>2. ASSUME NEW b \in Strings, NEW rest \in Strings, IsRead(Fields[b], version, rest)
      PROVE  Deserializer[b] = Encodings!MarkerEnd(version, rest)
  <2> DEFINE read == Encodings!ReadField(b)
  <2>1. IsRead(read, version, rest)
    BY <1>2 DEF Fields
  <2>2. read.value = version /\ read.rest = rest /\ \A next : Encodings!AndThen(read, next) = next
    BY <2>1, GoesOn
  <2>3. Encodings!Deserialize(b) = Encodings!MarkerEnd(version, rest)
    BY <2>2, Zenon DEF Encodings!Deserialize
  <2> QED
    BY <2>3 DEF Deserializer
<1> QED
  BY <1>1, <1>2 DEF Chains

-----------------------------------------------------------------------------
(* The parts of a transaction, each read back from what is written of it.   *)

LEMMA InputIsRead ==
  ASSUME ByteAssumption, NEW p, EncodingPowers(p), NEW txin \in Encodings!TxIn,
         Len(txin.script_sig) < p[8]
  PROVE  Reads(InputReader, Encodings!WriteInput(txin),
               InputOf(txin.previous_output, txin.script_sig, txin.sequence))
<1>1. txin.previous_output \in Nat /\ txin.script_sig \in Strings /\ txin.sequence \in Nat
  BY DEF Encodings!TxIn, Strings
<1>2. Reads(InputReader,
            (<<txin.previous_output>> \o Encodings!VarBytes(txin.script_sig)) \o <<txin.sequence>>,
            InputOf(txin.previous_output, txin.script_sig, txin.sequence))
  BY <1>1, InputReads
<1> QED
  BY <1>2 DEF Encodings!WriteInput

LEMMA OutputIsRead ==
  ASSUME ByteAssumption, NEW p, EncodingPowers(p), NEW output \in Encodings!TxOut,
         Len(output.script_pubkey) < p[8]
  PROVE  Reads(OutputReader, Encodings!WriteOutput(output), output)
<1>1. output.value \in Nat /\ output.script_pubkey \in Strings
      /\ output = OutputOf(output.value, output.script_pubkey)
  BY DEF Encodings!TxOut, Strings, OutputOf
<1>2. Reads(OutputReader, <<output.value>> \o Encodings!VarBytes(output.script_pubkey),
            OutputOf(output.value, output.script_pubkey))
  BY <1>1, OutputReads
<1> QED
  BY <1>1, <1>2 DEF Encodings!WriteOutput

LEMMA StackIsRead ==
  ASSUME ByteAssumption, NEW p, EncodingPowers(p), NEW stack \in Seq(Strings), Len(stack) < p[8],
         \A j \in 1 .. Len(stack) : Len(stack[j]) < p[8]
  PROVE  Reads(StackReader, Encodings!Counted(Encodings!VarBytes, stack), stack)
<1> DEFINE count == Len(stack)
           many == [b \in Strings |-> Encodings!ReadMany(Encodings!ReadVarBytes, count, b)]
<1>1. count \in Nat /\ stack \in [1 .. count -> Strings]
  OBVIOUS
<1>2. ASSUME NEW j \in 1 .. count PROVE Reads(VarByteStrings, Encodings!VarBytes(stack[j]), stack[j])
  <2>1. stack[j] \in Strings
    BY <1>1
  <2>2. Reads([b \in Strings |-> Encodings!ReadVarBytes(b)], Encodings!VarBytes(stack[j]), stack[j])
    BY <2>1, VarBytesReads
  <2> QED
    BY <2>2 DEF VarByteStrings
<1>3. Reads(many, Encodings!Concat(Encodings!VarBytes, stack), stack)
  BY <1>1, <1>2, StringsAreRead
<1>4. Reads([b \in Strings |-> Encodings!ReadCounted(Encodings!ReadVarBytes, b)],
            Encodings!Encode(count) \o Encodings!Concat(Encodings!VarBytes, stack), stack)
  BY <1>1, <1>3, StringsAreCounted
<1> QED
  BY <1>4 DEF StackReader, Encodings!ReadWitness, Encodings!Counted

-----------------------------------------------------------------------------
(* A transaction that can be written: what its parts read as.               *)

\* The inputs of a transaction as they are read before their stacks, and the stacks.
Bare(tx) ==
  [i \in 1 .. Len(tx.inputs) |->
     InputOf(tx.inputs[i].previous_output, tx.inputs[i].script_sig, tx.inputs[i].sequence)]
Witnesses(tx) == [i \in 1 .. Len(tx.inputs) |-> tx.inputs[i].witness]

LEMMA TransactionFacts ==
  ASSUME NEW p, EncodingPowers(p), NEW tx, Encodings!IsTransaction(tx)
  PROVE  /\ tx \in Encodings!Transaction
         /\ tx.version \in Nat /\ tx.lock_time \in Nat
         /\ tx.inputs \in Seq(Encodings!TxIn) /\ tx.outputs \in Seq(Encodings!TxOut)
         /\ Len(tx.inputs) \in Nat \ {0} /\ Len(tx.outputs) \in Nat
         /\ Len(tx.inputs) < p[8] /\ Len(tx.outputs) < p[8]
         /\ DOMAIN tx.inputs = 1 .. Len(tx.inputs) /\ DOMAIN tx.outputs = 1 .. Len(tx.outputs)
<1>1. tx \in Encodings!Transaction /\ tx.inputs # <<>>
      /\ Len(tx.inputs) < Encodings!Power(8) /\ Len(tx.outputs) < Encodings!Power(8)
  BY Zenon DEF Encodings!IsTransaction, Encodings!IsCountable
<1>2. Encodings!Power(8) = p[8]
  BY DEF EncodingPowers
<1>3. /\ tx.version \in Nat /\ tx.lock_time \in Nat
      /\ tx.inputs \in Seq(Encodings!TxIn) /\ tx.outputs \in Seq(Encodings!TxOut)
  BY <1>1 DEF Encodings!Transaction
<1>4. Len(tx.inputs) \in Nat \ {0} /\ Len(tx.outputs) \in Nat
  BY <1>1, <1>3, EmptySeq
<1>5. DOMAIN tx.inputs = 1 .. Len(tx.inputs) /\ DOMAIN tx.outputs = 1 .. Len(tx.outputs)
  BY <1>3
<1> QED
  BY <1>1, <1>2, <1>3, <1>4, <1>5

LEMMA TxInFacts ==
  ASSUME NEW p, EncodingPowers(p), NEW tx, Encodings!IsTransaction(tx), NEW i \in 1 .. Len(tx.inputs)
  PROVE  /\ tx.inputs[i] \in Encodings!TxIn
         /\ Len(tx.inputs[i].script_sig) < p[8] /\ Len(tx.inputs[i].witness) < p[8]
         /\ tx.inputs[i].witness \in Seq(Strings)
         /\ \A j \in 1 .. Len(tx.inputs[i].witness) : Len(tx.inputs[i].witness[j]) < p[8]
<1>1. i \in DOMAIN tx.inputs /\ tx.inputs[i] \in Encodings!TxIn
  BY TransactionFacts
<1>2. /\ Len(tx.inputs[i].script_sig) < Encodings!Power(8)
      /\ Len(tx.inputs[i].witness) < Encodings!Power(8)
      /\ \A j \in DOMAIN tx.inputs[i].witness : Len(tx.inputs[i].witness[j]) < Encodings!Power(8)
  BY <1>1, Zenon DEF Encodings!IsTransaction, Encodings!IsCountable
<1>3. Encodings!Power(8) = p[8]
  BY DEF EncodingPowers
<1>4. tx.inputs[i].witness \in Seq(Strings)
  BY <1>1 DEF Encodings!TxIn, Strings
<1>5. DOMAIN tx.inputs[i].witness = 1 .. Len(tx.inputs[i].witness)
  BY <1>4
<1> QED
  BY <1>1, <1>2, <1>3, <1>4, <1>5

LEMMA TxOutFacts ==
  ASSUME NEW p, EncodingPowers(p), NEW tx, Encodings!IsTransaction(tx), NEW i \in 1 .. Len(tx.outputs)
  PROVE  tx.outputs[i] \in Encodings!TxOut /\ Len(tx.outputs[i].script_pubkey) < p[8]
<1>1. i \in DOMAIN tx.outputs /\ tx.outputs[i] \in Encodings!TxOut
  BY TransactionFacts
<1>2. Len(tx.outputs[i].script_pubkey) < Encodings!Power(8)
  BY <1>1, Zenon DEF Encodings!IsTransaction, Encodings!IsCountable
<1>3. Encodings!Power(8) = p[8]
  BY DEF EncodingPowers
<1> QED
  BY <1>1, <1>2, <1>3

LEMMA PartsAreRead ==
  ASSUME ByteAssumption, NEW p, EncodingPowers(p), NEW tx, Encodings!IsTransaction(tx)
  PROVE  /\ Reads(ManyInputs(Len(tx.inputs)), Encodings!Concat(Encodings!WriteInput, tx.inputs),
                  Bare(tx))
         /\ Reads(CountedOutputs, Encodings!Counted(Encodings!WriteOutput, tx.outputs), tx.outputs)
         /\ Reads(ManyStacks(Len(tx.inputs)), Encodings!Concat(Encodings!WriteWitness, tx.inputs),
                  Witnesses(tx))
<1>1. Len(tx.inputs) \in Nat /\ Len(tx.outputs) \in Nat /\ Len(tx.outputs) < p[8]
      /\ tx.outputs \in [1 .. Len(tx.outputs) -> Encodings!TxOut]
  BY TransactionFacts
<1>2. Reads(ManyInputs(Len(tx.inputs)), Encodings!Concat(Encodings!WriteInput, tx.inputs), Bare(tx))
  <2> DEFINE count == Len(tx.inputs)
             V == {Bare(tx)[i] : i \in 1 .. Len(tx.inputs)}
  <2>1. Bare(tx) \in [1 .. count -> V]
    BY DEF Bare
  <2>2. ASSUME NEW i \in 1 .. count
        PROVE  Reads(InputReader, Encodings!WriteInput(tx.inputs[i]), Bare(tx)[i])
    <3>1. tx.inputs[i] \in Encodings!TxIn /\ Len(tx.inputs[i].script_sig) < p[8]
      BY TxInFacts
    <3>2. Bare(tx)[i]
            = InputOf(tx.inputs[i].previous_output, tx.inputs[i].script_sig, tx.inputs[i].sequence)
      BY DEF Bare
    <3> QED
      BY <3>1, <3>2, InputIsRead
  <2> HIDE DEF V
  <2>3. Reads([b \in Strings |-> Encodings!ReadMany(Encodings!ReadInput, count, b)],
              Encodings!Concat(Encodings!WriteInput, tx.inputs), Bare(tx))
    BY <1>1, <2>1, <2>2, InputsAreRead
  <2> QED
    BY <2>3 DEF ManyInputs
<1>3. Reads(CountedOutputs, Encodings!Counted(Encodings!WriteOutput, tx.outputs), tx.outputs)
  <2> DEFINE count == Len(tx.outputs)
             many == [b \in Strings |-> Encodings!ReadMany(Encodings!ReadOutput, count, b)]
  <2>1. ASSUME NEW i \in 1 .. count
        PROVE  Reads(OutputReader, Encodings!WriteOutput(tx.outputs[i]), tx.outputs[i])
    BY TxOutFacts, OutputIsRead
  <2>2. Reads(many, Encodings!Concat(Encodings!WriteOutput, tx.outputs), tx.outputs)
    BY <1>1, <2>1, OutputsAreRead
  <2>3. Reads([b \in Strings |-> Encodings!ReadCounted(Encodings!ReadOutput, b)],
              Encodings!Encode(count) \o Encodings!Concat(Encodings!WriteOutput, tx.outputs),
                tx.outputs)
    BY <1>1, <2>2, OutputsAreCounted
  <2> QED
    BY <2>3 DEF CountedOutputs, Encodings!Counted
<1>4. Reads(ManyStacks(Len(tx.inputs)), Encodings!Concat(Encodings!WriteWitness, tx.inputs),
            Witnesses(tx))
  <2> DEFINE count == Len(tx.inputs)
  <2>1. Witnesses(tx) \in [1 .. count -> Seq(Strings)]
    BY TxInFacts DEF Witnesses
  <2>2. ASSUME NEW i \in 1 .. count
        PROVE  Reads(StackReader, Encodings!WriteWitness(tx.inputs[i]), Witnesses(tx)[i])
    <3> DEFINE stack == tx.inputs[i].witness
    <3>1. stack \in Seq(Strings) /\ Len(stack) < p[8] /\ \A j \in 1 .. Len(stack) : Len(stack[j]) < p[8]
      BY TxInFacts
    <3>2. Reads(StackReader, Encodings!Counted(Encodings!VarBytes, stack), stack)
      BY <3>1, StackIsRead
    <3>3. Witnesses(tx)[i] = stack
      BY DEF Witnesses
    <3> QED
      BY <3>2, <3>3 DEF Encodings!WriteWitness
  <2>3. Reads([b \in Strings |-> Encodings!ReadMany(Encodings!ReadWitness, count, b)],
              Encodings!Concat(Encodings!WriteWitness, tx.inputs), Witnesses(tx))
    BY <1>1, <2>1, <2>2, StacksAreRead
  <2> QED
    BY <2>3 DEF ManyStacks
<1> QED
  BY <1>2, <1>3, <1>4

-----------------------------------------------------------------------------
(* The whole of a transaction, in either format.                            *)

\* The text with the marker, the flag and the stacks, and the one without.
SegwitText(version, count, inputs, outputs, stacks, lock_time) ==
  <<version>> \o (<<0>> \o (<<1>> \o (Encodings!Encode(count)
    \o (inputs \o (outputs \o (stacks \o <<lock_time>>))))))

LegacyText(version, count, inputs, outputs, lock_time) ==
  <<version>> \o (Encodings!Encode(count) \o (inputs \o (outputs \o <<lock_time>>)))

LEMMA SegwitReads ==
  ASSUME ByteAssumption, NEW p, EncodingPowers(p),
         NEW version \in Nat, NEW lock_time \in Nat, NEW count \in Nat, count < p[8],
         NEW ins, NEW inputs, Reads(ManyInputs(count), ins, inputs), Len(inputs) = count,
         NEW outs, NEW outputs, Reads(CountedOutputs, outs, outputs),
         NEW wits, NEW stacks, Reads(ManyStacks(count), wits, stacks)
  PROVE  Reads(Deserializer, SegwitText(version, count, ins, outs, wits, lock_time),
               Encodings!TransactionOf(version, inputs, outputs, stacks, lock_time))
<1> DEFINE tx == Encodings!TransactionOf(version, inputs, outputs, stacks, lock_time)
           atLockTime == [b \in Strings |-> Encodings!LockTimeEnd(version, inputs, outputs, stacks, b)]
           atStacks == [b \in Strings |-> Encodings!StacksEnd(version, 0, inputs, outputs, b)]
           atOutputs == [b \in Strings |-> Encodings!OutputsEnd(version, 0, inputs, b)]
           atInputs == [b \in Strings |-> Encodings!InputsEnd(version, 0, count, b)]
           atCount == [b \in Strings |-> Encodings!CountEnd(version, b)]
           atFlag == [b \in Strings |-> Encodings!FlagEnd(version, b)]
           atMarker == [b \in Strings |-> Encodings!MarkerEnd(version, b)]
<1>1. /\ Chains(Fields, lock_time, Already(tx), atLockTime)
      /\ Chains(ManyStacks(count), stacks, atLockTime, atStacks)
      /\ Chains(CountedOutputs, outputs, atStacks, atOutputs)
      /\ Chains(ManyInputs(count), inputs, atOutputs, atInputs)
  BY LockTimeIsLast, StacksBeforeLockTime, OutputsBeforeStacks, InputsBeforeOutputs
<1>2. /\ Chains(Varints, count, atInputs, atCount)
      /\ Chains(TakeBytes(1), <<1>>, atCount, atFlag)
      /\ Chains(Varints, 0, atFlag, atMarker)
      /\ Chains(Fields, version, atMarker, Deserializer)
  BY CountBeforeInputs, FlagBeforeCount, MarkerBeforeFlag, VersionFirst
<1> HIDE DEF tx, atLockTime, atStacks, atOutputs, atInputs, atCount, atFlag, atMarker
<1>3. /\ Reads(Fields, <<version>>, version) /\ Reads(Fields, <<lock_time>>, lock_time)
  BY FieldReads
<1>4. Reads(Varints, Encodings!Encode(count), count)
  BY VarintIsRead
<1>5. Reads(Varints, <<0>>, 0)
  <2>1. Reads(Varints, Encodings!Encode(0), 0)
    BY VarintIsRead, FormFacts DEF ByteAssumption
  <2>2. Encodings!Encode(0) = <<0>>
    BY DEF Encodings!Encode, ByteAssumption
  <2> QED
    BY <2>1, <2>2
<1>6. Reads(TakeBytes(1), <<1>>, <<1>>)
  <2>1. <<1>> \in Strings /\ Len(<<1>>) = 1
    BY DEF Strings
  <2> QED
    BY <2>1, CountReads
<1>7. Reads(atLockTime, <<lock_time>>, tx)
  BY <1>1, <1>3, LastOfAll
<1>8. Reads(atStacks, wits \o <<lock_time>>, tx)
  BY <1>1, <1>7, InTurn
<1>9. Reads(atOutputs, outs \o (wits \o <<lock_time>>), tx)
  BY <1>1, <1>8, InTurn
<1>10. Reads(atInputs, ins \o (outs \o (wits \o <<lock_time>>)), tx)
  BY <1>1, <1>9, InTurn
<1>11. Reads(atCount, Encodings!Encode(count) \o (ins \o (outs \o (wits \o <<lock_time>>))), tx)
  BY <1>2, <1>4, <1>10, InTurn
<1>12. Reads(atFlag, <<1>>
         \o (Encodings!Encode(count) \o (ins \o (outs \o (wits \o <<lock_time>>)))), tx)
  BY <1>2, <1>6, <1>11, InTurn
<1>13. Reads(atMarker,
             <<0>> \o (<<1>>
               \o (Encodings!Encode(count) \o (ins \o (outs \o (wits \o <<lock_time>>))))), tx)
  BY <1>2, <1>5, <1>12, InTurn
<1>14. Reads(Deserializer, SegwitText(version, count, ins, outs, wits, lock_time), tx)
  BY <1>2, <1>3, <1>13, InTurn DEF SegwitText
<1> QED
  BY <1>14 DEF tx

LEMMA NoStacksToRead ==
  ASSUME NEW version, NEW marker, marker # 0, NEW inputs, NEW outputs, NEW b
  PROVE  Encodings!StacksEnd(version, marker, inputs, outputs, b)
           = Encodings!LockTimeEnd(version, inputs, outputs, [i \in DOMAIN inputs |-> <<>>], b)
<1> DEFINE none == [i \in DOMAIN inputs |-> <<>>]
           read == Encodings!StacksOf(marker, inputs, b)
<1>1. IsRead(read, none, b)
  BY DEF Encodings!StacksOf, IsRead
<1> HIDE DEF none
<1>2. read.value = none /\ read.rest = b /\ \A next : Encodings!AndThen(read, next) = next
  BY <1>1, GoesOn
<1>3. Encodings!StacksEnd(version, marker, inputs, outputs, b)
        = Encodings!LockTimeEnd(version, inputs, outputs, none, b)
  BY <1>2, Zenon DEF Encodings!StacksEnd
<1> QED
  BY <1>3 DEF none

LEMMA LegacyReads ==
  ASSUME ByteAssumption, NEW p, EncodingPowers(p),
         NEW version \in Nat, NEW lock_time \in Nat, NEW count \in Nat, count # 0, count < p[8],
         NEW ins, NEW inputs, Reads(ManyInputs(count), ins, inputs),
         NEW outs, NEW outputs, Reads(CountedOutputs, outs, outputs)
  PROVE  Reads(Deserializer, LegacyText(version, count, ins, outs, lock_time),
               Encodings!TransactionOf(version, inputs, outputs, [i \in DOMAIN inputs |-> <<>>],
                                       lock_time))
<1> DEFINE none == [i \in DOMAIN inputs |-> <<>>]
           tx == Encodings!TransactionOf(version, inputs, outputs, none, lock_time)
           atLockTime == [b \in Strings |-> Encodings!LockTimeEnd(version, inputs, outputs, none, b)]
           atStacks == [b \in Strings |-> Encodings!StacksEnd(version, count, inputs, outputs, b)]
           atOutputs == [b \in Strings |-> Encodings!OutputsEnd(version, count, inputs, b)]
           atInputs == [b \in Strings |-> Encodings!InputsEnd(version, count, count, b)]
           atMarker == [b \in Strings |-> Encodings!MarkerEnd(version, b)]
<1>1. /\ Chains(Fields, lock_time, Already(tx), atLockTime)
      /\ Chains(CountedOutputs, outputs, atStacks, atOutputs)
      /\ Chains(ManyInputs(count), inputs, atOutputs, atInputs)
      /\ Chains(Varints, count, atInputs, atMarker)
      /\ Chains(Fields, version, atMarker, Deserializer)
  BY LockTimeIsLast, OutputsBeforeStacks, InputsBeforeOutputs, NoMarkerBeforeInputs, VersionFirst
<1>2. atStacks = atLockTime
  <2>1. \A b : Encodings!StacksEnd(version, count, inputs, outputs, b)
          = Encodings!LockTimeEnd(version, inputs, outputs, none, b)
    BY NoStacksToRead
  <2> QED
    BY <2>1, Zenon
<1> HIDE DEF none, tx, atLockTime, atStacks, atOutputs, atInputs, atMarker
<1>3. /\ Reads(Fields, <<version>>, version) /\ Reads(Fields, <<lock_time>>, lock_time)
  BY FieldReads
<1>4. Reads(Varints, Encodings!Encode(count), count)
  BY VarintIsRead
<1>5. Reads(atStacks, <<lock_time>>, tx)
  BY <1>1, <1>2, <1>3, LastOfAll
<1>6. Reads(atOutputs, outs \o <<lock_time>>, tx)
  BY <1>1, <1>5, InTurn
<1>7. Reads(atInputs, ins \o (outs \o <<lock_time>>), tx)
  BY <1>1, <1>6, InTurn
<1>8. Reads(atMarker, Encodings!Encode(count) \o (ins \o (outs \o <<lock_time>>)), tx)
  BY <1>1, <1>4, <1>7, InTurn
<1>9. Reads(Deserializer, LegacyText(version, count, ins, outs, lock_time), tx)
  BY <1>1, <1>3, <1>8, InTurn DEF LegacyText
<1> QED
  BY <1>9 DEF tx, none

-----------------------------------------------------------------------------
(* The two formats of a transaction are these two texts, and what they read *)
(* as is the transaction, with its witnesses and without.                   *)

\* A transaction without its witnesses.
Stripped(tx) == [tx EXCEPT !.inputs = [i \in DOMAIN @ |-> [@[i] EXCEPT !.witness = <<>>]]]

Associate(s, t) == \A r \in Strings : (r \o s) \o t = r \o (s \o t)

LEMMA TextsAssociate == \A s, t \in Strings : Associate(s, t)
  BY ConcatAssociative DEF Strings, Associate

LEMMA TextsJoin == \A r, s \in Strings : r \o s \in Strings
  BY ConcatProperties DEF Strings

LEMMA OneIsText ==
  ASSUME NEW x \in Nat PROVE <<x>> \in Strings
  BY DEF Strings

\* Five texts behind one another, and eight, in whatever order they are joined.
InOrder(v, c, i, o, e) == ((v \o (c \o i)) \o o) \o e = v \o (c \o (i \o (o \o e)))

LEMMA FiveInOrder ==
  ASSUME NEW v \in Strings, NEW c \in Strings, NEW i \in Strings, NEW o \in Strings, NEW e \in Strings
  PROVE  InOrder(v, c, i, o, e)
<1>1. c \o i \in Strings /\ o \o e \in Strings
  BY TextsJoin, Zenon
<1>2. v \o (c \o i) \in Strings
  BY <1>1, TextsJoin, Zenon
<1>3. Associate(o, e) /\ Associate(c \o i, o \o e) /\ Associate(i, o \o e)
  BY <1>1, TextsAssociate, Zenon
<1>4. ((v \o (c \o i)) \o o) \o e = (v \o (c \o i)) \o (o \o e)
  BY <1>2, <1>3, Zenon DEF Associate
<1>5. (v \o (c \o i)) \o (o \o e) = v \o ((c \o i) \o (o \o e))
  BY <1>3, Zenon DEF Associate
<1>6. (c \o i) \o (o \o e) = c \o (i \o (o \o e))
  BY <1>3, Zenon DEF Associate
<1> QED
  BY <1>4, <1>5, <1>6, Zenon DEF InOrder

InOrderToo(v, z, n, c, i, o, w, e) ==
  (((((v \o z) \o n) \o (c \o i)) \o o) \o w) \o e
    = v \o (z \o (n \o (c \o (i \o (o \o (w \o e))))))

LEMMA EightInOrder ==
  ASSUME NEW v \in Strings, NEW z \in Strings, NEW n \in Strings, NEW c \in Strings,
         NEW i \in Strings, NEW o \in Strings, NEW w \in Strings, NEW e \in Strings
  PROVE  InOrderToo(v, z, n, c, i, o, w, e)
<1> DEFINE start == (v \o z) \o n
           end == w \o e
           body == c \o (i \o (o \o end))
           whole == (start \o (c \o i)) \o o
<1>1. start \in Strings /\ end \in Strings /\ v \o z \in Strings
  BY TextsJoin, Zenon
<1> HIDE DEF start, end
<1>2. whole \in Strings /\ body \in Strings
  BY <1>1, TextsJoin, Zenon
<1>3. InOrder(start, c, i, o, end)
  BY <1>1, FiveInOrder, Zenon
<1>4. whole \o end = start \o body
  BY <1>3, Zenon DEF InOrder
<1> HIDE DEF whole, body
<1>5. n \o body \in Strings
  BY <1>2, TextsJoin, Zenon
<1>6. Associate(w, e) /\ Associate(n, body) /\ Associate(z, n \o body)
  BY <1>2, <1>5, TextsAssociate, Zenon
<1>7. (whole \o w) \o e = whole \o end
  BY <1>2, <1>6, Zenon DEF Associate, end
<1>8. start \o body = (v \o z) \o (n \o body)
  BY <1>1, <1>6, Zenon DEF Associate, start
<1>9. (v \o z) \o (n \o body) = v \o (z \o (n \o body))
  BY <1>6, Zenon DEF Associate
<1> QED
  BY <1>4, <1>7, <1>8, <1>9, Zenon DEF InOrderToo, start, end, whole, body

LEMMA WholeIsItself ==
  ASSUME NEW p, EncodingPowers(p), NEW tx, Encodings!IsTransaction(tx)
  PROVE  Encodings!TransactionOf(tx.version, Bare(tx), tx.outputs, Witnesses(tx), tx.lock_time) = tx
<1> DEFINE inputs == [i \in DOMAIN Bare(tx) |-> [Bare(tx)[i] EXCEPT !.witness = Witnesses(tx)[i]]]
<1>1. tx.inputs = [i \in 1 .. Len(tx.inputs) |-> tx.inputs[i]]
  BY TransactionFacts
<1>2. ASSUME NEW i \in 1 .. Len(tx.inputs)
      PROVE  [Bare(tx)[i] EXCEPT !.witness = Witnesses(tx)[i]] = tx.inputs[i]
  <2> DEFINE txin == tx.inputs[i]
  <2>1. txin \in Encodings!TxIn
    BY TxInFacts
  <2>2. Bare(tx)[i] = InputOf(txin.previous_output, txin.script_sig, txin.sequence)
        /\ Witnesses(tx)[i] = txin.witness
    BY DEF Bare, Witnesses
  <2> HIDE DEF txin
  <2>3. [InputOf(txin.previous_output, txin.script_sig, txin.sequence) EXCEPT !.witness
          = txin.witness] = txin
    BY <2>1 DEF InputOf, Encodings!TxIn
  <2> QED
    BY <2>2, <2>3 DEF txin
<1>3. DOMAIN Bare(tx) = 1 .. Len(tx.inputs)
  BY DEF Bare
<1>4. inputs = tx.inputs
  BY <1>1, <1>2, <1>3
<1>5. Encodings!TransactionOf(tx.version, Bare(tx), tx.outputs, Witnesses(tx), tx.lock_time)
        = [version |-> tx.version, inputs |-> inputs, outputs |-> tx.outputs,
           lock_time |-> tx.lock_time]
  BY DEF Encodings!TransactionOf
<1> HIDE DEF inputs
<1>6. tx \in Encodings!Transaction
  BY TransactionFacts
<1>7. tx = [version |-> tx.version, inputs |-> tx.inputs, outputs |-> tx.outputs,
            lock_time |-> tx.lock_time]
  BY <1>6 DEF Encodings!Transaction
<1> QED
  BY <1>4, <1>5, <1>7

LEMMA BareIsStripped ==
  ASSUME NEW p, EncodingPowers(p), NEW tx, Encodings!IsTransaction(tx)
  PROVE  Encodings!TransactionOf(tx.version, Bare(tx), tx.outputs, [i \in DOMAIN Bare(tx) |-> <<>>],
                                 tx.lock_time)
           = Stripped(tx)
<1> DEFINE none == [i \in DOMAIN Bare(tx) |-> <<>>]
           inputs == [i \in DOMAIN Bare(tx) |-> [Bare(tx)[i] EXCEPT !.witness = none[i]]]
           stripped == [i \in DOMAIN tx.inputs |-> [tx.inputs[i] EXCEPT !.witness = <<>>]]
<1>1. DOMAIN Bare(tx) = 1 .. Len(tx.inputs) /\ DOMAIN tx.inputs = 1 .. Len(tx.inputs)
  BY TransactionFacts DEF Bare
<1>2. ASSUME NEW i \in 1 .. Len(tx.inputs)
      PROVE  [Bare(tx)[i] EXCEPT !.witness = none[i]] = [tx.inputs[i] EXCEPT !.witness = <<>>]
  <2> DEFINE txin == tx.inputs[i]
  <2>1. txin \in Encodings!TxIn
    BY TxInFacts
  <2>2. Bare(tx)[i] = InputOf(txin.previous_output, txin.script_sig, txin.sequence) /\ none[i] = <<>>
    BY <1>1 DEF Bare
  <2> HIDE DEF txin
  <2>3. [InputOf(txin.previous_output, txin.script_sig, txin.sequence) EXCEPT !.witness = <<>>]
          = [txin EXCEPT !.witness = <<>>]
    BY <2>1, SMTT(30) DEF InputOf, Encodings!TxIn
  <2> QED
    BY <2>2, <2>3 DEF txin
<1>3. inputs = stripped
  BY <1>1, <1>2
<1>4. Encodings!TransactionOf(tx.version, Bare(tx), tx.outputs, none, tx.lock_time)
        = [version |-> tx.version, inputs |-> inputs, outputs |-> tx.outputs,
           lock_time |-> tx.lock_time]
  BY DEF Encodings!TransactionOf
<1>5. Stripped(tx) = [tx EXCEPT !.inputs = stripped]
  BY DEF Stripped
<1> HIDE DEF inputs, stripped
<1>6. tx \in Encodings!Transaction
  BY TransactionFacts
<1>7. [tx EXCEPT !.inputs = stripped]
        = [version |-> tx.version, inputs |-> stripped, outputs |-> tx.outputs,
           lock_time |-> tx.lock_time]
  BY <1>6 DEF Encodings!Transaction
<1> QED
  BY <1>3, <1>4, <1>5, <1>7

LEMMA NothingToStrip ==
  ASSUME NEW p, EncodingPowers(p), NEW tx, Encodings!IsTransaction(tx), ~Encodings!HasWitness(tx)
  PROVE  Stripped(tx) = tx
<1> DEFINE stripped == [i \in DOMAIN tx.inputs |-> [tx.inputs[i] EXCEPT !.witness = <<>>]]
<1>1. DOMAIN tx.inputs = 1 .. Len(tx.inputs) /\ tx.inputs = [i \in 1 .. Len(tx.inputs) |-> tx.inputs[i]]
  BY TransactionFacts
<1>2. ASSUME NEW i \in 1 .. Len(tx.inputs) PROVE [tx.inputs[i] EXCEPT !.witness = <<>>] = tx.inputs[i]
  <2> DEFINE txin == tx.inputs[i]
  <2>1. txin \in Encodings!TxIn
    BY TxInFacts
  <2>2. txin.witness = <<>>
    BY <1>1 DEF Encodings!HasWitness
  <2> HIDE DEF txin
  <2>3. [txin EXCEPT !.witness = <<>>] = txin
    BY <2>1, <2>2 DEF Encodings!TxIn
  <2> QED
    BY <2>3 DEF txin
<1>3. stripped = tx.inputs
  BY <1>1, <1>2
<1>4. Stripped(tx) = [tx EXCEPT !.inputs = stripped]
  BY DEF Stripped
<1> HIDE DEF stripped
<1>5. tx \in Encodings!Transaction
  BY TransactionFacts
<1>6. [tx EXCEPT !.inputs = tx.inputs] = tx
  BY <1>5 DEF Encodings!Transaction
<1> QED
  BY <1>3, <1>4, <1>6

LEMMA BothFormatsRead ==
  ASSUME ByteAssumption, NEW p, EncodingPowers(p), NEW tx, Encodings!IsTransaction(tx)
  PROVE  /\ Reads(Deserializer, Encodings!SerializeLegacy(tx), Stripped(tx))
         /\ Reads(Deserializer, Encodings!Serialize(tx), tx)
<1> DEFINE count == Len(tx.inputs)
           ins == Encodings!Concat(Encodings!WriteInput, tx.inputs)
           outs == Encodings!Counted(Encodings!WriteOutput, tx.outputs)
           wits == Encodings!Concat(Encodings!WriteWitness, tx.inputs)
<1>1. count \in Nat /\ count # 0 /\ count < p[8] /\ tx.version \in Nat /\ tx.lock_time \in Nat
  BY TransactionFacts
<1>2. Reads(ManyInputs(count), ins, Bare(tx)) /\ Reads(CountedOutputs, outs, tx.outputs)
      /\ Reads(ManyStacks(count), wits, Witnesses(tx))
  BY PartsAreRead
<1>3. Len(Bare(tx)) = count
  BY <1>1 DEF Bare
<1>4. ins \in Strings /\ outs \in Strings /\ wits \in Strings
  BY <1>2 DEF Reads
<1>5. Encodings!Encode(count) \in Strings
  BY <1>1, VarintIsRead DEF Reads
<1> DEFINE v == <<tx.version>>
           zero == <<0>>
           one == <<1>>
           size == Encodings!Encode(count)
           end == <<tx.lock_time>>
<1>6. v \in Strings /\ zero \in Strings /\ one \in Strings /\ end \in Strings
  BY <1>1, OneIsText
<1>7. Encodings!SerializeLegacy(tx) = ((v \o (size \o ins)) \o outs) \o end
  BY Zenon DEF Encodings!SerializeLegacy, Encodings!Counted
<1>8. Encodings!HasWitness(tx) =>
        Encodings!Serialize(tx) = (((<<tx.version, 0, 1>> \o (size \o ins)) \o outs) \o wits) \o end
  BY Zenon DEF Encodings!Serialize, Encodings!Counted
<1> HIDE DEF count, ins, outs, wits
<1>9. <<tx.version, 0, 1>> = (v \o zero) \o one
  OBVIOUS
<1>10. /\ LegacyText(tx.version, count, ins, outs, tx.lock_time)
             = v \o (size \o (ins \o (outs \o end)))
       /\ SegwitText(tx.version, count, ins, outs, wits, tx.lock_time)
             = v \o (zero \o (one \o (size \o (ins \o (outs \o (wits \o end))))))
  BY DEF LegacyText, SegwitText
<1> HIDE DEF v, zero, one, size, end
<1>11. size \in Strings
  BY <1>5 DEF size
<1>12. Encodings!SerializeLegacy(tx) = LegacyText(tx.version, count, ins, outs, tx.lock_time)
  <2>1. InOrder(v, size, ins, outs, end)
    BY <1>4, <1>6, <1>11, FiveInOrder, Zenon
  <2> QED
    BY <1>7, <1>10, <2>1, Zenon DEF InOrder
<1>13. Encodings!HasWitness(tx) =>
        Encodings!Serialize(tx) = SegwitText(tx.version, count, ins, outs, wits, tx.lock_time)
  <2>1. InOrderToo(v, zero, one, size, ins, outs, wits, end)
    BY <1>4, <1>6, <1>11, EightInOrder, Zenon
  <2> QED
    BY <1>8, <1>9, <1>10, <2>1, Zenon DEF InOrderToo
<1>14. Reads(Deserializer, Encodings!SerializeLegacy(tx), Stripped(tx))
  <2>1. Reads(Deserializer, LegacyText(tx.version, count, ins, outs, tx.lock_time),
              Encodings!TransactionOf(tx.version, Bare(tx), tx.outputs,
                                      [i \in DOMAIN Bare(tx) |-> <<>>], tx.lock_time))
    BY <1>1, <1>2, LegacyReads
  <2> QED
    BY <1>12, <2>1, BareIsStripped
<1>15. CASE Encodings!HasWitness(tx)
  <2>1. Reads(Deserializer, SegwitText(tx.version, count, ins, outs, wits, tx.lock_time),
              Encodings!TransactionOf(tx.version, Bare(tx), tx.outputs, Witnesses(tx), tx.lock_time))
    BY <1>1, <1>2, <1>3, SegwitReads
  <2> QED
    BY <1>13, <1>14, <1>15, <2>1, WholeIsItself
<1>16. CASE ~Encodings!HasWitness(tx)
  <2>1. Encodings!Serialize(tx) = Encodings!SerializeLegacy(tx)
    BY <1>16, Zenon DEF Encodings!Serialize
  <2> QED
    BY <1>14, <1>16, <2>1, NothingToStrip
<1> QED
  BY <1>15, <1>16

\* Either format of a transaction is read back as it was written, to its last byte and
\* no further, and no part of it is taken for a whole one (transaction.rs:110-224).
THEOREM TransactionsSurvive ==
  ASSUME ByteAssumption, NEW tx, Encodings!IsTransaction(tx)
  PROVE  Encodings!TransactionSurvives(tx)
<1>1. PICK p : EncodingPowers(p)
  BY PowerFacts DEF EncodingPowers, ByteAssumption
<1> DEFINE bytes == Encodings!Serialize(tx)
           legacy == Encodings!SerializeLegacy(tx)
<1>2. Reads(Deserializer, legacy, Stripped(tx)) /\ Reads(Deserializer, bytes, tx)
  BY <1>1, BothFormatsRead
<1> HIDE DEF bytes, legacy
<1>3. bytes \in Strings /\ legacy \in Strings
  BY <1>2 DEF Reads
<1>4. \A rest \in {<<>>, <<0>>} : Encodings!Deserialize(bytes \o rest) = Encodings!Read(tx, rest)
  <2>1. ASSUME NEW rest \in {<<>>, << 0 >>}
        PROVE  Encodings!Deserialize(bytes \o rest) = Encodings!Read(tx, rest)
    <3>1. rest \in Strings /\ bytes \o rest \in Strings
      <4>1. rest \in Strings
        BY OneIsText, EmptySeq DEF Strings
      <4> QED
        BY <1>3, <4>1, TextsJoin
    <3>2. IsRead(Deserializer[bytes \o rest], tx, rest)
      BY <1>2, <3>1 DEF Reads
    <3> QED
      BY <3>1, <3>2 DEF IsRead, Deserializer
  <2> QED
    BY <2>1
<1>5. \A n \in 0 .. Len(bytes) - 1 : Encodings!Deserialize(SubSeq(bytes, 1, n)).error = "UnexpectedEnd"
  <2>1. ASSUME NEW n \in 0 .. Len(bytes) - 1
        PROVE  Encodings!Deserialize(SubSeq(bytes, 1, n)) = End
    <3> DEFINE b == SubSeq(bytes, 1, n)
    <3>1. Cut(b, bytes)
      BY <1>3, PrefixIsCut
    <3> HIDE DEF b
    <3>2. Deserializer[b] = End /\ b \in Strings
      BY <1>2, <3>1 DEF Reads, Cut
    <3>3. Encodings!Deserialize(b) = End
      BY <3>2 DEF Deserializer
    <3> QED
      BY <3>3 DEF b
  <2> QED
    BY <2>1, EndFacts, Zenon
<1>6. Encodings!Deserialize(legacy) = Encodings!Read(Stripped(tx), <<>>)
  <2>1. <<>> \in Strings /\ legacy \o <<>> = legacy
    BY <1>3, ConcatEmptySeq DEF Strings
  <2>2. IsRead(Deserializer[legacy], Stripped(tx), <<>>)
    BY <1>2, <2>1 DEF Reads
  <2> QED
    BY <1>3, <2>2 DEF IsRead, Deserializer
<1> QED
  BY <1>4, <1>5, <1>6, Zenon DEF Encodings!TransactionSurvives, Stripped, bytes, legacy

-----------------------------------------------------------------------------
(* What the runs check of the functions, for inputs of any size: an input   *)
(* stays what it was, and what holds of each input is proved above.         *)

\* The input is one of those the machine is given, or none yet.
InputIsGiven == input \in Inputs \cup {NoInput}

LEMMA InputStays == PureSpec => []InputIsGiven
<1>1. PureInit => InputIsGiven
  BY DEF PureInit, InputIsGiven
<1>2. InputIsGiven /\ [PureNext]_<<vars, input>> => InputIsGiven'
  BY DEF InputIsGiven, PureNext
<1> QED
  BY <1>1, <1>2, PTL DEF PureSpec

LEMMA NoInputIsNone ==
  NoInput.of \notin {"bytes", "transaction", "push", "height", "bits", "sweep", "header", "padding",
                     "files", "records"}
  BY DEF NoInput

\* TargetsAreNumbers: a compact target is the number it stands for, or refused, and
\* hashes are compared with it as numbers (NonceSearch; target.rs).
THEOREM TargetsAreNumbersCorrect == PureSpec => []TargetsAreNumbers
<1>1. InputIsGiven => TargetsAreNumbers
  <2> SUFFICES ASSUME InputIsGiven, input.of = "bits" PROVE Nonce!TargetIsNumber(input.bits)
    BY DEF TargetsAreNumbers
  <2>1. input \in Inputs
    BY NoInputIsNone DEF InputIsGiven
  <2>2. IsCompact(input.bits)
    BY <2>1, InputsAssumption, Zenon
  <2> QED
    BY <2>2, BitsStandForTheirTarget, PureFunctionsAssumption
<1> QED
  BY <1>1, InputStays, PTL

\* ChainIsReachability: the walk's summary counts what is reachable from the genesis
\* block, and has counted everything unless the chain forks (BlkScan; scan.rs).
THEOREM ChainIsReachabilityCorrect == PureSpec => []ChainIsReachability
<1>1. InputIsGiven => ChainIsReachability
  <2> SUFFICES ASSUME InputIsGiven, input.of = "records"
               PROVE  Blk!SummaryIsReachability(input.records)
    BY DEF ChainIsReachability
  <2> DEFINE records == input.records
  <2>1. input \in Inputs
    BY NoInputIsNone DEF InputIsGiven
  <2>2. AreRecords(records)
    BY <2>1, InputsAssumption, Zenon
  <2> HIDE DEF records
  <2>3. IsScan(records)
    <3> DEFINE KnownRecord == [offset : Nat, size : Nat, hash : DOMAIN Parent, previous : Nat]
    <3>0. records \in Seq(KnownRecord)
      BY <2>2, Zenon DEF AreRecords
    <3>1. Len(records) \in Nat /\ DOMAIN records = 1 .. Len(records)
          /\ \A i \in 1 .. Len(records) : records[i].hash \in DOMAIN Parent
      <4> HIDE DEF KnownRecord
      <4>1. Len(records) \in Nat /\ DOMAIN records = 1 .. Len(records)
            /\ \A i \in 1 .. Len(records) : records[i] \in KnownRecord
        BY <3>0
      <4>2. \A r \in KnownRecord : r.hash \in DOMAIN Parent
        BY DEF KnownRecord
      <4> QED
        BY <4>1, <4>2, Zenon
    <3>2. \A i \in 1 .. Len(records) : records[i].previous = Parent[records[i].hash]
      BY <2>2, <3>1, Zenon DEF AreRecords
    <3> QED
      BY <3>1, <3>2, Zenon DEF IsScan
  <2>4. Blk!SummaryIsReachability(records)
    BY <2>3, SummaryCountsReachable, PureFunctionsAssumption
  <2> QED
    BY <2>4 DEF records
<1> QED
  BY <1>1, InputStays, PTL

\* JoinedFilesScanAlike: what a scan finds in the single files is what it finds in the
\* joined one, at shifted offsets, whatever the keys (BlkScan; concat.rs).
THEOREM JoinedFilesScanAlikeCorrect == PureSpec => []JoinedFilesScanAlike
<1>1. InputIsGiven => JoinedFilesScanAlike
  <2> SUFFICES ASSUME InputIsGiven, input.of = "files"
               PROVE  Blk!JoinKeepsRecords(input.files, input.key)
    BY DEF JoinedFilesScanAlike
  <2> DEFINE files == input.files
             key == input.key
  <2>1. input \in Inputs
    BY NoInputIsNone DEF InputIsGiven
  <2>2. files \in Seq(Seq(Nat)) /\ key \in [1 .. KeyLength -> Nat]
    BY <2>1, InputsAssumption, Zenon
  <2> HIDE DEF files, key
  <2>3. files \in Seq(Strings) /\ IsKey(key)
    BY <2>2, PureFunctionsAssumption DEF Strings, IsKey
  <2>4. Blk!JoinKeepsRecords(files, key)
    BY <2>3, JoinsKeepRecords, PureFunctionsAssumption
  <2> QED
    BY <2>4 DEF files, key
<1> QED
  BY <1>1, InputStays, PTL

\* SearchFindsTheBlock: no nonce is skipped between the batches, and what the miner
\* hashes for one is the double hash of the header (NonceSearch, HeaderHash; search.rs).
THEOREM SearchFindsTheBlockCorrect == PureSpec => []SearchFindsTheBlock
<1>1. InputIsGiven => SearchFindsTheBlock
  <2> SUFFICES ASSUME InputIsGiven PROVE SearchFindsTheBlock
    OBVIOUS
  <2>1. ASSUME input.of = "sweep" PROVE Nonce!SweepIsComplete(input.hash, input.target)
    <3> DEFINE hash == input.hash
               target == input.target
    <3>1. input \in Inputs
      BY <2>1, NoInputIsNone DEF InputIsGiven
    <3>2. hash \in [Nonce!Nonces -> Nonce!Hashes] /\ target \in Nonce!Hashes
      BY <2>1, <3>1, InputsAssumption, Zenon
    <3> HIDE DEF hash, target
    <3>3. Nonce!SweepIsComplete(hash, target)
      BY <3>2, SweepMissesNoNonce, PureFunctionsAssumption
    <3> QED
      BY <3>3 DEF hash, target
  <2>2. ASSUME input.of = "header" PROVE Header!MidstateIsShortcut(input.header, input.nonce)
    <3>1. input \in Inputs
      BY <2>2, NoInputIsNone DEF InputIsGiven
    <3>2. input.header \in [1 .. 80 -> Nat] /\ input.nonce \in [1 .. 4 -> Nat]
      BY <2>2, <3>1, InputsAssumption, Zenon
    <3> QED
      BY <3>2, MidstateHashesTheHeader
  <2>3. ASSUME input.of = "padding" PROVE Header!PaddingIsWhole(input.length)
    <3>1. input \in Inputs
      BY <2>3, NoInputIsNone DEF InputIsGiven
    <3>2. input.length \in Nat
      BY <2>3, <3>1, InputsAssumption, Zenon
    <3> QED
      BY <3>2, PaddingFillsTheBlocks
  <2> QED
    BY <2>1, <2>2, <2>3, Zenon DEF SearchFindsTheBlock
<1> QED
  BY <1>1, InputStays, PTL

\* EncodingsAreUnambiguous: integers, transactions, pushes and heights are read back as
\* they were written, and a reader accepts one form of an integer and no part of a
\* transaction (Encoding, Script; varint.rs, transaction.rs, script.rs).
THEOREM EncodingsAreUnambiguousCorrect == PureSpec => []EncodingsAreUnambiguous
<1>1. InputIsGiven => EncodingsAreUnambiguous
  <2> SUFFICES ASSUME InputIsGiven PROVE EncodingsAreUnambiguous
    OBVIOUS
  <2>0. ByteAssumption
    BY PureFunctionsAssumption DEF ByteAssumption
  <2>1. ASSUME input.of = "bytes" PROVE Encodings!VarintIsCanonical(input.bytes)
    <3>1. input \in Inputs
      BY <2>1, NoInputIsNone DEF InputIsGiven
    <3>2. input.bytes \in Seq(0 .. Byte - 1)
      BY <2>1, <3>1, InputsAssumption, Zenon DEF Encodings!Bytes
    <3> QED
      BY <2>0, <3>2, VarintsAreCanonical
  <2>2. ASSUME input.of = "transaction" PROVE Encodings!TransactionSurvives(input.tx)
    <3>1. input \in Inputs
      BY <2>2, NoInputIsNone DEF InputIsGiven
    <3>2. Encodings!IsTransaction(input.tx)
      BY <2>2, <3>1, InputsAssumption, Zenon
    <3> QED
      BY <2>0, <3>2, TransactionsSurvive
  <2>3. ASSUME input.of = "push" PROVE Scripts!PushIsRead(input.data)
    <3> DEFINE data == input.data
    <3>1. input \in Inputs
      BY <2>3, NoInputIsNone DEF InputIsGiven
    <3>2. data \in Seq(Nat) /\ Len(data) <= 520
      BY <2>3, <3>1, InputsAssumption, Zenon
    <3> HIDE DEF data
    <3>3. data \in Strings /\ <<>> \in Strings /\ <<1>> \in Strings
      BY <3>2, EmptySeq, OneIsText DEF Strings
    <3>4. Scripts!Pushed(Scripts!PushData(data) \o <<>>) = data
      BY <3>2, <3>3, PushGivesDataBack
    <3>5. Scripts!Pushed(Scripts!PushData(data) \o <<1>>) = data
      BY <3>2, <3>3, PushGivesDataBack
    <3>6. Scripts!PushIsRead(data)
      BY <3>4, <3>5, Zenon DEF Scripts!PushIsRead
    <3> QED
      BY <3>6 DEF data
  <2>4. ASSUME input.of = "height" PROVE Scripts!HeightIsRead(input.height)
    <3>1. input \in Inputs
      BY <2>4, NoInputIsNone DEF InputIsGiven
    <3>2. IsU32(input.height)
      BY <2>4, <3>1, InputsAssumption, Zenon
    <3> QED
      BY <3>2, HeightsAreRead
  <2> QED
    BY <2>1, <2>2, <2>3, <2>4, Zenon DEF EncodingsAreUnambiguous
<1> QED
  BY <1>1, InputStays, PTL
=============================================================================
