-------------------------- MODULE MinerStatsProofs --------------------------
(***************************************************************************)
(* The safety of MinerStats for any number of threads, batches, sessions   *)
(* and failed saves, and that it implements DurableTotals.                 *)
(***************************************************************************)
EXTENDS MinerStats, TLAPS

\* The reporter runs behind the threads, and a session behind the history.
CountsInOrder ==
  /\ folded_in <= total /\ total <= hashes /\ hashes <= counted
  /\ reporter = "load" => total = 0 /\ folded_in = 0
  /\ reporter \in {"count", "write", "rename"} => folded_in = total

\* What is saved is not ahead of the totals in memory, in any field.
Lags(old, new) ==
  /\ old.total_hashes <= new.total_hashes
  /\ old.best_zero_bits <= new.best_zero_bits
  /\ old.sessions <= new.sessions

DiskLags ==
  /\ reporter # "load" /\ file # None => Lags(file, lifetime)
  /\ reporter = "rename" => temporary = lifetime

IInv == TypeOK /\ CountsInOrder /\ DiskLags /\ BestIsKept

-----------------------------------------------------------------------------
LEMMA InitIInv == Init => IInv
<1> SUFFICES ASSUME Init PROVE IInv
  OBVIOUS
<1> USE MinerStatsAssumption, NoneAssumption DEF Init
<1>1. TypeOK
  <2>1. MaxHash \in Hashes /\ 0 \in Bits /\ Fresh \in Totals
    BY DEF Hashes, Bits, Fresh, Totals
  <2> QED
    BY <2>1 DEF TypeOK
<1>2. CountsInOrder /\ DiskLags
  BY DEF CountsInOrder, DiskLags
<1>3. BestIsKept
  BY DEF BestIsKept, leading_zero_bits
<1> QED
  BY <1>1, <1>2, <1>3 DEF IInv

\* The bits of a hash, and of a smaller one.
LEMMA BitsOfHash ==
  /\ \A hash \in Hashes : leading_zero_bits(hash) \in Bits
  /\ \A a, b \in Hashes : a <= b => leading_zero_bits(b) <= leading_zero_bits(a)
BY MinerStatsAssumption DEF Hashes, Bits, leading_zero_bits

LEMMA MaxBitsIsMax ==
  ASSUME NEW a \in Bits, NEW b \in Bits
  PROVE  MaxBits(a, b) \in Bits /\ MaxBits(a, b) >= a /\ MaxBits(a, b) >= b
BY MinerStatsAssumption DEF MaxBits, Bits

-----------------------------------------------------------------------------
\* A mining thread leaves the reporter and the disk alone.
LEMMA RecordIInv ==
  ASSUME IInv, NEW t \in Threads, Record(t)
  PROVE  IInv'
<1> USE MinerStatsAssumption DEF IInv, TypeOK, report, disk, stats
<1>1. batchBest[t] \in Hashes /\ leading_zero_bits(batchBest[t]) \in Bits
  BY BitsOfHash
<1>2. CASE CountBatch(t)
  <2>1. TypeOK'
    BY <1>2 DEF CountBatch, CountsInOrder, Goto
  <2>2. CountsInOrder' /\ DiskLags'
    BY <1>2 DEF CountBatch, CountsInOrder, DiskLags, Lags
  <2>3. BestIsKept'
    BY <1>2 DEF CountBatch, BestIsKept, leading_zero_bits
  <2> QED
    BY <2>1, <2>2, <2>3
<1>3. CASE Filter(t)
  <2>1. sessionBits' \in Bits /\ sessionBits' <= best_zero_bits
    BY <1>1, <1>3, MaxBitsIsMax DEF Filter, Recorded, BestIsKept, MaxBits, Bits
  <2>2. TypeOK'
    BY <1>3, <2>1 DEF Filter, Goto
  <2>3. CountsInOrder' /\ DiskLags'
    BY <1>3 DEF Filter, CountsInOrder, DiskLags, Lags
  <2>4. BestIsKept'
    BY <1>3, <2>1 DEF Filter, BestIsKept, leading_zero_bits, Bits
  <2> QED
    BY <2>2, <2>3, <2>4
<1>4. CASE Improve(t)
  <2>1. /\ best' \in Hashes /\ best' <= best /\ best' <= batchBest[t]
        /\ best_zero_bits' = leading_zero_bits(best')
    BY <1>4, <1>1 DEF Improve, BestIsKept, Hashes, leading_zero_bits
  <2>2. /\ best_zero_bits' \in Bits
        /\ best_zero_bits' >= best_zero_bits
        /\ best_zero_bits' >= leading_zero_bits(batchBest[t])
    BY <1>1, <2>1, BitsOfHash DEF BestIsKept
  <2>3. sessionBits' \in Bits /\ sessionBits' <= best_zero_bits'
    BY <1>1, <1>4, <2>2, MaxBitsIsMax DEF Improve, Recorded, BestIsKept, MaxBits, Bits
  <2>4. TypeOK'
    BY <1>4, <2>1, <2>2, <2>3 DEF Improve, Goto
  <2>5. CountsInOrder' /\ DiskLags'
    BY <1>4 DEF Improve, CountsInOrder, DiskLags, Lags
  <2>6. BestIsKept'
    BY <2>1, <2>2, <2>3 DEF BestIsKept, leading_zero_bits, Bits
  <2> QED
    BY <2>4, <2>5, <2>6
<1> QED
  BY <1>2, <1>3, <1>4 DEF Record

\* What the fold makes of the totals.
LEMMA FoldAdds ==
  ASSUME IInv, Fold
  PROVE  /\ lifetime' \in Totals
         /\ lifetime'.total_hashes = lifetime.total_hashes + (total - folded_in)
         /\ Lags(lifetime, lifetime')
<1> USE MinerStatsAssumption DEF IInv, TypeOK
<1>1. leading_zero_bits(best) \in Bits
  BY BitsOfHash
<1>2. MaxBits(lifetime.best_zero_bits, leading_zero_bits(best)) \in Bits
  BY <1>1, MaxBitsIsMax DEF Totals
<1>3. lifetime.best_zero_bits <= MaxBits(lifetime.best_zero_bits, leading_zero_bits(best))
  BY <1>1, MaxBitsIsMax DEF Totals, Bits
<1>4. total - folded_in \in Nat
  BY DEF CountsInOrder
<1> QED
  BY <1>2, <1>3, <1>4 DEF Fold, Plus, Totals, Lags, Bits

\* And what a start makes of the file.
LEMMA LoadTakes ==
  ASSUME IInv, Load
  PROVE  /\ lifetime' \in Totals
         /\ lifetime'.total_hashes = SavedTotal
         /\ file # None => Lags(file, lifetime')
<1> USE MinerStatsAssumption DEF IInv, TypeOK
<1>1. CASE file = None
  BY <1>1 DEF Load, Fresh, Totals, SavedTotal, Bits
<1>2. CASE file # None
  <2>1. file \in Totals
    BY <1>2
  <2> QED
    BY <1>2, <2>1 DEF Load, Totals, SavedTotal, Lags, Bits
<1> QED
  BY <1>1, <1>2

LEMMA ReporterIInv ==
  ASSUME IInv, Reporter
  PROVE  IInv'
<1> USE MinerStatsAssumption, NoneAssumption
    DEF IInv, TypeOK, stats, thread, history, ReporterGoto
<1>1. BestIsKept'
  BY DEF Reporter, Load, ReadCount, Fold, WriteTemporary, Rename, BestIsKept, leading_zero_bits
<1>2. CASE Load
  BY <1>1, <1>2, LoadTakes DEF Load, CountsInOrder, DiskLags, disk
<1>3. CASE ReadCount
  BY <1>1, <1>3 DEF ReadCount, CountsInOrder, DiskLags, disk, Lags
<1>4. CASE Fold
  <2>1. file # None => file \in Totals
    OBVIOUS
  <2>2. TypeOK' /\ CountsInOrder'
    BY <1>4, FoldAdds DEF Fold, CountsInOrder, disk
  <2>3. DiskLags'
    BY <1>4, <2>1, FoldAdds DEF Fold, DiskLags, Lags, disk, Totals, Bits
  <2> QED
    BY <1>1, <2>2, <2>3
<1>5. CASE WriteTemporary
  BY <1>1, <1>5 DEF WriteTemporary, CountsInOrder, DiskLags, Lags
<1>6. CASE Rename
  <2>1. TypeOK' /\ CountsInOrder'
    BY <1>6 DEF Rename, CountsInOrder, disk
  <2>2. DiskLags'
    BY <1>6 DEF Rename, DiskLags, Lags, disk, Totals, Bits
  <2> QED
    BY <1>1, <2>1, <2>2
<1> QED
  BY <1>2, <1>3, <1>4, <1>5, <1>6 DEF Reporter

LEMMA RestartIInv ==
  ASSUME IInv, Restart
  PROVE  IInv'
<1> USE MinerStatsAssumption DEF IInv, Restart
<1>1. TypeOK'
  <2>1. MaxHash \in Hashes /\ 0 \in Bits /\ Fresh \in Totals
    BY DEF Hashes, Bits, Fresh, Totals
  <2> QED
    BY <2>1 DEF TypeOK, disk
<1>2. CountsInOrder' /\ DiskLags'
  BY DEF CountsInOrder, DiskLags, TypeOK
<1>3. BestIsKept'
  BY DEF BestIsKept, leading_zero_bits
<1> QED
  BY <1>1, <1>2, <1>3

LEMMA NextIInv == IInv /\ [Next]_vars => IInv'
<1> SUFFICES ASSUME IInv, [Next]_vars PROVE IInv'
  OBVIOUS
<1>1. CASE Next
  BY <1>1, RecordIInv, ReporterIInv, RestartIInv DEF Next
<1>2. CASE UNCHANGED vars
  BY <1>2 DEF vars, stats, thread, report, disk, history, IInv, TypeOK, CountsInOrder, DiskLags,
              Lags, BestIsKept, leading_zero_bits
<1> QED
  BY <1>1, <1>2

LEMMA AlwaysIInv == Spec => []IInv
<1>1. Init => IInv
  BY InitIInv
<1>2. IInv /\ [Next]_vars => IInv'
  BY NextIInv
<1> QED
  BY <1>1, <1>2, PTL DEF Spec

-----------------------------------------------------------------------------
\* Every counter of the miner and every field of its totals keeps its range
\* (stats.rs:22-30, lifetime.rs:34-53).
THEOREM TypeCorrect == Spec => []TypeOK
<1>1. IInv => TypeOK
  BY DEF IInv
<1> QED
  BY <1>1, AlwaysIInv, PTL

\* The cheap filter outside the lock (stats.rs:49-61) never costs a better hash.
THEOREM BestIsKeptCorrect == Spec => []BestIsKept
<1>1. IInv => BestIsKept
  BY DEF IInv
<1> QED
  BY <1>1, AlwaysIInv, PTL

\* Only a rename changes the file, and it brings what the memory has.
LEMMA FileStep ==
  ASSUME IInv, [Next]_vars
  PROVE  file' = file \/ (Rename /\ file' = lifetime /\ reporter = "rename")
BY DEF IInv, DiskLags, Next, Record, CountBatch, Filter, Improve, Reporter, Load, ReadCount, Fold,
       WriteTemporary, Rename, Restart, vars, disk

\* No crash, no failed save and no start takes anything back from the disk
\* (lifetime.rs:24-26).
THEOREM TotalsNeverGoBackCorrect == Spec => TotalsNeverGoBack
<1> DEFINE NotBack ==
      file # None =>
        /\ file' # None
        /\ file'.total_hashes >= file.total_hashes
        /\ file'.best_zero_bits >= file.best_zero_bits
        /\ file'.sessions >= file.sessions
<1>1. IInv /\ [Next]_vars => [NotBack]_vars
  <2> SUFFICES ASSUME IInv, [Next]_vars, file # None PROVE NotBack
    OBVIOUS
  <2>1. file \in Totals /\ lifetime \in Totals /\ lifetime # None
    BY NoneAssumption DEF IInv, TypeOK, Totals
  <2>2. CASE file' = file
    BY <2>1, <2>2, MinerStatsAssumption DEF Totals, Bits
  <2>3. CASE file' = lifetime /\ reporter = "rename"
    BY <2>1, <2>3, MinerStatsAssumption DEF IInv, DiskLags, Lags, Totals, Bits
  <2> QED
    BY <2>2, <2>3, FileStep
<1> QED
  BY <1>1, AlwaysIInv, PTL DEF Spec, TotalsNeverGoBack

-----------------------------------------------------------------------------
(* The refinement: every step is a step of DurableTotals, or none of it.   *)

\* What both counts are in any state.
LEMMA CountsAreNat == IInv => SavedTotal \in Nat /\ FullTotal \in Nat /\ SavedTotal <= FullTotal
<1> SUFFICES ASSUME IInv PROVE SavedTotal \in Nat /\ FullTotal \in Nat /\ SavedTotal <= FullTotal
  OBVIOUS
<1> USE DEF IInv, TypeOK, CountsInOrder, SavedTotal, FullTotal
<1>1. SavedTotal \in Nat
  BY DEF Totals
<1>2. lifetime.total_hashes \in Nat
  BY DEF Totals
<1>3. CASE reporter = "load"
  BY <1>1, <1>3
<1>4. CASE reporter # "load"
  BY <1>1, <1>2, <1>4 DEF DiskLags, Lags
<1> QED
  BY <1>3, <1>4

LEMMA RecordRefines ==
  ASSUME IInv, NEW t \in Threads, Record(t)
  PROVE  [Durable!Next]_(Durable!vars)
<1>1. SavedTotal' = SavedTotal
  BY DEF Record, CountBatch, Filter, Improve, disk, SavedTotal
<1>2. CASE CountBatch(t)
  <2>1. FullTotal' = FullTotal + 1
    BY <1>1, <1>2, CountsAreNat
    DEF CountBatch, FullTotal, report, IInv, TypeOK, CountsInOrder, Totals
  <2> QED
    BY <1>1, <2>1 DEF Durable!Next, Durable!Count
<1>3. CASE Filter(t) \/ Improve(t)
  <2>1. FullTotal' = FullTotal
    BY <1>1, <1>3 DEF Filter, Improve, FullTotal, stats, report
  <2> QED
    BY <1>1, <2>1 DEF Durable!vars
<1> QED
  BY <1>2, <1>3 DEF Record

LEMMA ReporterRefines ==
  ASSUME IInv, Reporter
  PROVE  [Durable!Next]_(Durable!vars)
<1> USE DEF ReporterGoto, stats, disk
<1>1. CASE Load
  <2>1. SavedTotal' = SavedTotal
    BY <1>1 DEF Load, SavedTotal
  <2>2. FullTotal' = FullTotal
    BY <1>1, LoadTakes, CountsAreNat DEF Load, FullTotal, IInv, TypeOK, CountsInOrder
  <2> QED
    BY <2>1, <2>2 DEF Durable!vars
<1>2. CASE ReadCount \/ WriteTemporary
  <2>1. SavedTotal' = SavedTotal
    BY <1>2 DEF ReadCount, WriteTemporary, SavedTotal
  <2>2. FullTotal' = FullTotal
    BY <1>2 DEF ReadCount, WriteTemporary, FullTotal
  <2> QED
    BY <2>1, <2>2 DEF Durable!vars
<1>3. CASE Fold
  <2>1. SavedTotal' = SavedTotal
    BY <1>3 DEF Fold, SavedTotal
  <2>2. FullTotal' = FullTotal
    BY <1>3, FoldAdds DEF Fold, FullTotal, IInv, TypeOK, CountsInOrder, Totals
  <2> QED
    BY <2>1, <2>2 DEF Durable!vars
<1>4. CASE Rename
  <2>1. FullTotal' = FullTotal
    BY <1>4 DEF Rename, FullTotal
  <2>2. SavedTotal' \in SavedTotal .. FullTotal
    <3>1. CASE UNCHANGED file
      BY <3>1, CountsAreNat DEF SavedTotal
    <3>2. CASE file' = temporary
      <4>1. file' = lifetime /\ lifetime \in Totals /\ lifetime # None
        BY <1>4, <3>2, NoneAssumption DEF Rename, IInv, DiskLags, TypeOK, Totals
      <4>2. SavedTotal' = lifetime.total_hashes
        BY <4>1 DEF SavedTotal
      <4>3. SavedTotal <= lifetime.total_hashes
        BY <1>4, <4>1 DEF Rename, IInv, DiskLags, Lags, SavedTotal, Totals
      <4>4. FullTotal = lifetime.total_hashes + (hashes - folded_in) /\ hashes - folded_in \in Nat
        BY <1>4 DEF Rename, FullTotal, IInv, TypeOK, CountsInOrder
      <4> QED
        BY <4>1, <4>2, <4>3, <4>4, CountsAreNat DEF Totals
    <3> QED
      BY <1>4, <3>1, <3>2 DEF Rename
  <2> QED
    BY <2>1, <2>2 DEF Durable!Next, Durable!Save
<1> QED
  BY <1>1, <1>2, <1>3, <1>4 DEF Reporter

LEMMA RestartRefines ==
  ASSUME IInv, Restart
  PROVE  [Durable!Next]_(Durable!vars)
<1>1. SavedTotal' = SavedTotal
  BY DEF Restart, disk, SavedTotal
<1>2. FullTotal' = SavedTotal
  BY <1>1, CountsAreNat DEF Restart, FullTotal
<1> QED
  BY <1>1, <1>2 DEF Durable!Next, Durable!Crash

\* Each batch is in the totals once, and a crash takes back only what was not saved:
\* the miner's totals implement DurableTotals (lifetime.rs:81-107).
THEOREM Refines == Spec => TotalsAreDurable
<1>1. Init => Durable!Init
  BY DEF Init, Durable!Init, FullTotal, SavedTotal
<1>2. IInv /\ [Next]_vars => [Durable!Next]_(Durable!vars)
  <2> SUFFICES ASSUME IInv, [Next]_vars PROVE [Durable!Next]_(Durable!vars)
    OBVIOUS
  <2>1. CASE Next
    BY <2>1, RecordRefines, ReporterRefines, RestartRefines DEF Next
  <2>2. CASE UNCHANGED vars
    BY <2>2 DEF vars, stats, thread, report, disk, history, FullTotal, SavedTotal, Durable!vars
  <2> QED
    BY <2>1, <2>2
<1> QED
  BY <1>1, <1>2, AlwaysIInv, PTL DEF Spec, TotalsAreDurable, Durable!Spec
=============================================================================
