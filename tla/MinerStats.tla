----------------------------- MODULE MinerStats -----------------------------
(***************************************************************************)
(* The miner's counters (stats.rs), which every mining thread updates, and *)
(* the totals its reporting thread keeps on disk (lifetime.rs, main.rs),   *)
(* through crashes of the process at any step and saves that fail.         *)
(*                                                                         *)
(* A hash is a number, smaller is better. Only the number of its leading   *)
(* zero bits reaches the disk's comparison. A batch counts as one hash.    *)
(* What the totals on disk promise is module DurableTotals.                *)
(***************************************************************************)
EXTENDS Integers, FiniteSets

CONSTANTS
  Threads,
  MaxHash,      \* the largest hash
  Width,        \* bits of a hash
  ZeroBits,     \* the leading zero bits of each hash
  MaxBatches,   \* bound: batches recorded, over all sessions
  MaxSessions,  \* bound: how often the miner is started
  None          \* no file, or one that does not parse

ASSUME MinerStatsAssumption ==
  /\ MaxHash \in Nat
  /\ Width \in Nat
  /\ ZeroBits \in [0 .. MaxHash -> 0 .. Width]
  /\ ZeroBits[MaxHash] = 0
  /\ \A a, b \in 0 .. MaxHash : a <= b => ZeroBits[b] <= ZeroBits[a]
  /\ MaxBatches \in Nat
  /\ MaxSessions \in Nat \ {0}

VARIABLES
  \* Stats
  hashes, best_zero_bits, best,
  \* a mining thread: its place in record, the best hash of its batch
  pc, batchBest,
  \* the reporting thread: its place, the count it read, what it has folded in,
  \* its Lifetime
  reporter, total, folded_in, lifetime,
  file, temporary,
  \* history: sessions begun, batches counted over all of them, the most zero
  \* bits any batch of this session has finished recording
  session, counted, sessionBits

stats == <<hashes, best_zero_bits, best>>
thread == <<pc, batchBest>>
report == <<reporter, total, folded_in, lifetime>>
disk == <<file, temporary>>
history == <<session, counted, sessionBits>>
vars == <<stats, thread, report, disk, history>>

Hashes == 0 .. MaxHash
Bits == 0 .. Width

leading_zero_bits(hash) == ZeroBits[hash]

ASSUME NoneAssumption == None \notin [total_hashes : Nat, best_zero_bits : Bits, sessions : Nat]

Totals == [total_hashes : Nat, best_zero_bits : Bits, sessions : Nat]
Fresh == [total_hashes |-> 0, best_zero_bits |-> 0, sessions |-> 0]

Init ==
  /\ hashes = 0 /\ best_zero_bits = 0 /\ best = MaxHash
  /\ pc = [t \in Threads |-> "search"]
  /\ batchBest = [t \in Threads |-> MaxHash]
  /\ reporter = "load" /\ total = 0 /\ folded_in = 0 /\ lifetime = Fresh
  /\ file = None /\ temporary = None
  /\ session = 1 /\ counted = 0 /\ sessionBits = 0

-----------------------------------------------------------------------------
(* Stats::record, in mining thread t.                                      *)

Goto(t, place) == pc' = [pc EXCEPT ![t] = place]

\* fetch_add, after a batch with any best hash.
CountBatch(t) ==
  /\ pc[t] = "search"
  /\ counted < MaxBatches
  /\ hashes' = hashes + 1
  /\ counted' = counted + 1
  /\ batchBest' \in {[batchBest EXCEPT ![t] = hash] : hash \in Hashes}
  /\ Goto(t, "compare")
  /\ UNCHANGED <<best_zero_bits, best, report, disk, session, sessionBits>>

MaxBits(a, b) == IF a >= b THEN a ELSE b
Recorded(t) == sessionBits' = MaxBits(sessionBits, leading_zero_bits(batchBest[t]))

\* The cheap filter, without the lock.
Filter(t) ==
  /\ pc[t] = "compare"
  /\ \/ /\ leading_zero_bits(batchBest[t]) <= best_zero_bits
        /\ Goto(t, "search") /\ Recorded(t)
     \/ /\ leading_zero_bits(batchBest[t]) > best_zero_bits
        /\ Goto(t, "improve") /\ UNCHANGED sessionBits
  /\ UNCHANGED <<stats, batchBest, report, disk, session, counted>>

\* Bug: the filter's answer is trusted, although the record may have moved.
ImproveUnchecked(t) ==
  /\ pc[t] = "improve"
  /\ best' = batchBest[t]
  /\ best_zero_bits' = leading_zero_bits(batchBest[t])
  /\ Recorded(t)
  /\ Goto(t, "search")
  /\ UNCHANGED <<hashes, batchBest, report, disk, session, counted>>

\* Under the lock the comparison is made again.
Improve(t) ==
  /\ pc[t] = "improve"
  /\ IF batchBest[t] < best
     THEN best' = batchBest[t] /\ best_zero_bits' = leading_zero_bits(batchBest[t])
     ELSE UNCHANGED <<best, best_zero_bits>>
  /\ Recorded(t)
  /\ Goto(t, "search")
  /\ UNCHANGED <<hashes, batchBest, report, disk, session, counted>>

-----------------------------------------------------------------------------
(* report_forever.                                                         *)

ReporterGoto(place) == reporter' = place

\* Bug: a file that does not parse is taken as it is.
LoadAsIs ==
  /\ reporter = "load"
  /\ lifetime' = file
  /\ ReporterGoto("count")
  /\ UNCHANGED <<stats, thread, total, folded_in, disk, history>>

\* Lifetime::load. The session it counts reaches the disk with the first save.
Load ==
  /\ reporter = "load"
  /\ LET loaded == IF file = None THEN Fresh ELSE file
     IN  lifetime' = [total_hashes |-> loaded.total_hashes,
                      best_zero_bits |-> loaded.best_zero_bits,
                      sessions |-> loaded.sessions + 1]
  /\ ReporterGoto("count")
  /\ UNCHANGED <<stats, thread, total, folded_in, disk, history>>

ReadCount ==
  /\ reporter = "count"
  /\ total' = hashes
  /\ ReporterGoto("fold")
  /\ UNCHANGED <<stats, thread, folded_in, lifetime, disk, history>>

\* Lifetime::record. The hashes are the ones since the last call.
Plus(totals, recent, bits) ==
  [total_hashes |-> totals.total_hashes + recent,
   best_zero_bits |-> MaxBits(totals.best_zero_bits, bits),
   sessions |-> totals.sessions]

\* Bug: the session's count is added where its growth should be.
FoldTotal ==
  /\ reporter = "fold"
  /\ folded_in' = total
  /\ lifetime' = Plus(lifetime, total, leading_zero_bits(best))
  /\ ReporterGoto("write")
  /\ UNCHANGED <<stats, thread, total, disk, history>>

\* Bug: nothing is recorded of a report without a better hash.
FoldBetter ==
  /\ reporter = "fold"
  /\ folded_in' = total
  /\ lifetime' = IF leading_zero_bits(best) <= lifetime.best_zero_bits THEN lifetime
                 ELSE Plus(lifetime, total - folded_in, leading_zero_bits(best))
  /\ ReporterGoto("write")
  /\ UNCHANGED <<stats, thread, total, disk, history>>

\* Stats::best under its lock, then record. The count that was read may be older than
\* the best hash: its batch is in the next report.
Fold ==
  /\ reporter = "fold"
  /\ folded_in' = total
  /\ lifetime' = Plus(lifetime, total - folded_in, leading_zero_bits(best))
  /\ ReporterGoto("write")
  /\ UNCHANGED <<stats, thread, total, disk, history>>

\* Bug: the totals are written over the old ones.
WriteInPlace ==
  /\ reporter = "write"
  /\ \/ file' = lifetime
     \/ file' = None
  /\ ReporterGoto("count")
  /\ UNCHANGED <<stats, thread, total, folded_in, lifetime, temporary, history>>

\* save's first half. A failure, or a crash on the way, leaves half a file.
WriteTemporary ==
  /\ reporter = "write"
  /\ \/ temporary' = lifetime /\ ReporterGoto("rename")
     \/ temporary' = None /\ ReporterGoto("count")
  /\ UNCHANGED <<stats, thread, total, folded_in, lifetime, file, history>>

\* save's second half, which is atomic.
Rename ==
  /\ reporter = "rename"
  /\ \/ file' = temporary /\ temporary' = None
     \/ UNCHANGED disk   \* it fails, a warning is printed
  /\ ReporterGoto("count")
  /\ UNCHANGED <<stats, thread, total, folded_in, lifetime, history>>

Reporter == Load \/ ReadCount \/ Fold \/ WriteTemporary \/ Rename

\* The process ends, at any point, and the miner is started again.
Restart ==
  /\ session < MaxSessions
  /\ session' = session + 1
  /\ hashes' = 0 /\ best_zero_bits' = 0 /\ best' = MaxHash
  /\ pc' = [t \in Threads |-> "search"]
  /\ batchBest' = [t \in Threads |-> MaxHash]
  /\ reporter' = "load" /\ total' = 0 /\ folded_in' = 0 /\ lifetime' = Fresh
  /\ sessionBits' = 0
  /\ UNCHANGED <<disk, counted>>

Record(t) == CountBatch(t) \/ Filter(t) \/ Improve(t)

Next == (\E t \in Threads : Record(t)) \/ Reporter \/ Restart

Spec == Init /\ [][Next]_vars

\* Both kinds of thread are run, and not every save fails.
FairSpec ==
  /\ Spec
  /\ WF_vars(Reporter)
  /\ SF_vars(WriteTemporary /\ temporary' # None)
  /\ SF_vars(Rename /\ file' = temporary)

-----------------------------------------------------------------------------
TypeOK ==
  /\ hashes \in 0 .. MaxBatches /\ best_zero_bits \in Bits /\ best \in Hashes
  /\ pc \in [Threads -> {"search", "compare", "improve"}]
  /\ batchBest \in [Threads -> Hashes]
  /\ reporter \in {"load", "count", "fold", "write", "rename"}
  /\ total \in 0 .. MaxBatches /\ folded_in \in 0 .. MaxBatches
  /\ lifetime \in Totals
  /\ file \in Totals \cup {None} /\ temporary \in Totals \cup {None}
  /\ session \in 1 .. MaxSessions /\ counted \in 0 .. MaxBatches /\ sessionBits \in Bits

\* What is on disk, and what would be there if every batch so far were saved.
SavedTotal == IF file = None THEN 0 ELSE file.total_hashes
FullTotal ==
  IF reporter = "load" THEN SavedTotal + hashes
  ELSE lifetime.total_hashes + (hashes - folded_in)

Durable == INSTANCE DurableTotals WITH full <- FullTotal, saved <- SavedTotal

\* "The caller tracks what has already been folded in" (lifetime.rs:83-84): over any
\* reports, failed saves and crashes each batch is in the totals once, and a crash
\* takes back only what was not saved yet.
TotalsAreDurable == Durable!Spec

\* "A crash mid-write leaves the previous totals intact" (lifetime.rs:24-26):
\* what is on disk never becomes less, not even across a start that reads it.
TotalsNeverGoBack ==
  [][file # None =>
       /\ file' # None
       /\ file'.total_hashes >= file.total_hashes
       /\ file'.best_zero_bits >= file.best_zero_bits
       /\ file'.sessions >= file.sessions]_vars

\* The filter is outside the lock, so two threads can pass it and take the lock in
\* either order (stats.rs:49-61): the best is never worse than a batch that was
\* recorded, and the count is the best hash's own.
BestIsKept ==
  /\ best_zero_bits >= sessionBits
  /\ best_zero_bits = leading_zero_bits(best)

\* In a session that goes on, each batch is on disk in the end.
CountedIsSaved ==
  \A n \in 1 .. MaxBatches :
    session = MaxSessions /\ hashes = n ~> file # None /\ file.total_hashes >= n
=============================================================================
