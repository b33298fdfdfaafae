-------------------------- MODULE MinerWorkProofs --------------------------
(***************************************************************************)
(* The safety of MinerWork for any number of threads, jobs, batches and    *)
(* extranonces: IInv is an inductive invariant that implies each safety    *)
(* property the TLC run of MinerWork checks.                               *)
(***************************************************************************)
EXTENDS MinerWork, TLAPS

\* The store and the bump of set() are apart by at most one job.
StoreThenBump == current = IF installing THEN generation + 1 ELSE generation

\* A thread's job and generation are ones that were, at most one job apart.
HeldWork ==
  \A t \in Threads :
    /\ gen[t] <= generation
    /\ work[t] <= current
    /\ pc[t] # "clone" => work[t] # NoJob
    /\ Holding(t) => work[t] <= gen[t] + 1

\* A thread is inside the nonce sweep of its extranonce.
Sweeping(t) == pc[t] \in {"genLoop", "solvedLoop", "search"}

\* Extranonces from the counter on are unclaimed, two sweeps have two
\* extranonces, and a sweep has searched only what lies before its start.
Tickets ==
  ~wrapped =>
    /\ \A e \in Extranonces, b \in Starts : <<e, b>> \in tried => e < extranonce_counter
    /\ \A t \in Threads : Sweeping(t) =>
         /\ extranonce2[t] < extranonce_counter
         /\ \A b \in Starts : <<extranonce2[t], b>> \in tried => b < start[t]
    /\ \A t, u \in Threads :
         Sweeping(t) /\ Sweeping(u) /\ t # u => extranonce2[t] # extranonce2[u]

\* A thread with a late batch behind it cannot pass is_current again.
LateStops ==
  \A t \in Threads :
    /\ late[t] <= 1
    /\ late[t] # 0 => gen[t] < generation
    /\ pc[t] \in {"load", "genCheck", "solvedCheck", "claim", "solvedLoop", "search"} => late[t] = 0

IInv ==
  /\ TypeOK
  /\ StoreThenBump
  /\ HeldWork
  /\ Tickets
  /\ LateStops
  /\ SolvedHasShare

-----------------------------------------------------------------------------
\* The counter stays within extranonce2's width, and below it is a plain
\* increment (encode_extranonce2, worker.rs:197-205).
LEMMA CounterStep ==
  ASSUME NEW c \in Extranonces
  PROVE  /\ (c + 1) % Extranonce2Space \in Extranonces
         /\ c + 1 # Extranonce2Space => (c + 1) % Extranonce2Space = c + 1
  BY MinerWorkAssumption DEF Extranonces

LEMMA InitIInv == Init => IInv
<1> SUFFICES ASSUME Init PROVE IInv
  OBVIOUS
<1> USE MinerWorkAssumption DEF Init
<1>1. TypeOK
  <2>1. /\ 0 \in Extranonces
        /\ 0 \in Starts
        /\ "clone" \in Places
    BY DEF Extranonces, Starts, Places
  <2>2. installing \in BOOLEAN /\ wrapped \in BOOLEAN
    OBVIOUS
  <2> QED
    BY <2>1, <2>2 DEF TypeOK
<1>2. StoreThenBump /\ HeldWork
  BY DEF StoreThenBump, HeldWork, Holding, NoJob
<1>3. Tickets /\ LateStops
  BY DEF Tickets, Sweeping, LateStops
<1>4. SolvedHasShare
  BY DEF SolvedHasShare
<1> QED
  BY <1>1, <1>2, <1>3, <1>4 DEF IInv

\* The steps of the network thread.
LEMMA InstallIInv == IInv /\ (SetStore \/ SetBump) => IInv'
<1> SUFFICES ASSUME IInv, SetStore \/ SetBump PROVE IInv'
  OBVIOUS
<1> USE MinerWorkAssumption DEF IInv, TypeOK, StoreThenBump, Jobs, NoJob
<1>1. TypeOK'
  <2>1. installing' \in BOOLEAN
    BY DEF SetStore, SetBump
  <2> QED
    BY <2>1 DEF SetStore, SetBump, shared, local
<1>2. StoreThenBump'
  BY DEF SetStore, SetBump
<1>3. HeldWork'
  BY DEF SetStore, SetBump, HeldWork, Holding, shared, local
<1>4. Tickets'
  BY DEF SetStore, SetBump, Tickets, Sweeping, shared, local
<1>5. LateStops'
  BY DEF SetStore, SetBump, LateStops, shared, local
<1>6. SolvedHasShare'
  BY DEF SetStore, SetBump, SolvedHasShare, shared, local
<1> QED
  BY <1>1, <1>2, <1>3, <1>4, <1>5, <1>6

\* The steps of a mining thread, one lemma per conjunct of IInv.
LEMMA ThreadTypeOK ==
  ASSUME IInv, NEW t \in Threads, Thread(t)
  PROVE  TypeOK'
<1>0. 0 \in Extranonces /\ 0 \in Starts
  BY MinerWorkAssumption DEF Extranonces, Starts
<1> USE MinerWorkAssumption
    DEF IInv, TypeOK, Places, Goto, shared, local, workState
<1>1. CASE SnapshotClone(t)
  BY <1>1 DEF SnapshotClone, NoJob
<1>2. CASE SnapshotLoad(t)
  BY <1>2 DEF SnapshotLoad
<1>3. CASE CheckBeforeClaim(t)
  BY <1>3 DEF CheckBeforeClaim, IsCurrent
<1>4. CASE ClaimExtranonce(t)
  BY <1>4, CounterStep DEF ClaimExtranonce, Starts
<1>5. CASE CheckBeforeBatch(t)
  BY <1>0, <1>5 DEF CheckBeforeBatch, IsCurrent, KeepSweep, LeaveSweep
<1>6. CASE SearchBatch(t)
  BY <1>0, <1>6 DEF SearchBatch, LastBatch, LeaveSweep, Starts
<1>7. CASE MarkSolved(t)
  BY <1>7 DEF MarkSolved
<1>8. CASE Submit(t)
  BY <1>8 DEF Submit, Share
<1>9. CASE WaitForNewWork(t)
  BY <1>9 DEF WaitForNewWork
<1> QED
  BY <1>1, <1>2, <1>3, <1>4, <1>5, <1>6, <1>7, <1>8, <1>9 DEF Thread

\* The clone sees at most one job more than the load that follows it.
LEMMA ThreadHeldWork ==
  ASSUME IInv, NEW t \in Threads, Thread(t)
  PROVE  StoreThenBump' /\ HeldWork'
<1> USE DEF IInv, TypeOK, Places, StoreThenBump, HeldWork, Holding, Jobs, NoJob, Goto, shared, local, workState
<1>1. CASE SnapshotClone(t)
  BY <1>1 DEF SnapshotClone
<1>2. CASE SnapshotLoad(t)
  BY <1>2 DEF SnapshotLoad
<1>3. CASE CheckBeforeClaim(t)
  BY <1>3 DEF CheckBeforeClaim, IsCurrent
<1>4. CASE ClaimExtranonce(t)
  BY <1>4 DEF ClaimExtranonce
<1>5. CASE CheckBeforeBatch(t)
  BY <1>5 DEF CheckBeforeBatch, IsCurrent, KeepSweep, LeaveSweep
<1>6. CASE SearchBatch(t)
  BY <1>6 DEF SearchBatch, LeaveSweep
<1>7. CASE MarkSolved(t)
  BY <1>7 DEF MarkSolved
<1>8. CASE Submit(t)
  BY <1>8 DEF Submit
<1>9. CASE WaitForNewWork(t)
  BY <1>9 DEF WaitForNewWork
<1> QED
  BY <1>1, <1>2, <1>3, <1>4, <1>5, <1>6, <1>7, <1>8, <1>9 DEF Thread

\* A claim takes an extranonce no sweep holds and no batch was tried with.
LEMMA ThreadTickets ==
  ASSUME IInv, NEW t \in Threads, Thread(t)
  PROVE  Tickets'
<1> USE DEF IInv, TypeOK, Places, Tickets, Sweeping, Goto, shared, local, workState
<1>1. CASE SnapshotClone(t)
  BY <1>1 DEF SnapshotClone
<1>2. CASE SnapshotLoad(t)
  BY <1>2 DEF SnapshotLoad
<1>3. CASE CheckBeforeClaim(t)
  BY <1>3 DEF CheckBeforeClaim, IsCurrent
<1>4. CASE ClaimExtranonce(t)
  <2> SUFFICES ASSUME ~wrapped' PROVE Tickets'
    BY DEF Tickets
  <2>1. /\ ~wrapped
        /\ extranonce_counter' = extranonce_counter + 1
        /\ tried' = tried
    BY <1>4, CounterStep DEF ClaimExtranonce
  <2>2. /\ Sweeping(t)' /\ extranonce2'[t] = extranonce_counter
        /\ \A u \in Threads \ {t} :
             /\ extranonce2'[u] = extranonce2[u] /\ start'[u] = start[u]
             /\ Sweeping(u)' <=> Sweeping(u)
    BY <1>4 DEF ClaimExtranonce
  <2>3. extranonce_counter \in Int /\ \A u \in Threads : extranonce2[u] \in Int
    BY DEF Extranonces
  <2>4. \A e \in Extranonces, b \in Starts : <<e, b>> \in tried' => e < extranonce_counter'
    BY <2>1 DEF Extranonces
  <2>5. \A b \in Starts : <<extranonce2'[t], b>> \notin tried'
    BY <2>1, <2>2, <2>3
  <2>6. \A u \in Threads : Sweeping(u)' =>
          /\ extranonce2'[u] < extranonce_counter'
          /\ \A b \in Starts : <<extranonce2'[u], b>> \in tried' => b < start'[u]
    <3> TAKE u \in Threads
    <3>1. CASE u = t
      BY <3>1, <2>1, <2>2, <2>3, <2>5
    <3>2. CASE u # t
      BY <3>2, <2>1, <2>2, <2>3
    <3> QED
      BY <3>1, <3>2
  <2>7. \A u, v \in Threads :
          Sweeping(u)' /\ Sweeping(v)' /\ u # v => extranonce2'[u] # extranonce2'[v]
    <3> TAKE u, v \in Threads
    <3>1. CASE u = t \/ v = t
      BY <3>1, <2>1, <2>2, <2>3
    <3>2. CASE u # t /\ v # t
      BY <3>2, <2>1, <2>2
    <3> QED
      BY <3>1, <3>2
  <2> QED
    BY <2>4, <2>6, <2>7
<1>5. CASE CheckBeforeBatch(t)
  BY <1>5 DEF CheckBeforeBatch, IsCurrent, KeepSweep, LeaveSweep
<1>6. CASE SearchBatch(t)
  BY <1>6 DEF SearchBatch, LastBatch, LeaveSweep, Starts
<1>7. CASE MarkSolved(t)
  BY <1>7 DEF MarkSolved
<1>8. CASE Submit(t)
  BY <1>8 DEF Submit
<1>9. CASE WaitForNewWork(t)
  BY <1>9 DEF WaitForNewWork
<1> QED
  BY <1>1, <1>2, <1>3, <1>4, <1>5, <1>6, <1>7, <1>8, <1>9 DEF Thread

\* A batch counts as late only when the generation has moved past the thread's.
LEMMA ThreadLateStops ==
  ASSUME IInv, NEW t \in Threads, Thread(t)
  PROVE  LateStops'
<1> USE DEF IInv, TypeOK, Places, LateStops, HeldWork, GenerationIs, Goto, shared, local, workState
<1>1. CASE SnapshotClone(t)
  BY <1>1 DEF SnapshotClone
<1>2. CASE SnapshotLoad(t)
  BY <1>2 DEF SnapshotLoad
<1>3. CASE CheckBeforeClaim(t)
  BY <1>3 DEF CheckBeforeClaim, IsCurrent
<1>4. CASE ClaimExtranonce(t)
  BY <1>4 DEF ClaimExtranonce
<1>5. CASE CheckBeforeBatch(t)
  BY <1>5 DEF CheckBeforeBatch, IsCurrent, KeepSweep, LeaveSweep
<1>6. CASE SearchBatch(t)
  BY <1>6 DEF SearchBatch, LastBatch, LeaveSweep
<1>7. CASE MarkSolved(t)
  BY <1>7 DEF MarkSolved
<1>8. CASE Submit(t)
  BY <1>8 DEF Submit
<1>9. CASE WaitForNewWork(t)
  BY <1>9 DEF WaitForNewWork
<1> QED
  BY <1>1, <1>2, <1>3, <1>4, <1>5, <1>6, <1>7, <1>8, <1>9 DEF Thread

\* A marked solution stays on its way to the pool until it is there.
LEMMA ThreadSolvedHasShare ==
  ASSUME IInv, NEW t \in Threads, Thread(t)
  PROVE  SolvedHasShare'
<1> USE DEF IInv, TypeOK, SolvedHasShare, Goto, shared, local, workState
<1>1. CASE SnapshotClone(t)
  BY <1>1 DEF SnapshotClone
<1>2. CASE SnapshotLoad(t)
  BY <1>2 DEF SnapshotLoad
<1>3. CASE CheckBeforeClaim(t)
  BY <1>3 DEF CheckBeforeClaim, IsCurrent
<1>4. CASE ClaimExtranonce(t)
  BY <1>4 DEF ClaimExtranonce
<1>5. CASE CheckBeforeBatch(t)
  BY <1>5 DEF CheckBeforeBatch, IsCurrent, KeepSweep, LeaveSweep
<1>6. CASE SearchBatch(t)
  BY <1>6 DEF SearchBatch, LeaveSweep
<1>7. CASE MarkSolved(t)
  <2>1. pc'[t] = "submit" /\ gen'[t] = solved'
    BY <1>7 DEF MarkSolved
  <2> QED
    BY <2>1
<1>8. CASE Submit(t)
  <2>1. /\ solved' = solved /\ gen' = gen
        /\ gen[t] \in outbound'
        /\ outbound \subseteq outbound'
        /\ \A u \in Threads \ {t} : pc'[u] = pc[u]
    BY <1>8 DEF Submit
  <2> QED
    BY <2>1
<1>9. CASE WaitForNewWork(t)
  BY <1>9 DEF WaitForNewWork
<1> QED
  BY <1>1, <1>2, <1>3, <1>4, <1>5, <1>6, <1>7, <1>8, <1>9 DEF Thread

-----------------------------------------------------------------------------
LEMMA StutterIInv == IInv /\ UNCHANGED vars => IInv'
  BY DEF IInv, TypeOK, StoreThenBump, HeldWork, Holding, Tickets, Sweeping, LateStops,
         SolvedHasShare, vars, workState, shared, local

LEMMA NextIInv == IInv /\ [Next]_vars => IInv'
<1> SUFFICES ASSUME IInv, [Next]_vars PROVE IInv'
  OBVIOUS
<1>1. CASE SetStore \/ SetBump
  BY <1>1, InstallIInv
<1>2. CASE \E t \in Threads : Thread(t)
  BY <1>2, ThreadTypeOK, ThreadHeldWork, ThreadTickets, ThreadLateStops,
     ThreadSolvedHasShare DEF IInv
<1>3. CASE UNCHANGED vars
  BY <1>3, StutterIInv
<1> QED
  BY <1>1, <1>2, <1>3 DEF Next

LEMMA SpecIInv == Spec => []IInv
  BY InitIInv, NextIInv, PTL DEF Spec

-----------------------------------------------------------------------------
\* Every variable of mac-miner's WorkState, Shared and mining threads keeps its
\* type; in particular every generation a thread submits under is one that was.
THEOREM TypeCorrect == Spec => []TypeOK
<1>1. IInv => TypeOK
  BY DEF IInv
<1> QED
  BY <1>1, SpecIInv, PTL

\* A job taken under the generation before its own is given up at the next
\* is_current: snapshot's two reads (work.rs:69-73) are off by one bump at most.
THEOREM NewerWorkIsTransientCorrect == Spec => []NewerWorkIsTransient
<1>1. IInv => NewerWorkIsTransient
  BY DEF IInv, TypeOK, NewerWorkIsTransient, HeldWork, StoreThenBump, Jobs, NoJob
<1> QED
  BY <1>1, SpecIInv, PTL

\* No batch of nonces is searched twice, by any two of the threads, until the
\* extranonce counter has used up extranonce2's width (worker.rs:51-53, 97-99).
THEOREM NoBatchTwiceCorrect == Spec => []NoBatchTwice
<1>1. IInv => NoBatchTwice
  <2> SUFFICES ASSUME IInv, ~wrapped, NEW t \in Threads, pc[t] = "search",
                      <<extranonce2[t], start[t]>> \in tried
               PROVE  FALSE
    BY DEF NoBatchTwice
  <2>1. extranonce2[t] \in Extranonces /\ start[t] \in Starts
    BY DEF IInv, TypeOK
  <2>2. start[t] < start[t]
    BY <2>1 DEF IInv, Tickets, Sweeping
  <2> QED
    BY <2>1, <2>2 DEF Starts
<1> QED
  BY <1>1, SpecIInv, PTL

\* A superseded generation costs each thread one more batch at most
\* (worker.rs:21-24, 106).
THEOREM AtMostOneLateBatchCorrect == Spec => []AtMostOneLateBatch
<1>1. IInv => AtMostOneLateBatch
  BY DEF IInv, LateStops, AtMostOneLateBatch
<1> QED
  BY <1>1, SpecIInv, PTL

\* The threads never stop for a solution that does not reach the pool
\* (worker.rs:112-115).
THEOREM SolvedHasShareCorrect == Spec => []SolvedHasShare
<1>1. IInv => SolvedHasShare
  BY DEF IInv
<1> QED
  BY <1>1, SpecIInv, PTL

=============================================================================
