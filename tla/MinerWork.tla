----------------------------- MODULE MinerWork -----------------------------
(***************************************************************************)
(* The part of mac-miner every core runs at once: WorkState (work.rs), the *)
(* hashing loop (worker.rs) and the network loop's `install` (main.rs).    *)
(*                                                                         *)
(* Every atomic access is a step of its own, because that is where the     *)
(* threads interleave: WorkState::set stores the work and only then bumps  *)
(* the generation, WorkState::snapshot clones the work and only then reads *)
(* the generation, and is_current reads two atomics one after the other.   *)
(*                                                                         *)
(* A job is the number of WorkState::set calls up to the one that stored   *)
(* it, so that "job n belongs to generation n" is an equality.             *)
(***************************************************************************)
EXTENDS Integers, FiniteSets

CONSTANTS
  Threads,          \* the mining threads, --threads of them
  MaxJobs,          \* bound: how many jobs the pool announces
  Batches,          \* batches in one nonce sweep, 2^32 / BATCH in the code
  Extranonce2Space  \* 256 ^ extranonce2_size different extranonces

ASSUME MinerWorkAssumption ==
  /\ MaxJobs \in Nat
  /\ Batches \in Nat \ {0}
  /\ Extranonce2Space \in Nat \ {0}

VARIABLES
  \* WorkState
  current,     \* the job stored under the mutex, NoJob before the first
  generation,  \* how many times it was replaced
  solved,      \* the generation a solution was last reported for
  \* the network thread
  installing,  \* inside set(), between the store and the bump
  \* Shared
  extranonce_counter,  \* the next extranonce2, modulo its width
  outbound,            \* the shares handed to the connection's writer so far
  \* one mining thread each
  pc, work, gen, extranonce2, start,
  \* history
  wrapped,     \* the extranonce counter has gone past its width
  late,        \* batches a thread has begun on a superseded generation
  tried        \* every <<extranonce2, batch>> searched, until `wrapped`

shared  == <<extranonce_counter, outbound, wrapped>>
workState == <<current, generation, solved>>
local == <<work, gen, extranonce2, start>>
vars == <<workState, installing, shared, pc, local, late, tried>>

NoJob == 0
Jobs == 1 .. MaxJobs
\* u64::MAX in the code: no generation ever equals it.
Unsolved == -1
Starts == 0 .. Batches - 1
Extranonces == 0 .. Extranonce2Space - 1
\* A submission is the generation it was found under; its job, extranonce, nonce
\* and JSON-RPC id are left out, nothing here depends on them.
Share == 0 .. MaxJobs

\* Where a mining thread is in `mine`. The two loads of is_current are two
\* places, before the claim (worker.rs:92) and before each batch (106).
Places == {"clone", "load",                \* snapshot
           "genCheck", "solvedCheck",      \* is_current, before the claim
           "claim",
           "genLoop", "solvedLoop",        \* is_current, before a batch
           "search", "mark", "submit", "wait"}

Init ==
  /\ current = NoJob
  /\ generation = 0
  /\ solved = Unsolved
  /\ installing = FALSE
  /\ extranonce_counter = 0
  /\ outbound = {}
  /\ pc = [t \in Threads |-> "clone"]
  /\ work = [t \in Threads |-> NoJob]
  /\ gen = [t \in Threads |-> 0]
  /\ extranonce2 = [t \in Threads |-> 0]
  /\ start = [t \in Threads |-> 0]
  /\ wrapped = FALSE
  /\ late = [t \in Threads |-> 0]
  /\ tried = {}

Goto(t, place) == pc' = [pc EXCEPT ![t] = place]

-----------------------------------------------------------------------------
(* The network thread: mining.notify reaches install, which calls set.     *)

\* Bug: set() forgets to bump the generation.
SetStoreOnly ==
  /\ ~installing
  /\ current < MaxJobs
  /\ current' = current + 1
  /\ UNCHANGED <<generation, solved, installing, shared, pc, local, late, tried>>

\* The lock is released at the end of the statement that stores the job.
SetStore ==
  /\ ~installing
  /\ generation < MaxJobs
  /\ current' = generation + 1
  /\ installing' = TRUE
  /\ UNCHANGED <<generation, solved, shared, pc, local, late, tried>>

SetBump ==
  /\ installing
  /\ generation' = generation + 1
  /\ installing' = FALSE
  /\ UNCHANGED <<current, solved, shared, pc, local, late, tried>>

-----------------------------------------------------------------------------
(* A mining thread.                                                        *)

\* snapshot's first half. With no job yet the thread sleeps and asks again.
SnapshotClone(t) ==
  /\ pc[t] = "clone"
  /\ current # NoJob
  /\ work' = [work EXCEPT ![t] = current]
  /\ late' = [late EXCEPT ![t] = 0]
  /\ Goto(t, "load")
  /\ UNCHANGED <<workState, installing, shared, gen, extranonce2, start, tried>>

\* snapshot's second half.
SnapshotLoad(t) ==
  /\ pc[t] = "load"
  /\ gen' = [gen EXCEPT ![t] = generation]
  /\ Goto(t, "genCheck")
  /\ UNCHANGED <<workState, installing, shared, work, extranonce2, start, late, tried>>

GenerationIs(t) == generation = gen[t]
\* Bug: a solved flag that is not tied to a generation.
AnySolved(t) == solved # Unsolved

SolvedIs(t) == solved = gen[t]

\* is_current's && is short-circuit: `solved` is read in a later step, and only
\* when the generation matched.
IsCurrent(t, genPlace, solvedPlace, yes, no) ==
  /\ \/ pc[t] = genPlace /\ GenerationIs(t) /\ Goto(t, solvedPlace)
     \/ pc[t] = genPlace /\ ~GenerationIs(t) /\ Goto(t, no)
     \/ pc[t] = solvedPlace /\ ~SolvedIs(t) /\ Goto(t, yes)
     \/ pc[t] = solvedPlace /\ SolvedIs(t) /\ Goto(t, no)
  /\ UNCHANGED <<workState, installing, shared, work, gen, late, tried>>

CheckBeforeClaim(t) ==
  /\ IsCurrent(t, "genCheck", "solvedCheck", "claim", "wait")
  /\ UNCHANGED <<extranonce2, start>>

\* extranonce2 and start are the sweep's own variables, and end with it.
LeaveSweep(t) ==
  /\ extranonce2' = [extranonce2 EXCEPT ![t] = 0]
  /\ start' = [start EXCEPT ![t] = 0]

KeepSweep(t) ==
  IF pc'[t] = "clone" THEN LeaveSweep(t) ELSE UNCHANGED <<extranonce2, start>>

\* Bug: the loop tests only `solved` between batches.
CheckSolvedBeforeBatch(t) ==
  /\ \/ /\ pc[t] = "genLoop"
        /\ Goto(t, "solvedLoop")
        /\ UNCHANGED <<workState, installing, shared, work, gen, late, tried>>
     \/ IsCurrent(t, "never", "solvedLoop", "search", "clone")
  /\ KeepSweep(t)

CheckBeforeBatch(t) ==
  /\ IsCurrent(t, "genLoop", "solvedLoop", "search", "clone")
  /\ KeepSweep(t)

\* Bug: a load where the fetch_add should be.
ClaimWithoutIncrement(t) ==
  /\ pc[t] = "claim"
  /\ extranonce2' = [extranonce2 EXCEPT ![t] = extranonce_counter]
  /\ start' = [start EXCEPT ![t] = 0]
  /\ Goto(t, "genLoop")
  /\ UNCHANGED <<workState, installing, shared, work, gen, late, tried>>

\* Bug: the counter is used at its full width.
ClaimUntruncated(t) ==
  /\ pc[t] = "claim"
  /\ extranonce2' = [extranonce2 EXCEPT ![t] = extranonce_counter]
  /\ extranonce_counter' = extranonce_counter + 1
  /\ wrapped' = (wrapped \/ extranonce_counter + 1 = Extranonce2Space)
  /\ start' = [start EXCEPT ![t] = 0]
  /\ Goto(t, "genLoop")
  /\ tried' = IF wrapped' THEN {} ELSE tried
  /\ UNCHANGED <<workState, installing, outbound, work, gen, late>>

\* One fetch_add per nonce sweep; encode_extranonce2 keeps the low bytes.
ClaimExtranonce(t) ==
  /\ pc[t] = "claim"
  /\ extranonce2' = [extranonce2 EXCEPT ![t] = extranonce_counter]
  /\ extranonce_counter' = (extranonce_counter + 1) % Extranonce2Space
  /\ wrapped' = (wrapped \/ extranonce_counter + 1 = Extranonce2Space)
  /\ start' = [start EXCEPT ![t] = 0]
  /\ Goto(t, "genLoop")
  /\ tried' = IF wrapped' THEN {} ELSE tried
  /\ UNCHANGED <<workState, installing, outbound, work, gen, late>>

\* batch_end saturates, so the last batch ends the sweep.
LastBatch(t) == start[t] = Batches - 1

\* One batch of search. Whether it holds a solution is up to the hashes.
SearchBatch(t) ==
  /\ pc[t] = "search"
  /\ \/ Goto(t, "mark") /\ LeaveSweep(t)
     \/ LastBatch(t) /\ Goto(t, "clone") /\ LeaveSweep(t)
     \/ /\ ~LastBatch(t)
        /\ start' = [start EXCEPT ![t] = @ + 1]
        /\ UNCHANGED extranonce2
        /\ Goto(t, "genLoop")
  /\ tried' = IF wrapped THEN tried ELSE tried \cup {<<extranonce2[t], start[t]>>}
  /\ late' = IF GenerationIs(t) THEN late ELSE [late EXCEPT ![t] = @ + 1]
  /\ UNCHANGED <<workState, installing, shared, work, gen>>

\* Bug: the generation of the moment, not the thread's own, is marked.
MarkCurrentSolved(t) ==
  /\ pc[t] = "mark"
  /\ solved' = generation
  /\ Goto(t, "submit")
  /\ UNCHANGED <<current, generation, installing, shared, local, late, tried>>

MarkSolved(t) ==
  /\ pc[t] = "mark"
  /\ solved' = gen[t]
  /\ Goto(t, "submit")
  /\ UNCHANGED <<current, generation, installing, shared, local, late, tried>>

\* Bug: the thread returns, instead of breaking out of the sweep.
SubmitAndReturn(t) ==
  /\ pc[t] = "submit"
  /\ outbound' = outbound \cup {gen[t]}
  /\ Goto(t, "returned")
  /\ UNCHANGED <<workState, installing, extranonce_counter, wrapped, local, late, tried>>

Submit(t) ==
  /\ pc[t] = "submit"
  /\ outbound' = outbound \cup {gen[t]}
  /\ Goto(t, "wait")
  /\ UNCHANGED <<workState, installing, extranonce_counter, wrapped, local, late, tried>>

\* wait_for_new_work returns when the generation has moved or, NEW_WORK_TIMEOUT
\* later, when it has not; `mine` starts over either way, so the step is one.
WaitForNewWork(t) ==
  /\ pc[t] = "wait"
  /\ Goto(t, "clone")
  /\ UNCHANGED <<workState, installing, shared, local, late, tried>>

Thread(t) ==
  \/ SnapshotClone(t)
  \/ SnapshotLoad(t)
  \/ CheckBeforeClaim(t)
  \/ ClaimExtranonce(t)
  \/ CheckBeforeBatch(t)
  \/ SearchBatch(t)
  \/ MarkSolved(t)
  \/ Submit(t)
  \/ WaitForNewWork(t)

Next == SetStore \/ SetBump \/ \E t \in Threads : Thread(t)

Spec == Init /\ [][Next]_vars

\* The operating system runs every thread; nothing obliges the pool to
\* announce another job, but a set() that began is finished.
FairSpec ==
  /\ Spec
  /\ WF_vars(SetBump)
  /\ \A t \in Threads : WF_vars(Thread(t))

-----------------------------------------------------------------------------
TypeOK ==
  /\ current \in {NoJob} \cup Jobs
  /\ generation \in 0 .. MaxJobs
  /\ solved \in {Unsolved} \cup (0 .. MaxJobs)
  /\ installing \in BOOLEAN
  /\ extranonce_counter \in Extranonces
  /\ outbound \subseteq Share
  /\ pc \in [Threads -> Places]
  /\ work \in [Threads -> {NoJob} \cup Jobs]
  /\ gen \in [Threads -> 0 .. MaxJobs]
  /\ extranonce2 \in [Threads -> Extranonces]
  /\ start \in [Threads -> Starts]
  /\ wrapped \in BOOLEAN
  /\ late \in [Threads -> Nat]
  /\ tried \subseteq Extranonces \X Starts

\* The thread has returned from snapshot and holds a job.
Holding(t) == pc[t] \notin {"clone", "load"}

\* snapshot can pair a job with the generation before it (clone after the store,
\* load before the bump). Then the pending bump, or one that already happened,
\* makes is_current false: no thread keeps grinding under a generation that is
\* older than its job (work.rs:60-73).
NewerWorkIsTransient ==
  \A t \in Threads : Holding(t) /\ work[t] > gen[t] =>
    /\ work[t] = gen[t] + 1
    /\ generation > gen[t] \/ installing

\* "no two threads ever build the same coinbase" (worker.rs:51-52), and no
\* thread searches a batch again: until the counter outgrows extranonce2's
\* width, a batch that is about to be searched never was, by any thread.
NoBatchTwice ==
  ~wrapped => \A t \in Threads : pc[t] = "search" =>
    <<extranonce2[t], start[t]>> \notin tried

\* "between batches a thread can notice new work" (worker.rs:21-24): once a
\* generation is superseded a thread begins at most one more batch on it, the one
\* whose is_current had already read the generation.
AtMostOneLateBatch == \A t \in Threads : late[t] <= 1

\* Every thread stops on `solved` (work.rs:38-43), so it must never be set
\* for a generation under which no candidate reaches, or has reached, the pool.
SolvedHasShare ==
  solved # Unsolved =>
    \/ solved \in outbound
    \/ \E t \in Threads : pc[t] = "submit" /\ gen[t] = solved

\* Bumping the generation is how the network thread says "stop what you are
\* doing" (work.rs:11-13): each thread on an older generation gets to the newest.
NewWorkReachesEveryThread ==
  \A t \in Threads : gen[t] < generation ~> gen[t] = generation

\* Nobody sleeps through an open job: from each new generation on, some thread
\* searches under it, unless a solution is reported for it or it is replaced.
CurrentJobIsWorkedOn ==
  \A g \in Jobs :
    generation = g ~> \/ solved = g
                      \/ generation > g
                      \/ \E t \in Threads : pc[t] = "search" /\ gen[t] = g

\* "Returned together so the loop can tell whether what it is holding is still
\* current" (work.rs:67-68): a thread whose generation is the current one does not
\* hold a job that has been superseded.
HeldJobIsCurrent ==
  \A t \in Threads : Holding(t) /\ gen[t] = generation => work[t] >= generation

\* is_current is false "once this generation has been solved" (work.rs:94-95)
\* and "every thread working that generation will stop" (86-87): while a solved
\* generation is the current one it stays solved.
SolvedStaysSolved ==
  [][solved = generation => solved' = solved \/ generation' # generation]_vars

=============================================================================
