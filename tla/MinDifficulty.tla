--------------------------- MODULE MinDifficulty ---------------------------
(***************************************************************************)
(* Mining testnet4's minimum-difficulty window: the arithmetic of          *)
(* min_difficulty.rs, the job the poller stamps with it (main.rs:201-226)  *)
(* and the hold of a solved block until its timestamp is legal             *)
(* (validate.rs:106-154). The node is external: it accepts a block that is *)
(* not further ahead of its clock than MAX_FUTURE_BLOCK_TIME and, at the   *)
(* minimum difficulty, is further past its parent than the gap.            *)
(*                                                                         *)
(* One session's reader is enough: a hold blocks nothing but its session.  *)
(***************************************************************************)
EXTENDS Integers

CONSTANTS
  MIN_DIFFICULTY_GAP,     \* 20 * 60 in the code
  MAX_FUTURE_BLOCK_TIME,  \* 2 * 60 * 60
  MAX_SUBMISSION_HOLD,    \* 30 * 60
  U32,                    \* 2 ^ 32
  MaxNow,                 \* bound: the clock
  TimeRoll                \* what a miner may add to the job's time

\* The code's constants satisfy this, and the clock is far from the end of u32.
ASSUME MinDifficultyAssumption ==
  /\ MIN_DIFFICULTY_GAP \in Nat
  /\ MAX_FUTURE_BLOCK_TIME \in Nat
  /\ MAX_SUBMISSION_HOLD \in Nat /\ MIN_DIFFICULTY_GAP < MAX_SUBMISSION_HOLD
  /\ MaxNow \in Nat
  /\ U32 \in Nat /\ MaxNow + MAX_FUTURE_BLOCK_TIME + MIN_DIFFICULTY_GAP + 1 < U32
  /\ TimeRoll \subseteq Int

VARIABLES
  now,      \* the clock the pool and the node share
  tipTime,  \* the timestamp of the node's tip
  job,      \* the job miners have
  held,     \* the solved block its session holds
  verdict   \* what the node made of the last block submitted

windowVars == <<now, tipTime, job, held, verdict>>

\* `onTip`: the block the job builds on is still the node's tip.
WindowJob == [exists : BOOLEAN, onTip : BOOLEAN, parentTime : Nat, time : Nat, notBefore : Int]
Block == [exists : BOOLEAN, onTip : BOOLEAN, parentTime : Nat, time : Int, until : 0 .. MaxNow]
Verdicts == {"none", "accepted", "inconclusive", "time-too-new", "bad-diffbits"}

-----------------------------------------------------------------------------
(* plan: the one timestamp that qualifies, and when it becomes legal.      *)

\* Bug: no second past the gap.
NtimeAtGap(parent_time) == (parent_time + MIN_DIFFICULTY_GAP) % U32

\* The sum is an i64, its cast to u32 wraps.
Ntime(parent_time) == (parent_time + MIN_DIFFICULTY_GAP + 1) % U32

\* Bug: the window opens at its timestamp, as if no block could be early.
LegalAtNtime(parent_time) == parent_time + MIN_DIFFICULTY_GAP + 1

LegalAt(parent_time) == parent_time + MIN_DIFFICULTY_GAP + 1 - MAX_FUTURE_BLOCK_TIME

-----------------------------------------------------------------------------
WindowInit ==
  /\ now = 0
  /\ tipTime \in 0 .. MAX_FUTURE_BLOCK_TIME
  /\ job = [exists |-> FALSE, onTip |-> FALSE, parentTime |-> 0, time |-> 0, notBefore |-> 0]
  /\ held = [exists |-> FALSE, onTip |-> FALSE, parentTime |-> 0, time |-> 0, until |-> 0]
  /\ verdict = "none"

ClockTick ==
  /\ now < MaxNow
  /\ now' = now + 1
  /\ UNCHANGED <<tipTime, job, held, verdict>>

\* Another miner's block, with any timestamp the node allows.
OtherBlock ==
  /\ tipTime' \in 0 .. now + MAX_FUTURE_BLOCK_TIME
  /\ job' = [job EXCEPT !.onTip = FALSE]
  /\ held' = [held EXCEPT !.onTip = FALSE]
  /\ UNCHANGED <<now, verdict>>

\* The poller builds a job on the tip and stamps it with the window.
BuildJob ==
  /\ job' = [exists |-> TRUE, onTip |-> TRUE, parentTime |-> tipTime,
             time |-> Ntime(tipTime), notBefore |-> LegalAt(tipTime)]
  /\ UNCHANGED <<now, tipTime, held, verdict>>

\* Bug: sleeps for the timestamp, not for what is left until it.
WakeAtNotBefore(notBefore) == now + notBefore + MAX_FUTURE_BLOCK_TIME

\* When `check` has slept: at the first legal second, or when the hold is up.
WakeAt(notBefore) ==
  IF notBefore <= now THEN now
  ELSE IF notBefore - now <= MAX_SUBMISSION_HOLD THEN notBefore
  ELSE now + MAX_SUBMISSION_HOLD

\* A solved share arrives; its time is the miner's own, its bits are the job's.
\* The clock's bound leaves room for the longest hold.
Solve ==
  /\ job.exists /\ ~held.exists
  /\ now + MAX_SUBMISSION_HOLD <= MaxNow
  /\ \E roll \in TimeRoll :
       held' = [exists |-> TRUE, onTip |-> job.onTip, parentTime |-> job.parentTime,
                time |-> job.time + roll, until |-> WakeAt(job.notBefore)]
  /\ UNCHANGED <<now, tipTime, job, verdict>>

NodeVerdict(block) ==
  CASE block.time > now + MAX_FUTURE_BLOCK_TIME -> "time-too-new"
    [] block.time <= now + MAX_FUTURE_BLOCK_TIME
         /\ block.time <= block.parentTime + MIN_DIFFICULTY_GAP -> "bad-diffbits"
    [] OTHER -> IF block.onTip THEN "accepted" ELSE "inconclusive"

SubmitBlock ==
  /\ held.exists
  /\ now >= held.until
  /\ verdict' = NodeVerdict(held)
  /\ IF verdict' = "accepted"
     THEN tipTime' = held.time /\ job' = [job EXCEPT !.onTip = FALSE]
     ELSE UNCHANGED <<tipTime, job>>
  /\ held' = [held EXCEPT !.exists = FALSE]
  /\ UNCHANGED now

WindowNext == ClockTick \/ OtherBlock \/ BuildJob \/ Solve \/ SubmitBlock

WindowSpec == WindowInit /\ [][WindowNext]_windowVars

\* The clock runs, and a session that has slept is woken.
FairWindowSpec == WindowSpec /\ WF_windowVars(ClockTick) /\ WF_windowVars(SubmitBlock)

-----------------------------------------------------------------------------
WindowTypeOK ==
  /\ now \in 0 .. MaxNow
  /\ tipTime \in 0 .. MaxNow + MAX_FUTURE_BLOCK_TIME
  /\ job \in WindowJob
  /\ held \in Block
  /\ verdict \in Verdicts

\* A refusal is "always a bug on our side" (validate.rs:53-56): no block solved
\* for a window is refused, whenever it was solved, however long it was held and
\* whatever happened to the chain meanwhile.
NeverRefused == verdict \notin {"time-too-new", "bad-diffbits"}

\* A block that is held is held for the first second at which the node takes it:
\* MAX_SUBMISSION_HOLD (validate.rs:19-22, 132-139) never cuts a hold short.
HoldIsExact ==
  held.exists /\ now < held.until => held.until + MAX_FUTURE_BLOCK_TIME = held.time

\* The reader that holds a block is back within the gap: a window on a parent the
\* node accepted is never further away (min_difficulty.rs:15-23).
HoldWithinGap == held.exists => held.until - now <= MIN_DIFFICULTY_GAP + 1

\* A solved block is submitted in the end.
HeldBlockIsSubmitted == held.exists ~> ~held.exists
=============================================================================
