------------------------------ MODULE SoloPool ------------------------------
(***************************************************************************)
(* The pool: PoolState (state.rs), the template poller (main.rs), one      *)
(* session per connected miner (session.rs), the submission of a solved    *)
(* block (validate.rs), and bitcoind as the environment the code sees      *)
(* through getblocktemplate and submitblock.                               *)
(*                                                                         *)
(* The poller and the sessions are threads. A step is what a thread does   *)
(* between two points where the others can run: one hold of PoolState's    *)
(* mutex, or one RPC. What a session read under the mutex it keeps, and    *)
(* uses in a later step.                                                   *)
(*                                                                         *)
(* Replies are left out: a session answers each request once, in order, on *)
(* the channel its notifications use, and no state depends on the answer.  *)
(***************************************************************************)
EXTENDS Integers, Sequences

CONSTANTS
  Conns,        \* the connections miners make, each used once
  MaxTip,       \* bound: height of the node's chain
  MaxJobs,      \* bound: jobs the pool installs
  Bits,         \* the difficulties the node can ask for on one tip
  JOB_HISTORY,  \* how many recent jobs stay valid
  Refresh,      \* REFRESH_INTERVAL, in ticks of the model's clock
  Outage,       \* MAX_TEMPLATE_OUTAGE, in ticks
  None          \* Option::None

ASSUME SoloPoolAssumption ==
  /\ MaxTip \in Nat \ {0}
  /\ MaxJobs \in Nat
  /\ Bits # {}
  /\ JOB_HISTORY \in Nat \ {0}
  /\ Refresh \in Nat \ {0}
  /\ Outage \in Nat /\ Refresh < Outage

VARIABLES
  \* the node
  tip, bits,
  \* PoolState: recent jobs, most recent first, the connections that get
  \* pushed work, and whether the poller's wake-up channel holds anything
  jobs, subscribers, wakeups,
  \* the poller: where it is, the job it is building, what the last installed
  \* job was built on, and the ticks since then
  poller, building, last, age,
  \* one session per connection: where its reader is, whether it authorized,
  \* the job it read from PoolState, whether its writer thread still runs
  session, authorized, seen, writing,
  \* one miner each: the jobs it was notified of, and the latest notification
  heard, told,
  \* history: the sessions that authorized while subscribed, whether a block of
  \* ours was accepted since the poller's last fetch, jobs installed
  joined, unfetched, installed

node == <<tip, bits>>
poolState == <<jobs, subscribers, wakeups>>
pollerVars == <<poller, building, last, age>>
sessionVars == <<session, authorized, seen, writing>>
miner == <<heard, told>>
history == <<joined, unfetched, installed>>
vars == <<node, poolState, pollerVars, sessionVars, miner, history>>

Tips == 1 .. MaxTip
\* What makes work worthless when it changes: the tip and the difficulty.
Template == [tip : Tips, bits : Bits]
\* job_id is the job's place in the order of installation. The code's counter
\* also skips an id for each failed build; ids are only compared for equality.
Job == [id : 1 .. MaxJobs, on : Template, clean : BOOLEAN]

ASSUME NoneAssumption == None \notin Job \cup Template \cup Nat

Running == poller # "exited"
CurrentTemplate == [tip |-> tip, bits |-> bits]

Init ==
  /\ tip = 1
  /\ bits \in Bits
  /\ jobs = <<>>
  /\ subscribers = {}
  /\ wakeups = FALSE
  /\ poller = "fetch"
  /\ building = None
  /\ last = None
  /\ age = 0
  /\ session = [c \in Conns |-> "new"]
  /\ authorized = [c \in Conns |-> FALSE]
  /\ seen = [c \in Conns |-> None]
  /\ writing = [c \in Conns |-> TRUE]
  /\ heard = [c \in Conns |-> {}]
  /\ told = [c \in Conns |-> None]
  /\ joined = {}
  /\ unfetched = FALSE
  /\ installed = 0

-----------------------------------------------------------------------------
(* The node and the clock.                                                 *)

\* Somebody else's block.
NewBlock ==
  /\ Running
  /\ tip < MaxTip
  /\ tip' = tip + 1
  /\ bits' \in Bits
  /\ UNCHANGED <<poolState, pollerVars, sessionVars, miner, history>>

\* BIP 94: twenty minutes without a block, and the same tip asks for less.
DifficultyChanges ==
  /\ Running
  /\ bits' \in Bits \ {bits}
  /\ UNCHANGED <<tip, poolState, pollerVars, sessionVars, miner, history>>

Tick ==
  /\ Running
  /\ age < Outage
  /\ age' = age + 1
  /\ UNCHANGED <<node, poolState, poller, building, last, sessionVars, miner, history>>

-----------------------------------------------------------------------------
(* poll_templates.                                                         *)

\* last_tip is None until a job was installed; last_bits likewise, and then
\* it is always Some: a template whose bits do not parse never becomes a job.
Superseded(template) == last # template
Stale == age >= Refresh

PollerGoto(place) == poller' = place

FetchFails ==
  /\ poller = "fetch"
  /\ PollerGoto("check")
  /\ unfetched' = FALSE
  /\ UNCHANGED <<node, poolState, building, last, age, sessionVars, miner,
                 joined, installed>>

FetchUnchanged ==
  /\ poller = "fetch"
  /\ ~Superseded(CurrentTemplate) /\ ~Stale
  /\ PollerGoto("check")
  /\ unfetched' = FALSE
  /\ UNCHANGED <<node, poolState, building, last, age, sessionVars, miner,
                 joined, installed>>

FetchAndBuild ==
  /\ poller = "fetch"
  /\ installed < MaxJobs
  /\ Superseded(CurrentTemplate) \/ Stale
  /\ building' = [id |-> installed + 1, on |-> CurrentTemplate,
                  clean |-> Superseded(CurrentTemplate)]
  /\ PollerGoto("install")
  /\ unfetched' = FALSE
  /\ UNCHANGED <<node, poolState, last, age, sessionVars, miner,
                 joined, installed>>

\* Bug: the template is remembered although no job came of it.
BuildFailsRemembered ==
  /\ poller = "fetch"
  /\ Superseded(CurrentTemplate) \/ Stale
  /\ last' = CurrentTemplate
  /\ PollerGoto("check")
  /\ unfetched' = FALSE
  /\ UNCHANGED <<node, poolState, building, age, sessionVars, miner,
                 joined, installed>>

\* Bug: the outage is timed from the last template, not the last job.
BuildFailsResetsAge ==
  /\ poller = "fetch"
  /\ Superseded(CurrentTemplate) \/ Stale
  /\ age' = 0
  /\ PollerGoto("check")
  /\ unfetched' = FALSE
  /\ UNCHANGED <<node, poolState, building, last, sessionVars, miner,
                 joined, installed>>

\* job_builder::build refuses the template: nothing is remembered of it, so the
\* next poll finds it changed again.
BuildFails ==
  /\ poller = "fetch"
  /\ Superseded(CurrentTemplate) \/ Stale
  /\ PollerGoto("check")
  /\ unfetched' = FALSE
  /\ UNCHANGED <<node, poolState, building, last, age, sessionVars, miner,
                 joined, installed>>

\* Bug: the history keeps one job too many.
TruncateLate(recent) ==
  IF Len(recent) <= JOB_HISTORY + 1 THEN recent ELSE SubSeq(recent, 1, JOB_HISTORY + 1)

\* VecDeque::truncate drops the oldest jobs.
Truncate(recent) ==
  IF Len(recent) <= JOB_HISTORY THEN recent ELSE SubSeq(recent, 1, JOB_HISTORY)

\* set_current_job.
Install ==
  /\ poller = "install"
  /\ jobs' = Truncate(<<building>> \o jobs)
  /\ installed' = building.id
  /\ PollerGoto("broadcast")
  /\ UNCHANGED <<node, subscribers, wakeups, building, last, age, sessionVars, miner,
                 joined, unfetched>>

\* Bug: sessions busy with a request are skipped.
BroadcastToIdle ==
  /\ poller = "broadcast"
  /\ LET reached == {c \in subscribers : writing[c] /\ session[c] = "idle"}
     IN  /\ heard' = [c \in Conns |-> IF c \in reached THEN heard[c] \cup {building.id} ELSE heard[c]]
         /\ told' = [c \in Conns |-> IF c \in reached THEN building.id ELSE told[c]]
  /\ last' = building.on
  /\ age' = 0
  /\ building' = None
  /\ PollerGoto("check")
  /\ UNCHANGED <<node, jobs, subscribers, wakeups, sessionVars, history>>

\* broadcast, under a second hold of the mutex: subscribers whose writer is gone
\* are dropped. Only now does the poller remember what it built on.
Broadcast ==
  /\ poller = "broadcast"
  /\ LET reached == {c \in subscribers : writing[c]}
     IN  /\ heard' = [c \in Conns |-> IF c \in reached THEN heard[c] \cup {building.id} ELSE heard[c]]
         /\ told' = [c \in Conns |-> IF c \in reached THEN building.id ELSE told[c]]
         /\ subscribers' = reached
  /\ last' = building.on
  /\ age' = 0
  /\ building' = None
  /\ PollerGoto("check")
  /\ UNCHANGED <<node, jobs, wakeups, sessionVars, history>>

\* Bug: the wake-ups are drained before the sleep.
CheckHealthAndDrain ==
  /\ poller = "check"
  /\ wakeups' = FALSE
  /\ \/ age < Outage /\ PollerGoto("sleep")
     \/ PollerGoto("exited")
  /\ UNCHANGED <<node, jobs, subscribers, building, last, age, sessionVars, miner, history>>

\* The outage timer counts from the last job installed, not the last RPC
\* answered. The readiness check can also find the node unfit.
CheckHealth ==
  /\ poller = "check"
  /\ \/ age < Outage /\ PollerGoto("sleep")
     \/ age < Outage /\ PollerGoto("exited")   \* NotReady
     \/ age >= Outage /\ PollerGoto("exited")
  /\ UNCHANGED <<node, poolState, building, last, age, sessionVars, miner, history>>

\* recv_timeout returns after POLL_INTERVAL, or at once with a wake-up, and
\* then the rest of the channel is drained.
Wake ==
  /\ poller = "sleep"
  /\ wakeups' = FALSE
  /\ PollerGoto("fetch")
  /\ UNCHANGED <<node, jobs, subscribers, building, last, age, sessionVars, miner, history>>

Poller ==
  \/ FetchFails \/ FetchUnchanged \/ FetchAndBuild \/ BuildFails
  \/ Install \/ Broadcast \/ CheckHealth \/ Wake

-----------------------------------------------------------------------------
(* session.rs: the reader thread of connection c.                          *)

SessionGoto(c, place) == session' = [session EXCEPT ![c] = place]

Connect(c) ==
  /\ Running /\ session[c] = "new"
  /\ SessionGoto(c, "idle")
  /\ UNCHANGED <<node, poolState, pollerVars, authorized, seen, writing, miner, history>>

OnSubscribe(c) ==
  /\ Running /\ session[c] = "idle"
  /\ subscribers' = subscribers \cup {c}
  /\ UNCHANGED <<node, jobs, wakeups, pollerVars, sessionVars, miner, history>>

\* on_authorize, up to current_job() in send_current_work.
OnAuthorize(c) ==
  /\ Running /\ session[c] = "idle"
  /\ authorized' = [authorized EXCEPT ![c] = TRUE]
  /\ joined' = IF c \in subscribers THEN joined \cup {c} ELSE joined
  /\ IF jobs = <<>>
     THEN UNCHANGED <<session, seen>>
     ELSE SessionGoto(c, "notify") /\ seen' = [seen EXCEPT ![c] = Head(jobs)]
  /\ UNCHANGED <<node, poolState, pollerVars, writing, miner,
                 unfetched, installed>>

\* The rest of send_current_work: the mutex was released in between.
SendCurrentWork(c) ==
  /\ Running /\ session[c] = "notify"
  /\ IF writing[c]
     THEN /\ heard' = [heard EXCEPT ![c] = @ \cup {seen[c].id}]
          /\ told' = [told EXCEPT ![c] = seen[c].id]
     ELSE UNCHANGED miner
  /\ seen' = [seen EXCEPT ![c] = None]
  /\ SessionGoto(c, "idle")
  /\ UNCHANGED <<node, poolState, pollerVars, authorized, writing, history>>

\* on_submit up to submit_block: the share names a job that is still in the
\* history, and its hash meets the network target. Other shares change nothing
\* but the reply.
OnSubmit(c) ==
  /\ Running /\ session[c] = "idle" /\ authorized[c]
  /\ \E i \in 1 .. Len(jobs) : seen' = [seen EXCEPT ![c] = jobs[i]]
  /\ SessionGoto(c, "solved")
  /\ UNCHANGED <<node, poolState, pollerVars, authorized, writing, miner, history>>

\* submit_block. The session held the block first if its timestamp was early.
BlockAccepted(c) ==
  /\ Running /\ session[c] = "solved"
  /\ seen[c].on.tip = tip /\ tip < MaxTip
  /\ tip' = tip + 1
  /\ bits' \in Bits
  /\ unfetched' = TRUE
  /\ seen' = [seen EXCEPT ![c] = None]
  /\ SessionGoto(c, "refresh")
  /\ UNCHANGED <<poolState, pollerVars, authorized, writing, miner,
                 joined, installed>>

\* "inconclusive" or "duplicate".
BlockStale(c) ==
  /\ Running /\ session[c] = "solved"
  /\ seen[c].on.tip < tip
  /\ seen' = [seen EXCEPT ![c] = None]
  /\ SessionGoto(c, "refresh")
  /\ UNCHANGED <<node, poolState, pollerVars, authorized, writing, miner, history>>

\* Refused, or the RPC failed: no refresh is asked for. A call that failed may
\* have reached the node all the same.
BlockNotAccepted(c) ==
  /\ Running /\ session[c] = "solved"
  /\ \/ UNCHANGED node
     \/ /\ seen[c].on.tip = tip /\ tip < MaxTip
        /\ tip' = tip + 1
        /\ bits' \in Bits
  /\ seen' = [seen EXCEPT ![c] = None]
  /\ SessionGoto(c, "idle")
  /\ UNCHANGED <<poolState, pollerVars, authorized, writing, miner, history>>

RequestRefresh(c) ==
  /\ Running /\ session[c] = "refresh"
  /\ wakeups' = TRUE
  /\ SessionGoto(c, "idle")
  /\ UNCHANGED <<node, jobs, subscribers, pollerVars, authorized, seen, writing, miner, history>>

\* The reader's loop ends and unsubscribes; session and miner are gone.
Disconnect(c) ==
  /\ Running /\ session[c] = "idle"
  /\ subscribers' = subscribers \ {c}
  /\ SessionGoto(c, "closed")
  /\ authorized' = [authorized EXCEPT ![c] = FALSE]
  /\ writing' = [writing EXCEPT ![c] = FALSE]
  /\ heard' = [heard EXCEPT ![c] = {}]
  /\ told' = [told EXCEPT ![c] = None]
  /\ joined' = joined \ {c}
  /\ UNCHANGED <<node, jobs, wakeups, pollerVars, seen, unfetched, installed>>

\* A write fails and writer_loop returns; the reader does not know yet.
WriterStops(c) ==
  /\ Running /\ session[c] \notin {"new", "closed"} /\ writing[c]
  /\ writing' = [writing EXCEPT ![c] = FALSE]
  /\ UNCHANGED <<node, poolState, pollerVars, session, authorized, seen, miner, history>>

\* What a session does by itself once a request has arrived.
SessionStep(c) ==
  \/ SendCurrentWork(c)
  \/ BlockAccepted(c) \/ BlockStale(c) \/ BlockNotAccepted(c)
  \/ RequestRefresh(c)

Session(c) ==
  \/ Connect(c) \/ OnSubscribe(c) \/ OnAuthorize(c) \/ OnSubmit(c)
  \/ SessionStep(c)
  \/ Disconnect(c) \/ WriterStops(c)

\* The process has exited.
Exited == ~Running /\ UNCHANGED vars

Next ==
  \/ NewBlock \/ DifficultyChanges \/ Tick
  \/ Poller
  \/ \E c \in Conns : Session(c)
  \/ Exited

Spec == Init /\ [][Next]_vars

\* Every RPC ends, by its answer or by the client's 30 s timeout, every thread
\* is run, and time passes. Nothing obliges a miner, or the chain, to act.
FairSpec ==
  /\ Spec
  /\ WF_vars(Tick)
  /\ WF_vars(Poller)
  /\ \A c \in Conns : WF_vars(SessionStep(c))

-----------------------------------------------------------------------------
SessionPlaces == {"new", "idle", "notify", "solved", "refresh", "closed"}
PollerPlaces == {"fetch", "install", "broadcast", "check", "sleep", "exited"}

TypeOK ==
  /\ tip \in Tips
  /\ bits \in Bits
  /\ jobs \in Seq(Job) /\ Len(jobs) <= JOB_HISTORY
  /\ subscribers \subseteq Conns
  /\ wakeups \in BOOLEAN
  /\ poller \in PollerPlaces
  /\ building \in Job \cup {None}
  /\ last \in Template \cup {None}
  /\ age \in 0 .. Outage
  /\ session \in [Conns -> SessionPlaces]
  /\ authorized \in [Conns -> BOOLEAN]
  /\ seen \in [Conns -> Job \cup {None}]
  /\ writing \in [Conns -> BOOLEAN]
  /\ heard \in [Conns -> SUBSET (1 .. MaxJobs)]
  /\ told \in [Conns -> (1 .. MaxJobs) \cup {None}]
  /\ joined \subseteq Conns
  /\ unfetched \in BOOLEAN
  /\ installed \in 0 .. MaxJobs

\* A miner that subscribed before it authorized has been sent the newest job once
\* the poller has announced it: it joins between any two steps of the poller and
\* neither the broadcast nor send_current_work leaves it out (state.rs:93-152,
\* session.rs:150-168).
NoMissedJob ==
  \A c \in joined \cap subscribers :
    jobs # <<>> /\ poller # "broadcast" /\ session[c] # "notify" /\ writing[c]
      => Head(jobs).id \in heard[c]

\* A job that does not tell miners to discard their work is on the tip and the
\* difficulty of the job before it, whatever failed in between (main.rs:165-194,
\* 264-269).
RefreshKeepsOldWorkValid ==
  \A i \in 1 .. Len(jobs) - 1 : ~jobs[i].clean => jobs[i].on = jobs[i + 1].on

\* "When we accept a block we already know the tip moved" (state.rs:42-46): until
\* the poller fetches on that tip it has not gone to sleep on it, or a wake-up is
\* there or about to be sent. Draining the channel loses none.
WakeupNotLost ==
  unfetched =>
    wakeups \/ poller \in {"fetch", "exited"} \/ \E c \in Conns : session[c] = "refresh"

\* "Carrying on regardless is the worst option" (main.rs:56-60): when the tip
\* moves, by anyone's block, the pool installs a job on it or on a later one, or it
\* stops, whatever fails and however often.
DeadJobIsReplacedOrPoolStops ==
  \A n \in Tips : tip >= n ~>
    poller = "exited" \/ (jobs # <<>> /\ Head(jobs).on.tip >= n)

\* A broadcast is how miners learn of "the job miners should currently be working
\* on" (state.rs:103): with no notification under way, the last one each joined
\* miner got is of that job.
LastNotifyIsCurrent ==
  \A c \in joined \cap subscribers :
    jobs # <<>> /\ poller # "broadcast" /\ session[c] # "notify" /\ writing[c]
      => told[c] = Head(jobs).id

=============================================================================
