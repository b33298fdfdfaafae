------------------------------- MODULE Stack --------------------------------
(***************************************************************************)
(* The whole stack as scripts/mine.sh runs it, with the life of the pool's *)
(* and the miner's processes and the node whose fitness the pool checks at *)
(* its start and every minute after (readiness.rs, solo-pool's main.rs).   *)
(*                                                                         *)
(* The script may be interrupted, interrupted again while it cleans up, or *)
(* killed, and is then started again: run r is its r-th start, and owns    *)
(* the processes it started. Time is counted in coarse steps: the age of   *)
(* the node's tip, the tries of the script, and how long the node's        *)
(* headers have been ahead of its blocks.                                  *)
(***************************************************************************)
EXTENDS Integers

CONSTANTS
  Network,      \* --network
  Chain,        \* the network the node runs
  MAX_TIP_AGE,  \* the age at which a tip is still accepted
  Tries,        \* how often the script looks for the pool's announcement
  MaxRuns       \* bound: how often the script is started

ASSUME StackAssumption ==
  /\ MAX_TIP_AGE \in Nat
  /\ Tries \in Nat \ {0}
  /\ MaxRuns \in Nat \ {0}

VARIABLES
  \* the node: peers, the age of its tip, for how long headers > blocks,
  \* initialblockdownload
  peers, age, ahead, ibd,
  \* the processes of each run; a pool's log; whose pool a miner talks to
  pool, log, tail, miner, server,
  \* the script: its run, its place, its tries, how each run ended
  run, script, tries, ended

node == <<peers, age, ahead, ibd>>
processes == <<pool, log, tail, miner, server>>
shell == <<run, script, tries, ended>>
vars == <<node, processes, shell>>

Runs == 1 .. MaxRuns
Nobody == 0

Init ==
  /\ peers \in {0, 1} /\ age \in 0 .. MAX_TIP_AGE + 1 /\ ahead = 0 /\ ibd \in BOOLEAN
  /\ pool = [r \in Runs |-> "none"] /\ log = [r \in Runs |-> "empty"]
  /\ tail = [r \in Runs |-> "none"]
  /\ miner = [r \in Runs |-> "none"] /\ server = [r \in Runs |-> Nobody]
  /\ run = 1 /\ script = "clear" /\ tries = 0
  /\ ended = [r \in Runs |-> "no"]

-----------------------------------------------------------------------------
(* The node.                                                               *)

PeersChange ==
  /\ peers' = 1 - peers
  /\ UNCHANGED <<age, ahead, ibd, processes, shell>>

\* A header is known before its block is validated.
HeaderArrives ==
  /\ peers > 0 /\ ahead = 0
  /\ ahead' = 1
  /\ UNCHANGED <<peers, age, ibd, processes, shell>>

\* Once it is false, initialblockdownload stays false.
BlockConnected ==
  /\ ahead > 0
  /\ ahead' = 0 /\ age' = 0
  /\ ibd' \in {ibd, FALSE}
  /\ UNCHANGED <<peers, processes, shell>>

TimePasses ==
  /\ age <= MAX_TIP_AGE \/ ahead = 1
  /\ age' = IF age <= MAX_TIP_AGE THEN age + 1 ELSE age
  /\ ahead' = IF ahead = 0 THEN 0 ELSE 2
  /\ UNCHANGED <<peers, ibd, processes, shell>>

Node == PeersChange \/ HeaderArrives \/ BlockConnected \/ TimePasses

\* Bug: only what the node says of its own progress counts.
ReadySynced == ~(ibd \/ ahead > 0)

\* readiness::check. Regtest is a private chain without peers by design.
Ready ==
  /\ Chain = Network       \* WrongNetwork
  /\ ~(ibd \/ ahead > 0)   \* Syncing
  /\ Network # "regtest" =>
       /\ peers > 0          \* NoPeers
       /\ age <= MAX_TIP_AGE \* StaleTip

-----------------------------------------------------------------------------
(* The pool of run r.                                                      *)

PoolGoto(r, place) == pool' = [pool EXCEPT ![r] = place]
PoolRuns(r) == pool[r] \in {"starting", "fit", "listening", "ready"}
Listens(r) == pool[r] \in {"listening", "ready"}

\* The check at the start, with the payout address and the RPCs that may fail.
CheckAtStart(r) ==
  /\ pool[r] = "starting"
  /\ \/ Ready /\ PoolGoto(r, "fit")
     \/ PoolGoto(r, "dead")
  /\ UNCHANGED <<node, log, tail, miner, server, shell>>

\* The port is bound before the poller is started.
Bind(r) ==
  /\ pool[r] = "fit"
  /\ PoolGoto(r, IF \E other \in Runs : Listens(other) THEN "dead" ELSE "listening")
  /\ UNCHANGED <<node, log, tail, miner, server, shell>>

\* Bug: the poller may announce its first job before the port is bound.
AnnounceUnbound(r) ==
  /\ pool[r] \in {"fit", "listening"} /\ log[r] = "empty"
  /\ PoolGoto(r, IF pool[r] = "fit" THEN "fit" ELSE "ready")
  /\ log' = [log EXCEPT ![r] = "POOL READY"]
  /\ UNCHANGED <<node, tail, miner, server, shell>>

\* The first job was built.
Announce(r) ==
  /\ pool[r] = "listening"
  /\ PoolGoto(r, "ready")
  /\ log' = [log EXCEPT ![r] = "POOL READY"]
  /\ UNCHANGED <<node, tail, miner, server, shell>>

\* FATAL: the node is no longer fit. A check whose RPCs fail changes nothing.
RecheckFails(r) ==
  /\ Listens(r)
  /\ ~Ready
  /\ PoolGoto(r, "unfit")
  /\ UNCHANGED <<node, log, tail, miner, server, shell>>

\* FATAL: no job for MAX_TEMPLATE_OUTAGE, which module SoloPool is about.
OutageFails(r) ==
  /\ Listens(r)
  /\ PoolGoto(r, "dead")
  /\ UNCHANGED <<node, log, tail, miner, server, shell>>

Pool(r) == CheckAtStart(r) \/ Bind(r) \/ Announce(r) \/ RecheckFails(r)

-----------------------------------------------------------------------------
(* The miner of run r, a connection's life in one step each; module        *)
(* MinerSession has the details.                                           *)

MinerEnds(r, end) == miner' = [miner EXCEPT ![r] = end]

Connect(r) ==
  /\ miner[r] = "started"
  /\ \/ /\ \A other \in Runs : ~Listens(other)
        /\ MinerEnds(r, "refused")
        /\ UNCHANGED server
     \/ \E other \in Runs :
          /\ Listens(other)
          /\ server' = [server EXCEPT ![r] = other]
          /\ miner' = [miner EXCEPT ![r] = "connected"]
  /\ UNCHANGED <<node, pool, log, tail, shell>>

LosePool(r) ==
  /\ miner[r] = "connected"
  /\ ~Listens(server[r])
  /\ MinerEnds(r, "ended")
  /\ UNCHANGED <<node, pool, log, tail, server, shell>>

\* The connection breaks, or the handshake times out, with the pool alive.
LoseConnection(r) ==
  /\ miner[r] = "connected"
  /\ Listens(server[r])
  /\ MinerEnds(r, "ended")
  /\ UNCHANGED <<node, pool, log, tail, server, shell>>

Miner(r) == Connect(r) \/ LosePool(r)

MinerRuns(r) == miner[r] \in {"started", "connected"}

-----------------------------------------------------------------------------
(* mine.sh.                                                                *)

ScriptGoto(place) == script' = place
Ends(how) == ended' = [ended EXCEPT ![run] = how]

\* A pool of an earlier run that still listens is killed. lsof does not see one
\* that has not bound the port yet.
ClearTheWay ==
  /\ script = "clear"
  /\ pool' = [r \in Runs |-> IF Listens(r) THEN "dead" ELSE pool[r]]
  /\ ScriptGoto("start")
  /\ UNCHANGED <<node, log, tail, miner, server, run, tries, ended>>

\* The traps are set before it; a signal earlier finds nothing to stop.
StartPool ==
  /\ script = "start"
  /\ PoolGoto(run, "starting")
  /\ tries' = 0
  /\ ScriptGoto("await")
  /\ UNCHANGED <<node, log, tail, miner, server, run, ended>>

\* No announcement, and the pool is alive: one second later it looks again.
Await ==
  /\ script = "await" /\ log[run] = "empty" /\ PoolRuns(run) /\ tries < Tries
  /\ tries' = tries + 1
  /\ UNCHANGED <<node, processes, run, script, ended>>

\* The pool has died, or the last try is over: what it announces in the second after
\* that is not looked at. The script prints its log.
GiveUp ==
  /\ script = "await"
  /\ \/ tries = Tries
     \/ log[run] = "empty" /\ ~PoolRuns(run)
  /\ Ends("1")
  /\ ScriptGoto("cleanup")
  /\ UNCHANGED <<node, processes, run, tries>>

\* tail and grep, and then the miner, all in the background.
Launch ==
  /\ script = "await" /\ log[run] = "POOL READY" /\ tries < Tries
  /\ tail' = [tail EXCEPT ![run] = "running"]
  /\ miner' = [miner EXCEPT ![run] = "started"]
  /\ ScriptGoto("mining")
  /\ UNCHANGED <<node, pool, log, server, run, tries, ended>>

\* Bug: the script waits for all its children.
WaitForAll ==
  /\ script = "mining"
  /\ ~MinerRuns(run) /\ ~PoolRuns(run) /\ tail[run] # "running"
  /\ Ends("1")
  /\ ScriptGoto("cleanup")
  /\ UNCHANGED <<node, processes, run, tries>>

\* wait "$MINER_PID". A miner that ended by itself is a failure, whatever it says.
WaitForMiner ==
  /\ script = "mining"
  /\ ~MinerRuns(run)
  /\ Ends("1")
  /\ ScriptGoto("cleanup")
  /\ UNCHANGED <<node, processes, run, tries>>

\* The traps of INT and TERM.
Signal ==
  /\ script \in {"await", "mining"}
  /\ Ends("signal")
  /\ ScriptGoto("cleanup")
  /\ UNCHANGED <<node, processes, run, tries>>

\* Bug: the processes it remembers are killed by their ids.
CleanupByPid ==
  /\ script = "cleanup"
  /\ pool' = [pool EXCEPT ![run] = "dead"]
  /\ miner' = [miner EXCEPT ![run] = IF MinerRuns(run) THEN "killed" ELSE @]
  /\ ScriptGoto("exited")
  /\ UNCHANGED <<node, log, tail, server, run, tries, ended>>

\* cleanup, once the guard is set: pkill -P, and a wait for all.
Cleanup ==
  /\ script = "cleanup"
  /\ pool' = [pool EXCEPT ![run] = IF PoolRuns(run) THEN "dead" ELSE @]
  /\ tail' = [tail EXCEPT ![run] = "dead"]
  /\ miner' = [miner EXCEPT ![run] = IF MinerRuns(run) THEN "killed" ELSE @]
  /\ ScriptGoto("exited")
  /\ UNCHANGED <<node, log, server, run, tries, ended>>

\* A second signal, between the guard and the pkill: the handler finds the guard
\* set, returns and exits. Or the script is killed: no trap runs at all.
Abandon ==
  /\ script \in {"await", "mining", "cleanup"}
  /\ Ends("abandoned")
  /\ ScriptGoto("exited")
  /\ UNCHANGED <<node, processes, run, tries>>

StartAgain ==
  /\ script = "exited"
  /\ run < MaxRuns
  /\ run' = run + 1
  /\ ScriptGoto("clear")
  /\ UNCHANGED <<node, processes, tries, ended>>

Script == ClearTheWay \/ StartPool \/ Await \/ GiveUp \/ Launch \/ WaitForMiner \/ Cleanup

Next ==
  \/ Node
  \/ \E r \in Runs : Pool(r) \/ OutageFails(r) \/ Miner(r) \/ LoseConnection(r)
  \/ Script \/ Signal \/ Abandon \/ StartAgain

Spec == Init /\ [][Next]_vars

\* Every process is run, and not every check of the node fails for its RPCs.
FairSpec ==
  /\ Spec
  /\ \A r \in Runs : WF_vars(Pool(r)) /\ SF_vars(RecheckFails(r)) /\ WF_vars(Miner(r))
  /\ WF_vars(Script)

-----------------------------------------------------------------------------
\* Every variable keeps its range: the places of the processes and of the script.
TypeOK ==
  /\ peers \in {0, 1} /\ age \in 0 .. MAX_TIP_AGE + 1 /\ ahead \in 0 .. 2 /\ ibd \in BOOLEAN
  /\ pool \in [Runs -> {"none", "starting", "fit", "listening", "ready", "unfit", "dead"}]
  /\ log \in [Runs -> {"empty", "POOL READY"}]
  /\ tail \in [Runs -> {"none", "running", "dead"}]
  /\ miner \in [Runs -> {"none", "started", "connected", "refused", "ended", "killed"}]
  /\ server \in [Runs -> Runs \cup {Nobody}]
  /\ run \in Runs /\ tries \in 0 .. Tries
  /\ script \in {"clear", "start", "await", "mining", "cleanup", "exited"}
  /\ ended \in [Runs -> {"no", "1", "signal", "abandoned"}]

\* "Everything started here must die with the script" (mine.sh:95), whatever it was
\* waiting for and however it ends, unless it is killed or a second signal comes
\* before its pkill.
NothingOutlivesScript ==
  \A r \in Runs :
    (r < run \/ (r = run /\ script = "exited")) /\ ended[r] # "abandoned"
      => ~PoolRuns(r) /\ ~MinerRuns(r) /\ tail[r] # "running"

\* "A supervising script may launch a miner the moment it sees that" (main.rs:101-104):
\* the announcement follows the bind in another process, so a miner is only refused
\* when its pool is gone again.
RefusedOnlyWithoutPool ==
  \A r \in Runs : miner[r] = "refused" => ~PoolRuns(r)

\* A node without peers, or one whose peers deliver nothing any more.
Frozen == Network # "regtest" /\ (peers = 0 \/ age > MAX_TIP_AGE)

\* A frozen node "reports initialblockdownload: false for ever" (readiness.rs:12-14),
\* and serves templates: on a node that stays frozen no pool goes on serving.
FrozenNodeStopsPool ==
  \A r \in Runs : <>[]Frozen => <>[]~Listens(r)

\* The pool's end is the miner's, and the miner's is the script's (mine.sh:165-193):
\* with no pool running a script does not go on showing a miner at work.
ScriptEndsWithoutPool ==
  (script = "mining" /\ \A r \in Runs : ~PoolRuns(r)) ~> script = "exited"

\* The condition the re-check looks for "takes hours to develop" (main.rs:65-66): a
\* pool that was serving stops for a node that lost its peers, or whose tip is old, or
\* whose blocks have been behind its headers for a while.
StopsForLastingCause ==
  [][\A r \in Runs : pool[r] # "unfit" /\ pool'[r] = "unfit"
       => peers = 0 \/ age > MAX_TIP_AGE \/ ahead > 1]_vars
=============================================================================
