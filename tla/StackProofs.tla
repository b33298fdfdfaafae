----------------------------- MODULE StackProofs -----------------------------
(***************************************************************************)
(* What outlives the script, and when a miner is refused, for any number   *)
(* of starts of the script, of its tries and any age of a tip.             *)
(***************************************************************************)
EXTENDS Stack, TLAPS

\* A run that has not started its pool has no process at all.
NotStarted(r) == r > run \/ (r = run /\ script \in {"clear", "start"})
NotStartedOK ==
  \A r \in Runs : NotStarted(r) =>
    pool[r] = "none" /\ log[r] = "empty" /\ tail[r] = "none" /\ miner[r] = "none"

\* What is in the log says that the port was bound.
LogOK == \A r \in Runs : log[r] = "POOL READY" => pool[r] \notin {"none", "starting", "fit"}

\* A miner is started on the announcement of its own pool.
MinerOK == \A r \in Runs : miner[r] # "none" => log[r] = "POOL READY"

IInv ==
  /\ TypeOK
  /\ NotStartedOK
  /\ LogOK
  /\ MinerOK
  /\ NothingOutlivesScript
  /\ RefusedOnlyWithoutPool

-----------------------------------------------------------------------------
LEMMA InitIInv == Init => IInv
<1> SUFFICES ASSUME Init PROVE IInv
  OBVIOUS
<1>1. TypeOK
  BY StackAssumption DEF Init, TypeOK, Runs, Nobody
<1>2. NotStartedOK /\ LogOK /\ MinerOK /\ NothingOutlivesScript /\ RefusedOnlyWithoutPool
  BY StackAssumption
  DEF Init, NotStartedOK, LogOK, MinerOK, NothingOutlivesScript, RefusedOnlyWithoutPool, Runs,
      PoolRuns, MinerRuns
<1> QED
  BY <1>1, <1>2 DEF IInv

\* What the node's steps do to each of its variables.
LEMMA NodeParts ==
  Node => /\ peers' \in {peers, 1 - peers}
          /\ ahead' \in {ahead, 0, 1, 2}
          /\ ibd' \in {ibd, FALSE}
          /\ age' \in {age, 0} \/ (age <= MAX_TIP_AGE /\ age' = age + 1)
<1> USE DEF processes, shell
<1>1. CASE PeersChange
  BY <1>1 DEF PeersChange
<1>2. CASE HeaderArrives
  BY <1>2 DEF HeaderArrives
<1>3. CASE BlockConnected
  BY <1>3 DEF BlockConnected
<1>4. CASE TimePasses
  BY <1>4 DEF TimePasses
<1> QED
  BY <1>1, <1>2, <1>3, <1>4 DEF Node

\* The node's steps leave everything else alone.
LEMMA NodeKeepsIInv == IInv /\ Node => IInv'
<1> SUFFICES ASSUME IInv, Node PROVE IInv'
  OBVIOUS
<1>1. UNCHANGED <<pool, log, tail, miner, server, run, script, tries, ended>>
  BY DEF Node, PeersChange, HeaderArrives, BlockConnected, TimePasses, processes, shell
<1>2. TypeOK'
  <2>0. peers \in {0, 1} /\ ahead \in 0 .. 2 /\ age \in 0 .. MAX_TIP_AGE + 1 /\ ibd \in BOOLEAN
    BY DEF IInv, TypeOK
  <2>1. peers' \in {0, 1}
    BY <2>0, NodeParts
  <2>2. ahead' \in 0 .. 2
    BY <2>0, NodeParts
  <2>3. ibd' \in BOOLEAN
    BY <2>0, NodeParts
  <2>4. age' \in 0 .. MAX_TIP_AGE + 1
    BY <2>0, StackAssumption, NodeParts
  <2> QED
    BY <1>1, <2>1, <2>2, <2>3, <2>4 DEF IInv, TypeOK
<1> QED
  BY <1>1, <1>2
  DEF IInv, NotStartedOK, NotStarted, LogOK, MinerOK, NothingOutlivesScript,
      RefusedOnlyWithoutPool, PoolRuns, MinerRuns

-----------------------------------------------------------------------------
\* A pool only goes on from where it runs, and announces only once it listens.
PoolStep(r) ==
  /\ PoolRuns(r)
  /\ pool' \in [Runs -> {"none", "starting", "fit", "listening", "ready", "unfit", "dead"}]
  /\ \A other \in Runs : other # r => pool'[other] = pool[other]
  /\ pool'[r] \notin {"none", "starting"}
  /\ pool'[r] = "fit" => pool[r] = "starting"
  /\ log' \in [Runs -> {"empty", "POOL READY"}]
  /\ \A other \in Runs : log'[other] = log[other] \/ (other = r /\ pool'[r] = "ready")
  /\ log[r] = "POOL READY" => log'[r] = "POOL READY"
  /\ UNCHANGED <<node, tail, miner, server, shell>>

LEMMA PoolTakesAStep ==
  ASSUME TypeOK, NEW r \in Runs, Pool(r) \/ OutageFails(r)
  PROVE  PoolStep(r)
<1> USE DEF PoolStep, PoolRuns, Listens, PoolGoto, TypeOK
<1>1. CASE CheckAtStart(r)
  BY <1>1 DEF CheckAtStart
<1>2. CASE Bind(r)
  BY <1>2 DEF Bind
<1>3. CASE Announce(r)
  BY <1>3 DEF Announce
<1>4. CASE RecheckFails(r)
  BY <1>4 DEF RecheckFails
<1>5. CASE OutageFails(r)
  BY <1>5 DEF OutageFails
<1> QED
  BY <1>1, <1>2, <1>3, <1>4, <1>5 DEF Pool

LEMMA PoolKeepsIInv ==
  ASSUME IInv, NEW r \in Runs, PoolStep(r)
  PROVE  IInv'
<1> USE DEF PoolStep, IInv, node, shell, PoolRuns
<1>1. TypeOK'
  BY DEF TypeOK
<1>2. NotStartedOK'
  BY DEF NotStartedOK, NotStarted
<1>3. LogOK'
  BY DEF LogOK
<1>4. MinerOK'
  BY DEF MinerOK, TypeOK
<1>5. NothingOutlivesScript'
  BY DEF NothingOutlivesScript, MinerRuns
<1>6. RefusedOnlyWithoutPool'
  BY DEF RefusedOnlyWithoutPool
<1> QED
  BY <1>1, <1>2, <1>3, <1>4, <1>5, <1>6

\* A miner only goes on from where it runs, and is refused where nobody listens.
MinerStep(r) ==
  /\ MinerRuns(r)
  /\ miner' \in [Runs -> {"none", "started", "connected", "refused", "ended", "killed"}]
  /\ \A other \in Runs : other # r => miner'[other] = miner[other]
  /\ miner'[r] = "refused" => ~Listens(r)
  /\ server' \in [Runs -> Runs \cup {Nobody}]
  /\ UNCHANGED <<node, pool, log, tail, shell>>

LEMMA MinerTakesAStep ==
  ASSUME TypeOK, NEW r \in Runs, Miner(r) \/ LoseConnection(r)
  PROVE  MinerStep(r)
<1> USE DEF MinerStep, MinerRuns, MinerEnds, TypeOK
<1>1. CASE Connect(r)
  <2>1. CASE MinerEnds(r, "refused") /\ ~Listens(r) /\ UNCHANGED server
    BY <1>1, <2>1 DEF Connect
  <2>2. ASSUME NEW other \in Runs, server' = [server EXCEPT ![r] = other],
               miner' = [miner EXCEPT ![r] = "connected"]
        PROVE  MinerStep(r)
    BY <1>1, <2>2 DEF Connect
  <2> QED
    BY <1>1, <2>1, <2>2 DEF Connect
<1>2. CASE LosePool(r)
  BY <1>2 DEF LosePool
<1>3. CASE LoseConnection(r)
  BY <1>3 DEF LoseConnection
<1> QED
  BY <1>1, <1>2, <1>3 DEF Miner

LEMMA MinerKeepsIInv ==
  ASSUME IInv, NEW r \in Runs, MinerStep(r)
  PROVE  IInv'
<1> USE DEF MinerStep, IInv, node, shell, MinerRuns
<1>1. TypeOK'
  BY DEF TypeOK
<1>2. NotStartedOK'
  BY DEF NotStartedOK, NotStarted
<1>3. LogOK'
  BY DEF LogOK
<1>4. MinerOK'
  BY DEF MinerOK
<1>5. NothingOutlivesScript'
  BY DEF NothingOutlivesScript, PoolRuns
<1>6. RefusedOnlyWithoutPool'
  BY DEF RefusedOnlyWithoutPool, MinerOK, LogOK, Listens, PoolRuns
<1> QED
  BY <1>1, <1>2, <1>3, <1>4, <1>5, <1>6

-----------------------------------------------------------------------------
(* The script.                                                             *)

\* A run before the present one or after it is another.
LEMMA LaterIsAnother == TypeOK => \A r \in Runs : r < run \/ r > run => r # run
<1> SUFFICES ASSUME run \in Runs PROVE \A r \in Runs : r < run \/ r > run => r # run
  BY DEF TypeOK
<1> QED
  BY StackAssumption DEF Runs

\* The next run comes after this one, with none between them.
LEMMA NextRun ==
  ASSUME NEW k \in Runs, k < MaxRuns
  PROVE  /\ k + 1 \in Runs
         /\ \A r \in Runs : /\ r > k + 1 \/ r = k + 1 => r > k
                            /\ r < k + 1 => r < k \/ r = k
BY StackAssumption DEF Runs

\* A try more is still one of the tries.
LEMMA NextTry ==
  ASSUME NEW n \in 0 .. Tries, n < Tries
  PROVE  n + 1 \in 0 .. Tries
BY StackAssumption

LEMMA ClearTheWayKeepsIInv == IInv /\ ClearTheWay => IInv'
<1> SUFFICES ASSUME IInv, ClearTheWay PROVE IInv'
  OBVIOUS
<1> USE DEF IInv, ClearTheWay, ScriptGoto, Listens, node
<1>1. TypeOK'
  BY DEF TypeOK
<1>2. NotStartedOK'
  BY DEF NotStartedOK, NotStarted, TypeOK
<1>3. LogOK' /\ MinerOK'
  BY DEF LogOK, MinerOK, TypeOK
<1>4. NothingOutlivesScript'
  BY DEF NothingOutlivesScript, PoolRuns, MinerRuns, TypeOK
<1>5. RefusedOnlyWithoutPool'
  BY DEF RefusedOnlyWithoutPool, PoolRuns, TypeOK
<1> QED
  BY <1>1, <1>2, <1>3, <1>4, <1>5

LEMMA StartPoolKeepsIInv == IInv /\ StartPool => IInv'
<1> SUFFICES ASSUME IInv, StartPool PROVE IInv'
  OBVIOUS
<1> USE DEF IInv, StartPool, ScriptGoto, PoolGoto, node
<1>0. tries' \in 0 .. Tries
  BY StackAssumption
<1>1. TypeOK'
  BY <1>0 DEF TypeOK
<1>2. NotStartedOK'
  BY LaterIsAnother DEF NotStartedOK, NotStarted, TypeOK
<1>3. LogOK' /\ MinerOK'
  BY DEF LogOK, MinerOK, NotStartedOK, NotStarted, TypeOK
<1>4. NothingOutlivesScript'
  BY LaterIsAnother DEF NothingOutlivesScript, PoolRuns, MinerRuns, TypeOK
<1>5. RefusedOnlyWithoutPool'
  BY DEF RefusedOnlyWithoutPool, PoolRuns, NotStartedOK, NotStarted, TypeOK
<1> QED
  BY <1>1, <1>2, <1>3, <1>4, <1>5

LEMMA LaunchKeepsIInv == IInv /\ Launch => IInv'
<1> SUFFICES ASSUME IInv, Launch PROVE IInv'
  OBVIOUS
<1> USE DEF IInv, Launch, ScriptGoto, node
<1>1. TypeOK'
  BY DEF TypeOK
<1>2. NotStartedOK'
  BY LaterIsAnother DEF NotStartedOK, NotStarted, TypeOK
<1>3. LogOK' /\ MinerOK'
  BY DEF LogOK, MinerOK, TypeOK
<1>4. NothingOutlivesScript'
  BY LaterIsAnother DEF NothingOutlivesScript, PoolRuns, MinerRuns, TypeOK
<1>5. RefusedOnlyWithoutPool'
  BY DEF RefusedOnlyWithoutPool, PoolRuns, TypeOK
<1> QED
  BY <1>1, <1>2, <1>3, <1>4, <1>5

LEMMA CleanupKeepsIInv == IInv /\ Cleanup => IInv'
<1> SUFFICES ASSUME IInv, Cleanup PROVE IInv'
  OBVIOUS
<1> USE DEF IInv, Cleanup, ScriptGoto, node
<1>1. TypeOK'
  BY DEF TypeOK
<1>2. NotStartedOK'
  BY LaterIsAnother DEF NotStartedOK, NotStarted, TypeOK
<1>3. LogOK' /\ MinerOK'
  BY DEF LogOK, MinerOK, TypeOK, PoolRuns, MinerRuns
<1>4. NothingOutlivesScript'
  BY LaterIsAnother DEF NothingOutlivesScript, PoolRuns, MinerRuns, TypeOK
<1>5. RefusedOnlyWithoutPool'
  BY DEF RefusedOnlyWithoutPool, PoolRuns, MinerRuns, TypeOK
<1> QED
  BY <1>1, <1>2, <1>3, <1>4, <1>5

LEMMA StartAgainKeepsIInv == IInv /\ StartAgain => IInv'
<1> SUFFICES ASSUME IInv, StartAgain PROVE IInv'
  OBVIOUS
<1>a. run \in Runs /\ run < MaxRuns /\ run' = run + 1
  BY DEF IInv, TypeOK, StartAgain
<1>0. run' \in Runs /\ \A r \in Runs : /\ r > run' \/ r = run' => r > run
                                       /\ r < run' => r < run \/ r = run
  BY <1>a, NextRun
<1> USE DEF IInv, StartAgain, ScriptGoto, node, processes
<1>1. TypeOK'
  BY <1>0 DEF TypeOK
<1>2. NotStartedOK'
  BY <1>0 DEF NotStartedOK, NotStarted
<1>3. LogOK' /\ MinerOK'
  BY DEF LogOK, MinerOK
<1>4. NothingOutlivesScript'
  BY <1>0 DEF NothingOutlivesScript, PoolRuns, MinerRuns
<1>5. RefusedOnlyWithoutPool'
  BY DEF RefusedOnlyWithoutPool, PoolRuns
<1> QED
  BY <1>1, <1>2, <1>3, <1>4, <1>5

\* The steps of a script at work that leave every process alone: it stays where it is,
\* goes to its cleanup, or is abandoned.
ScriptStep ==
  /\ script \in {"await", "mining", "cleanup"}
  /\ script' \in {"await", "cleanup", "exited"}
  /\ ended' \in [Runs -> {"no", "1", "signal", "abandoned"}]
  /\ \A r \in Runs : r # run => ended'[r] = ended[r]
  /\ script' = "exited" => ended'[run] = "abandoned"
  /\ tries' \in 0 .. Tries
  /\ UNCHANGED <<node, processes, run>>

LEMMA ScriptTakesAStep ==
  ASSUME TypeOK, Await \/ GiveUp \/ WaitForMiner \/ Signal \/ Abandon
  PROVE  ScriptStep
<1>0. ASSUME Await PROVE tries' \in 0 .. Tries
  <2>1. tries \in 0 .. Tries /\ tries < Tries /\ tries' = tries + 1
    BY <1>0 DEF TypeOK, Await
  <2> QED
    BY <2>1, NextTry
<1> USE DEF ScriptStep, TypeOK, ScriptGoto, Ends
<1>1. CASE Await
  <2>1. tries' \in 0 .. Tries
    BY <1>0, <1>1
  <2> QED
    BY <1>1, <2>1 DEF Await
<1>2. CASE GiveUp
  BY <1>2 DEF GiveUp
<1>3. CASE WaitForMiner
  BY <1>3 DEF WaitForMiner
<1>4. CASE Signal
  BY <1>4 DEF Signal
<1>5. CASE Abandon
  BY <1>5 DEF Abandon
<1> QED
  BY <1>1, <1>2, <1>3, <1>4, <1>5

LEMMA ScriptStepKeepsIInv == IInv /\ ScriptStep => IInv'
<1> SUFFICES ASSUME IInv, ScriptStep PROVE IInv'
  OBVIOUS
<1> USE DEF IInv, ScriptStep, node, processes
<1>1. TypeOK'
  BY DEF TypeOK
<1>2. NotStartedOK'
  BY DEF NotStartedOK, NotStarted
<1>3. LogOK' /\ MinerOK'
  BY DEF LogOK, MinerOK
<1>4. NothingOutlivesScript'
  BY LaterIsAnother DEF NothingOutlivesScript, PoolRuns, MinerRuns
<1>5. RefusedOnlyWithoutPool'
  BY DEF RefusedOnlyWithoutPool, PoolRuns
<1> QED
  BY <1>1, <1>2, <1>3, <1>4, <1>5

LEMMA ScriptKeepsIInv ==
  ASSUME IInv, Script \/ Signal \/ Abandon \/ StartAgain
  PROVE  IInv'
BY ClearTheWayKeepsIInv, StartPoolKeepsIInv, LaunchKeepsIInv, CleanupKeepsIInv,
   StartAgainKeepsIInv, ScriptTakesAStep, ScriptStepKeepsIInv DEF Script, IInv

LEMMA NextIInv == IInv /\ [Next]_vars => IInv'
<1> SUFFICES ASSUME IInv, [Next]_vars PROVE IInv'
  OBVIOUS
<1>1. CASE Node
  BY <1>1, NodeKeepsIInv
<1>2. ASSUME NEW r \in Runs, Pool(r) \/ OutageFails(r) PROVE IInv'
  BY <1>2, PoolTakesAStep, PoolKeepsIInv DEF IInv
<1>3. ASSUME NEW r \in Runs, Miner(r) \/ LoseConnection(r) PROVE IInv'
  BY <1>3, MinerTakesAStep, MinerKeepsIInv DEF IInv
<1>4. CASE Script \/ Signal \/ Abandon \/ StartAgain
  BY <1>4, ScriptKeepsIInv
<1>5. CASE UNCHANGED vars
  BY <1>5
  DEF vars, node, processes, shell, IInv, TypeOK, NotStartedOK, NotStarted, LogOK, MinerOK,
      NothingOutlivesScript, RefusedOnlyWithoutPool, PoolRuns, MinerRuns
<1> QED
  BY <1>1, <1>2, <1>3, <1>4, <1>5 DEF Next

THEOREM IInvCorrect == Spec => []IInv
<1> QED
  BY InitIInv, NextIInv, PTL DEF Spec

-----------------------------------------------------------------------------
\* The processes and the script keep their places, for any number of runs.
THEOREM TypeCorrect == Spec => []TypeOK
<1>1. IInv => TypeOK
  BY DEF IInv
<1> QED
  BY <1>1, IInvCorrect, PTL

\* However a script ends that is not killed, no process of it is left (mine.sh:95-120).
THEOREM NothingOutlivesScriptCorrect == Spec => []NothingOutlivesScript
<1>1. IInv => NothingOutlivesScript
  BY DEF IInv
<1> QED
  BY <1>1, IInvCorrect, PTL

\* A miner is refused only after its own pool has ended: the pool binds, then
\* announces, and the script starts the miner after that (solo-pool/main.rs:104-108, 254-260).
THEOREM RefusedOnlyWithoutPoolCorrect == Spec => []RefusedOnlyWithoutPool
<1>1. IInv => RefusedOnlyWithoutPool
  BY DEF IInv
<1> QED
  BY <1>1, IInvCorrect, PTL
=============================================================================
