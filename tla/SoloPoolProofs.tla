--------------------------- MODULE SoloPoolProofs ---------------------------
(***************************************************************************)
(* The safety of SoloPool for any number of connections, jobs and tips, and *)
(* any length of the job history; and that of MinDifficulty, the window     *)
(* that its jobs and sessions keep to, for every gap, horizon and cap.      *)
(***************************************************************************)
EXTENDS SoloPool, MinDifficulty, TLAPS

\* The poller is between fetching a template and announcing a job.
BuildingOK ==
  /\ poller \in {"install", "broadcast"} => building \in Job
  /\ poller = "install" => building.id = installed + 1
  /\ poller = "broadcast" => jobs # <<>> /\ jobs[1] = building

\* A session that uses a job it read has read one.
SeenOK == \A c \in Conns : session[c] \in {"notify", "solved"} => seen[c] \in Job

\* The newest job was announced to each joined miner, or is what its session is
\* about to send. One that left the subscribers has lost its writer for good.
JoinedOK ==
  \A c \in joined :
    /\ c \notin subscribers => ~writing[c]
    /\ c \in subscribers /\ writing[c] /\ jobs # <<>> /\ poller # "broadcast" =>
         jobs[1].id \in heard[c] \/ (session[c] = "notify" /\ seen[c] = jobs[1])

\* What the poller remembers is what the newest announced job was built on.
LastOK ==
  /\ poller # "broadcast" /\ jobs # <<>> => last = jobs[1].on
  /\ jobs = <<>> => last = None
  /\ poller = "install" /\ ~building.clean => building.on = last

IInv ==
  /\ TypeOK
  /\ BuildingOK
  /\ SeenOK
  /\ JoinedOK
  /\ LastOK
  /\ RefreshKeepsOldWorkValid
  /\ WakeupNotLost
-----------------------------------------------------------------------------
\* push_front and truncate (state.rs:96-98): the new job is first, the rest moved
\* one place back, and the history is no longer than it may be.
LEMMA PushTruncate ==
  ASSUME NEW s \in Seq(Job), NEW b \in Job
  PROVE  /\ Truncate(<<b>> \o s) \in Seq(Job)
         /\ Len(Truncate(<<b>> \o s)) \in 1 .. JOB_HISTORY
         /\ Truncate(<<b>> \o s)[1] = b
         /\ \A i \in 1 .. Len(Truncate(<<b>> \o s)) - 1 :
              i \in 1 .. Len(s) /\ Truncate(<<b>> \o s)[i + 1] = s[i]
<1> DEFINE p == <<b>> \o s
<1>1. p \in Seq(Job) /\ Len(p) = Len(s) + 1 /\ p[1] = b
  OBVIOUS
<1>2. \A i \in 1 .. Len(s) : p[i + 1] = s[i]
  OBVIOUS
<1>3. Len(s) \in Nat
  OBVIOUS
<1> HIDE DEF p
<1>4. CASE Len(p) <= JOB_HISTORY
  BY <1>1, <1>2, <1>3, <1>4, SoloPoolAssumption DEF Truncate, p
<1>5. CASE ~(Len(p) <= JOB_HISTORY)
  <2>1. Truncate(p) = SubSeq(p, 1, JOB_HISTORY)
    BY <1>5 DEF Truncate
  <2>2. /\ SubSeq(p, 1, JOB_HISTORY) \in Seq(Job)
        /\ Len(SubSeq(p, 1, JOB_HISTORY)) = JOB_HISTORY
        /\ \A i \in 1 .. JOB_HISTORY : SubSeq(p, 1, JOB_HISTORY)[i] = p[i]
    BY <1>1, <1>3, <1>5, SoloPoolAssumption
  <2> DEFINE t == Truncate(p)
  <2>3. /\ t \in Seq(Job) /\ Len(t) = JOB_HISTORY
        /\ \A i \in 1 .. JOB_HISTORY : t[i] = p[i]
    BY <2>1, <2>2
  <2> HIDE DEF t
  <2>4. JOB_HISTORY \in Nat /\ JOB_HISTORY >= 1 /\ JOB_HISTORY - 1 < Len(s)
    BY <1>1, <1>3, <1>5, SoloPoolAssumption
  <2>5. ASSUME NEW i \in 1 .. JOB_HISTORY - 1 PROVE i \in 1 .. Len(s) /\ t[i + 1] = s[i]
    <3>1. i \in 1 .. Len(s) /\ i + 1 \in 1 .. JOB_HISTORY
      BY <1>3, <2>4
    <3> QED
      BY <1>2, <2>3, <3>1
  <2>6. t[1] = b /\ Len(t) \in 1 .. JOB_HISTORY
    BY <1>1, <2>3, <2>4
  <2> QED
    BY <2>3, <2>5, <2>6 DEF p, t
<1> QED
  BY <1>4, <1>5

LEMMA InitIInv == Init => IInv
<1> SUFFICES ASSUME Init PROVE IInv
  OBVIOUS
<1> USE SoloPoolAssumption, NoneAssumption DEF Init
<1>1. TypeOK
  <2>1. tip \in Tips
    BY DEF Tips
  <2>2. jobs \in Seq(Job) /\ Len(jobs) <= JOB_HISTORY /\ age \in 0 .. Outage
        /\ installed \in 0 .. MaxJobs
    OBVIOUS
  <2>3. wakeups \in BOOLEAN /\ unfetched \in BOOLEAN /\ poller \in PollerPlaces
    BY DEF PollerPlaces
  <2>4. /\ session \in [Conns -> SessionPlaces]
        /\ authorized \in [Conns -> BOOLEAN]
        /\ writing \in [Conns -> BOOLEAN]
    BY DEF SessionPlaces
  <2>5. /\ seen \in [Conns -> Job \cup {None}]
        /\ heard \in [Conns -> SUBSET (1 .. MaxJobs)]
        /\ told \in [Conns -> (1 .. MaxJobs) \cup {None}]
    OBVIOUS
  <2> QED
    BY <2>1, <2>2, <2>3, <2>4, <2>5 DEF TypeOK
<1>2. BuildingOK /\ SeenOK /\ JoinedOK /\ LastOK
  BY DEF BuildingOK, SeenOK, JoinedOK, LastOK
<1>3. RefreshKeepsOldWorkValid /\ WakeupNotLost
  BY DEF RefreshKeepsOldWorkValid, WakeupNotLost
<1> QED
  BY <1>1, <1>2, <1>3 DEF IInv

\* Every step keeps the types.
LEMMA NextTypeOK ==
  ASSUME IInv, [Next]_vars
  PROVE  TypeOK'
<1> USE SoloPoolAssumption DEF IInv, TypeOK, PollerGoto, SessionGoto, PollerPlaces, SessionPlaces, node, poolState, pollerVars, sessionVars, miner, history
<1>1. CASE NewBlock
  BY <1>1 DEF NewBlock, Tips
<1>2. CASE DifficultyChanges
  BY <1>2 DEF DifficultyChanges
<1>3. CASE Tick
  BY <1>3 DEF Tick
<1>4. CASE FetchFails
  BY <1>4 DEF FetchFails
<1>5. CASE FetchUnchanged
  BY <1>5 DEF FetchUnchanged
<1>6. CASE FetchAndBuild
  <2>1. building' \in Job
    BY <1>6 DEF FetchAndBuild, Job, Template, CurrentTemplate, Superseded
  <2>2. unfetched' \in BOOLEAN
    BY <1>6 DEF FetchAndBuild
  <2> QED
    BY <1>6, <2>1, <2>2 DEF FetchAndBuild
<1>7. CASE BuildFails
  BY <1>7 DEF BuildFails
<1>8. CASE Install
  <2>1. building \in Job
    BY <1>8 DEF Install, BuildingOK
  <2>2. jobs' \in Seq(Job) /\ Len(jobs') <= JOB_HISTORY
    BY <1>8, <2>1, PushTruncate, SoloPoolAssumption DEF Install
  <2>3. building.id \in 1 .. MaxJobs
    BY <2>1 DEF Job
  <2> QED
    BY <1>8, <2>2, <2>3 DEF Install
<1>9. CASE Broadcast
  <2>1. building.id \in 1 .. MaxJobs /\ building.on \in Template
    BY <1>9 DEF Broadcast, BuildingOK, Job
  <2>2. /\ heard' \in [Conns -> SUBSET (1 .. MaxJobs)]
        /\ told' \in [Conns -> (1 .. MaxJobs) \cup {None}]
        /\ subscribers' \subseteq Conns
    BY <1>9, <2>1 DEF Broadcast
  <2> QED
    BY <1>9, <2>1, <2>2, SoloPoolAssumption DEF Broadcast
<1>10. CASE CheckHealth
  BY <1>10 DEF CheckHealth
<1>11. CASE Wake
  BY <1>11 DEF Wake
<1>12. ASSUME NEW c \in Conns, Session(c) PROVE TypeOK'
  <2>1. CASE Connect(c)
    BY <2>1 DEF Connect
  <2>2. CASE OnSubscribe(c)
    BY <2>2 DEF OnSubscribe
  <2>3. CASE OnAuthorize(c)
    <3>1. jobs # <<>> => Head(jobs) \in Job
      OBVIOUS
    <3>2. authorized' \in [Conns -> BOOLEAN] /\ joined' \subseteq Conns
      BY <1>12, <2>3 DEF OnAuthorize
    <3>3. session' \in [Conns -> SessionPlaces] /\ seen' \in [Conns -> Job \cup {None}]
      BY <1>12, <2>3, <3>1 DEF OnAuthorize
    <3> QED
      BY <2>3, <3>2, <3>3 DEF OnAuthorize
  <2>4. CASE SendCurrentWork(c)
    <3>1. seen[c].id \in 1 .. MaxJobs
      BY <1>12, <2>4 DEF SendCurrentWork, SeenOK, Job
    <3>2. /\ heard' \in [Conns -> SUBSET (1 .. MaxJobs)]
          /\ told' \in [Conns -> (1 .. MaxJobs) \cup {None}]
      <4>1. heard' \in [Conns -> SUBSET (1 .. MaxJobs)]
        BY <2>4, <3>1 DEF SendCurrentWork
      <4>2. told' \in [Conns -> (1 .. MaxJobs) \cup {None}]
        BY <2>4, <3>1 DEF SendCurrentWork
      <4> QED
        BY <4>1, <4>2
    <3>3. session' \in [Conns -> SessionPlaces] /\ seen' \in [Conns -> Job \cup {None}]
      BY <1>12, <2>4 DEF SendCurrentWork
    <3> QED
      BY <2>4, <3>2, <3>3 DEF SendCurrentWork
  <2>5. CASE OnSubmit(c)
    BY <2>5 DEF OnSubmit
  <2>6. CASE BlockAccepted(c)
    BY <2>6 DEF BlockAccepted, Tips
  <2>7. CASE BlockStale(c)
    BY <2>7 DEF BlockStale
  <2>8. CASE BlockNotAccepted(c)
    BY <2>8 DEF BlockNotAccepted, Tips
  <2>9. CASE RequestRefresh(c)
    BY <2>9 DEF RequestRefresh
  <2>10. CASE Disconnect(c)
    BY <2>10 DEF Disconnect
  <2>11. CASE WriterStops(c)
    BY <2>11 DEF WriterStops
  <2> QED
    BY <1>12, <2>1, <2>2, <2>3, <2>4, <2>5, <2>6, <2>7, <2>8, <2>9, <2>10, <2>11 DEF Session, SessionStep
<1>13. CASE UNCHANGED vars
  BY <1>13 DEF vars
<1> QED
  BY <1>1, <1>2, <1>3, <1>4, <1>5, <1>6, <1>7, <1>8, <1>9, <1>10, <1>11, <1>12, <1>13 DEF Next, Poller, Exited

\* A job is built on the template just fetched, and is the newest until announced.
LEMMA NextBuildingOK ==
  ASSUME IInv, [Next]_vars
  PROVE  BuildingOK'
<1> USE DEF IInv, TypeOK, PollerGoto, SessionGoto, BuildingOK, node, poolState, pollerVars, sessionVars, miner, history
<1>1. CASE NewBlock
  BY <1>1 DEF NewBlock
<1>2. CASE DifficultyChanges
  BY <1>2 DEF DifficultyChanges
<1>3. CASE Tick
  BY <1>3 DEF Tick
<1>4. CASE FetchFails
  BY <1>4 DEF FetchFails
<1>5. CASE FetchUnchanged
  BY <1>5 DEF FetchUnchanged
<1>6. CASE FetchAndBuild
  <2>1. building' \in Job
    BY <1>6, SoloPoolAssumption DEF FetchAndBuild, Job, Template, CurrentTemplate, Superseded
  <2>2. building'.id = installed' + 1
    BY <1>6 DEF FetchAndBuild
  <2> QED
    BY <1>6, <2>1, <2>2 DEF FetchAndBuild
<1>7. CASE BuildFails
  BY <1>7 DEF BuildFails
<1>8. CASE Install
  <2>1. building \in Job
    BY <1>8 DEF Install
  <2>2. jobs' # <<>> /\ jobs'[1] = building
    BY <1>8, <2>1, PushTruncate DEF Install
  <2> QED
    BY <1>8, <2>1, <2>2 DEF Install
<1>9. CASE Broadcast
  BY <1>9 DEF Broadcast
<1>10. CASE CheckHealth
  BY <1>10 DEF CheckHealth
<1>11. CASE Wake
  BY <1>11 DEF Wake
<1>12. ASSUME NEW c \in Conns, Session(c) PROVE BuildingOK'
  <2>1. CASE Connect(c)
    BY <2>1 DEF Connect
  <2>2. CASE OnSubscribe(c)
    BY <2>2 DEF OnSubscribe
  <2>3. CASE OnAuthorize(c)
    BY <2>3 DEF OnAuthorize
  <2>4. CASE SendCurrentWork(c)
    BY <2>4 DEF SendCurrentWork
  <2>5. CASE OnSubmit(c)
    BY <2>5 DEF OnSubmit
  <2>6. CASE BlockAccepted(c)
    BY <2>6 DEF BlockAccepted
  <2>7. CASE BlockStale(c)
    BY <2>7 DEF BlockStale
  <2>8. CASE BlockNotAccepted(c)
    BY <2>8 DEF BlockNotAccepted
  <2>9. CASE RequestRefresh(c)
    BY <2>9 DEF RequestRefresh
  <2>10. CASE Disconnect(c)
    BY <2>10 DEF Disconnect
  <2>11. CASE WriterStops(c)
    BY <2>11 DEF WriterStops
  <2> QED
    BY <1>12, <2>1, <2>2, <2>3, <2>4, <2>5, <2>6, <2>7, <2>8, <2>9, <2>10, <2>11 DEF Session, SessionStep
<1>13. CASE UNCHANGED vars
  BY <1>13 DEF vars
<1> QED
  BY <1>1, <1>2, <1>3, <1>4, <1>5, <1>6, <1>7, <1>8, <1>9, <1>10, <1>11, <1>12, <1>13 DEF Next, Poller, Exited

\* What a session read under the mutex stays its own.
LEMMA NextSeenOK ==
  ASSUME IInv, [Next]_vars
  PROVE  SeenOK'
<1> USE DEF IInv, TypeOK, PollerGoto, SessionGoto, SeenOK, node, poolState, pollerVars, sessionVars, miner, history
<1>1. CASE NewBlock
  BY <1>1 DEF NewBlock
<1>2. CASE DifficultyChanges
  BY <1>2 DEF DifficultyChanges
<1>3. CASE Tick
  BY <1>3 DEF Tick
<1>4. CASE FetchFails
  BY <1>4 DEF FetchFails
<1>5. CASE FetchUnchanged
  BY <1>5 DEF FetchUnchanged
<1>6. CASE FetchAndBuild
  BY <1>6 DEF FetchAndBuild
<1>7. CASE BuildFails
  BY <1>7 DEF BuildFails
<1>8. CASE Install
  BY <1>8 DEF Install
<1>9. CASE Broadcast
  BY <1>9 DEF Broadcast
<1>10. CASE CheckHealth
  BY <1>10 DEF CheckHealth
<1>11. CASE Wake
  BY <1>11 DEF Wake
<1>12. ASSUME NEW c \in Conns, Session(c) PROVE SeenOK'
  <2>1. CASE Connect(c)
    BY <2>1 DEF Connect
  <2>2. CASE OnSubscribe(c)
    BY <2>2 DEF OnSubscribe
  <2>3. CASE OnAuthorize(c)
    <3>1. jobs # <<>> => Head(jobs) \in Job
      OBVIOUS
    <3> QED
      BY <1>12, <2>3, <3>1 DEF OnAuthorize
  <2>4. CASE SendCurrentWork(c)
    BY <2>4 DEF SendCurrentWork
  <2>5. CASE OnSubmit(c)
    <3>1. \A i \in 1 .. Len(jobs) : jobs[i] \in Job
      OBVIOUS
    <3> QED
      BY <1>12, <2>5, <3>1 DEF OnSubmit
  <2>6. CASE BlockAccepted(c)
    BY <2>6 DEF BlockAccepted
  <2>7. CASE BlockStale(c)
    BY <2>7 DEF BlockStale
  <2>8. CASE BlockNotAccepted(c)
    BY <2>8 DEF BlockNotAccepted
  <2>9. CASE RequestRefresh(c)
    BY <2>9 DEF RequestRefresh
  <2>10. CASE Disconnect(c)
    BY <2>10 DEF Disconnect
  <2>11. CASE WriterStops(c)
    BY <2>11 DEF WriterStops
  <2> QED
    BY <1>12, <2>1, <2>2, <2>3, <2>4, <2>5, <2>6, <2>7, <2>8, <2>9, <2>10, <2>11 DEF Session, SessionStep
<1>13. CASE UNCHANGED vars
  BY <1>13 DEF vars
<1> QED
  BY <1>1, <1>2, <1>3, <1>4, <1>5, <1>6, <1>7, <1>8, <1>9, <1>10, <1>11, <1>12, <1>13 DEF Next, Poller, Exited

\* The broadcast and send_current_work leave no joined miner out between them.
LEMMA NextJoinedOK ==
  ASSUME IInv, [Next]_vars
  PROVE  JoinedOK'
<1> USE DEF IInv, TypeOK, PollerGoto, SessionGoto, JoinedOK, node, poolState, pollerVars, sessionVars, miner, history
<1>1. CASE NewBlock
  BY <1>1 DEF NewBlock
<1>2. CASE DifficultyChanges
  BY <1>2 DEF DifficultyChanges
<1>3. CASE Tick
  BY <1>3 DEF Tick
<1>4. CASE FetchFails
  BY <1>4 DEF FetchFails
<1>5. CASE FetchUnchanged
  BY <1>5 DEF FetchUnchanged
<1>6. CASE FetchAndBuild
  BY <1>6 DEF FetchAndBuild
<1>7. CASE BuildFails
  BY <1>7 DEF BuildFails
<1>8. CASE Install
  BY <1>8 DEF Install
<1>9. CASE Broadcast
  <2>1. jobs' = jobs /\ jobs # <<>> /\ jobs[1] = building
    BY <1>9 DEF Broadcast, BuildingOK
  <2>2. joined' = joined /\ writing' = writing /\ subscribers' = {c \in subscribers : writing[c]}
    BY <1>9 DEF Broadcast
  <2>3. \A c \in subscribers' : building.id \in heard'[c]
    BY <1>9 DEF Broadcast
  <2> QED
    BY <2>1, <2>2, <2>3
<1>10. CASE CheckHealth
  BY <1>10 DEF CheckHealth
<1>11. CASE Wake
  BY <1>11 DEF Wake
<1>12. ASSUME NEW c \in Conns, Session(c) PROVE JoinedOK'
  <2>1. CASE Connect(c)
    BY <2>1 DEF Connect
  <2>2. CASE OnSubscribe(c)
    BY <2>2 DEF OnSubscribe
  <2>3. CASE OnAuthorize(c)
    <3>1. jobs # <<>> => Head(jobs) = jobs[1]
      OBVIOUS
    <3> QED
      BY <1>12, <2>3, <3>1 DEF OnAuthorize
  <2>4. CASE SendCurrentWork(c)
    BY <2>4 DEF SendCurrentWork
  <2>5. CASE OnSubmit(c)
    BY <2>5 DEF OnSubmit
  <2>6. CASE BlockAccepted(c)
    BY <2>6 DEF BlockAccepted
  <2>7. CASE BlockStale(c)
    BY <2>7 DEF BlockStale
  <2>8. CASE BlockNotAccepted(c)
    BY <2>8 DEF BlockNotAccepted
  <2>9. CASE RequestRefresh(c)
    BY <2>9 DEF RequestRefresh
  <2>10. CASE Disconnect(c)
    BY <2>10 DEF Disconnect
  <2>11. CASE WriterStops(c)
    BY <2>11 DEF WriterStops
  <2> QED
    BY <1>12, <2>1, <2>2, <2>3, <2>4, <2>5, <2>6, <2>7, <2>8, <2>9, <2>10, <2>11 DEF Session, SessionStep
<1>13. CASE UNCHANGED vars
  BY <1>13 DEF vars
<1> QED
  BY <1>1, <1>2, <1>3, <1>4, <1>5, <1>6, <1>7, <1>8, <1>9, <1>10, <1>11, <1>12, <1>13 DEF Next, Poller, Exited

\* The poller remembers the template of the newest job, and of no other.
LEMMA NextLastOK ==
  ASSUME IInv, [Next]_vars
  PROVE  LastOK' /\ RefreshKeepsOldWorkValid'
<1> USE DEF IInv, TypeOK, PollerGoto, SessionGoto, BuildingOK, LastOK, RefreshKeepsOldWorkValid, node, poolState, pollerVars, sessionVars, miner, history
<1>1. CASE NewBlock
  BY <1>1 DEF NewBlock
<1>2. CASE DifficultyChanges
  BY <1>2 DEF DifficultyChanges
<1>3. CASE Tick
  BY <1>3 DEF Tick
<1>4. CASE FetchFails
  BY <1>4 DEF FetchFails
<1>5. CASE FetchUnchanged
  BY <1>5 DEF FetchUnchanged
<1>6. CASE FetchAndBuild
  <2>1. building'.on = CurrentTemplate /\ building'.clean = (last # CurrentTemplate)
    BY <1>6 DEF FetchAndBuild, Superseded
  <2>2. ~building'.clean => building'.on = last
    BY <2>1
  <2> QED
    BY <1>6, <2>2 DEF FetchAndBuild
<1>7. CASE BuildFails
  BY <1>7 DEF BuildFails
<1>8. CASE Install
  <2>1. building \in Job /\ poller' = "broadcast"
    BY <1>8 DEF Install, BuildingOK
  <2>2. /\ jobs' \in Seq(Job) /\ Len(jobs') \in 1 .. JOB_HISTORY /\ jobs'[1] = building
        /\ \A i \in 1 .. Len(jobs') - 1 : i \in 1 .. Len(jobs) /\ jobs'[i + 1] = jobs[i]
    BY <1>8, <2>1, PushTruncate DEF Install
  <2>3. jobs # <<>> /\ ~building.clean => building.on = jobs[1].on
    BY <1>8 DEF Install
  <2>4. ASSUME NEW i \in 1 .. Len(jobs') - 1, ~jobs'[i].clean
        PROVE  jobs'[i].on = jobs'[i + 1].on
    <3>1. i \in 1 .. Len(jobs) /\ jobs'[i + 1] = jobs[i]
      BY <2>2
    <3>2. CASE i = 1
      <4>1. jobs # <<>>
        BY <3>1
      <4> QED
        BY <2>2, <2>3, <2>4, <3>1, <3>2, <4>1
    <3>3. CASE i # 1
      <4>1. i - 1 \in 1 .. Len(jobs') - 1 /\ i - 1 \in 1 .. Len(jobs) - 1
        BY <2>2, <3>1, <3>3
      <4>2. jobs'[i] = jobs[i - 1]
        BY <2>2, <4>1
      <4> QED
        BY <2>4, <3>1, <4>1, <4>2
    <3> QED
      BY <3>2, <3>3
  <2> QED
    BY <2>1, <2>2, <2>4
<1>9. CASE Broadcast
  BY <1>9 DEF Broadcast
<1>10. CASE CheckHealth
  BY <1>10 DEF CheckHealth
<1>11. CASE Wake
  BY <1>11 DEF Wake
<1>12. ASSUME NEW c \in Conns, Session(c) PROVE LastOK' /\ RefreshKeepsOldWorkValid'
  <2>1. CASE Connect(c)
    BY <2>1 DEF Connect
  <2>2. CASE OnSubscribe(c)
    BY <2>2 DEF OnSubscribe
  <2>3. CASE OnAuthorize(c)
    BY <2>3 DEF OnAuthorize
  <2>4. CASE SendCurrentWork(c)
    BY <2>4 DEF SendCurrentWork
  <2>5. CASE OnSubmit(c)
    BY <2>5 DEF OnSubmit
  <2>6. CASE BlockAccepted(c)
    BY <2>6 DEF BlockAccepted
  <2>7. CASE BlockStale(c)
    BY <2>7 DEF BlockStale
  <2>8. CASE BlockNotAccepted(c)
    BY <2>8 DEF BlockNotAccepted
  <2>9. CASE RequestRefresh(c)
    BY <2>9 DEF RequestRefresh
  <2>10. CASE Disconnect(c)
    BY <2>10 DEF Disconnect
  <2>11. CASE WriterStops(c)
    BY <2>11 DEF WriterStops
  <2> QED
    BY <1>12, <2>1, <2>2, <2>3, <2>4, <2>5, <2>6, <2>7, <2>8, <2>9, <2>10, <2>11 DEF Session, SessionStep
<1>13. CASE UNCHANGED vars
  BY <1>13 DEF vars
<1> QED
  BY <1>1, <1>2, <1>3, <1>4, <1>5, <1>6, <1>7, <1>8, <1>9, <1>10, <1>11, <1>12, <1>13 DEF Next, Poller, Exited

\* A block we got accepted is followed by a wake-up or by a fetch.
LEMMA NextWakeupNotLost ==
  ASSUME IInv, [Next]_vars
  PROVE  WakeupNotLost'
<1> USE DEF IInv, TypeOK, PollerGoto, SessionGoto, Tips, WakeupNotLost, node, poolState, pollerVars, sessionVars, miner, history
<1>1. CASE NewBlock
  BY <1>1 DEF NewBlock
<1>2. CASE DifficultyChanges
  BY <1>2 DEF DifficultyChanges
<1>3. CASE Tick
  BY <1>3 DEF Tick
<1>4. CASE FetchFails
  BY <1>4 DEF FetchFails
<1>5. CASE FetchUnchanged
  BY <1>5 DEF FetchUnchanged
<1>6. CASE FetchAndBuild
  BY <1>6 DEF FetchAndBuild
<1>7. CASE BuildFails
  BY <1>7 DEF BuildFails
<1>8. CASE Install
  BY <1>8 DEF Install
<1>9. CASE Broadcast
  BY <1>9 DEF Broadcast
<1>10. CASE CheckHealth
  BY <1>10 DEF CheckHealth
<1>11. CASE Wake
  BY <1>11 DEF Wake
<1>12. ASSUME NEW c \in Conns, Session(c) PROVE WakeupNotLost'
  <2>1. CASE Connect(c)
    BY <2>1 DEF Connect
  <2>2. CASE OnSubscribe(c)
    BY <2>2 DEF OnSubscribe
  <2>3. CASE OnAuthorize(c)
    BY <2>3 DEF OnAuthorize
  <2>4. CASE SendCurrentWork(c)
    BY <2>4 DEF SendCurrentWork
  <2>5. CASE OnSubmit(c)
    BY <2>5 DEF OnSubmit
  <2>6. CASE BlockAccepted(c)
    BY <2>6 DEF BlockAccepted
  <2>7. CASE BlockStale(c)
    BY <2>7 DEF BlockStale
  <2>8. CASE BlockNotAccepted(c)
    BY <2>8 DEF BlockNotAccepted
  <2>9. CASE RequestRefresh(c)
    BY <2>9 DEF RequestRefresh
  <2>10. CASE Disconnect(c)
    BY <2>10 DEF Disconnect
  <2>11. CASE WriterStops(c)
    BY <2>11 DEF WriterStops
  <2> QED
    BY <1>12, <2>1, <2>2, <2>3, <2>4, <2>5, <2>6, <2>7, <2>8, <2>9, <2>10, <2>11 DEF Session, SessionStep
<1>13. CASE UNCHANGED vars
  BY <1>13 DEF vars
<1> QED
  BY <1>1, <1>2, <1>3, <1>4, <1>5, <1>6, <1>7, <1>8, <1>9, <1>10, <1>11, <1>12, <1>13 DEF Next, Poller, Exited

LEMMA SpecIInv == Spec => []IInv
<1>1. IInv /\ [Next]_vars => IInv'
  BY NextTypeOK, NextBuildingOK, NextSeenOK, NextJoinedOK, NextLastOK, NextWakeupNotLost
  DEF IInv
<1> QED
  BY <1>1, InitIInv, PTL DEF Spec

-----------------------------------------------------------------------------
\* The pool's shared state, poller and sessions keep their types; the history
\* never outgrows JOB_HISTORY.
THEOREM TypeCorrect == Spec => []TypeOK
<1>1. IInv => TypeOK
  BY DEF IInv
<1> QED
  BY <1>1, SpecIInv, PTL

\* No miner that subscribed and then authorized misses the newest job, wherever
\* between the poller's steps it joined.
THEOREM NoMissedJobCorrect == Spec => []NoMissedJob
<1>1. IInv => NoMissedJob
  <2> SUFFICES ASSUME IInv, NEW c \in joined \cap subscribers, jobs # <<>>,
                      poller # "broadcast", session[c] # "notify", writing[c]
               PROVE  Head(jobs).id \in heard[c]
    BY DEF NoMissedJob
  <2>1. Head(jobs) = jobs[1]
    BY DEF IInv, TypeOK
  <2> QED
    BY <2>1 DEF IInv, JoinedOK
<1> QED
  BY <1>1, SpecIInv, PTL

\* A job announced without clean_jobs is on the tip and the difficulty of the one
\* before it, whatever templates failed to become jobs in between.
THEOREM RefreshKeepsOldWorkValidCorrect == Spec => []RefreshKeepsOldWorkValid
<1>1. IInv => RefreshKeepsOldWorkValid
  BY DEF IInv
<1> QED
  BY <1>1, SpecIInv, PTL

\* No wake-up sent for an accepted block is lost, however the sends and the
\* poller's draining interleave.
THEOREM WakeupNotLostCorrect == Spec => []WakeupNotLost
<1>1. IInv => WakeupNotLost
  BY DEF IInv
<1> QED
  BY <1>1, SpecIInv, PTL

-----------------------------------------------------------------------------
(* The minimum-difficulty window (MinDifficulty), for every value of the   *)
(* consensus constants, provided the gap is shorter than the longest hold  *)
(* and the clock has not reached the end of u32.                           *)

\* The node takes no block further ahead, so no parent is.
TipIsLegal == tipTime <= now + MAX_FUTURE_BLOCK_TIME

\* A job carries the window of its parent.
JobIsPlanned ==
  job.exists =>
    /\ job.parentTime <= now + MAX_FUTURE_BLOCK_TIME
    /\ job.time = job.parentTime + MIN_DIFFICULTY_GAP + 1
    /\ job.notBefore = job.time - MAX_FUTURE_BLOCK_TIME

\* A held block wakes neither before it is legal nor a second later.
HeldIsPlanned ==
  held.exists =>
    /\ held.time = held.parentTime + MIN_DIFFICULTY_GAP + 1
    /\ held.until + MAX_FUTURE_BLOCK_TIME >= held.time
    /\ now < held.until => held.until + MAX_FUTURE_BLOCK_TIME = held.time

\* The invariant, and what is only true of miners that keep the job's time.
WindowInv == WindowTypeOK /\ TipIsLegal /\ JobIsPlanned /\ HoldWithinGap

PunctualInv == HeldIsPlanned /\ NeverRefused

-----------------------------------------------------------------------------
\* plan does not wrap for a parent the node has accepted (min_difficulty.rs:84-92).
LEMMA PlanDoesNotWrap ==
  ASSUME NEW p \in 0 .. MaxNow + MAX_FUTURE_BLOCK_TIME
  PROVE  /\ Ntime(p) = p + MIN_DIFFICULTY_GAP + 1
         /\ Ntime(p) \in Nat
         /\ LegalAt(p) = Ntime(p) - MAX_FUTURE_BLOCK_TIME
         /\ LegalAt(p) \in Int
  BY MinDifficultyAssumption DEF Ntime, LegalAt

\* A hold ends no later than the block is legal, and the cap cannot end it
\* earlier when the window is at most a gap away.
LEMMA WakeWithinGap ==
  ASSUME NEW n \in Int, WindowTypeOK, n <= now + MIN_DIFFICULTY_GAP + 1
  PROVE  /\ WakeAt(n) \in now .. now + MAX_SUBMISSION_HOLD
         /\ WakeAt(n) >= n
         /\ WakeAt(n) <= now + MIN_DIFFICULTY_GAP + 1
         /\ now < WakeAt(n) => WakeAt(n) = n
  BY MinDifficultyAssumption DEF WakeAt, WindowTypeOK

LEMMA InitWindowInv == WindowInit => WindowInv
<1> SUFFICES ASSUME WindowInit PROVE WindowInv
  OBVIOUS
<1> USE MinDifficultyAssumption DEF WindowInit
<1>1. job.exists = FALSE /\ held.exists = FALSE
  OBVIOUS
<1>2. job \in WindowJob /\ held \in Block
  BY DEF WindowJob, Block
<1>3. WindowTypeOK
  <2>1. verdict \in Verdicts
    BY DEF Verdicts
  <2>2. now \in 0 .. MaxNow /\ tipTime \in 0 .. MaxNow + MAX_FUTURE_BLOCK_TIME
    OBVIOUS
  <2> QED
    BY <1>2, <2>1, <2>2 DEF WindowTypeOK
<1>4. TipIsLegal /\ JobIsPlanned /\ HoldWithinGap
  BY <1>1 DEF TipIsLegal, JobIsPlanned, HoldWithinGap
<1> QED
  BY <1>3, <1>4 DEF WindowInv

LEMMA NextWindowInv == WindowInv /\ [WindowNext]_windowVars => WindowInv'
<1> SUFFICES ASSUME WindowInv, [WindowNext]_windowVars PROVE WindowInv'
  OBVIOUS
<1> USE MinDifficultyAssumption DEF WindowInv, WindowTypeOK, TipIsLegal, JobIsPlanned, HoldWithinGap
<1>1. CASE ClockTick
  BY <1>1 DEF ClockTick, WindowJob, Block
<1>2. CASE OtherBlock
  <2>1. job' \in WindowJob /\ held' \in Block
    BY <1>2 DEF OtherBlock, WindowJob, Block
  <2>2. /\ job'.exists = job.exists /\ job'.parentTime = job.parentTime
        /\ job'.time = job.time /\ job'.notBefore = job.notBefore
    BY <1>2 DEF OtherBlock, WindowJob
  <2>3. held'.exists = held.exists /\ held'.until = held.until
    BY <1>2 DEF OtherBlock, Block
  <2>4. now' = now /\ tipTime' \in 0 .. now + MAX_FUTURE_BLOCK_TIME /\ verdict' = verdict
    BY <1>2 DEF OtherBlock
  <2>5. tipTime' \in 0 .. MaxNow + MAX_FUTURE_BLOCK_TIME /\ tipTime' <= now' + MAX_FUTURE_BLOCK_TIME
    BY <2>4
  <2> QED
    BY <2>1, <2>2, <2>3, <2>4, <2>5
<1>3. CASE BuildJob
  <2>1. /\ Ntime(tipTime) = tipTime + MIN_DIFFICULTY_GAP + 1
        /\ Ntime(tipTime) \in Nat
        /\ LegalAt(tipTime) = Ntime(tipTime) - MAX_FUTURE_BLOCK_TIME
        /\ LegalAt(tipTime) \in Int
    BY PlanDoesNotWrap
  <2>2. job' \in WindowJob
    BY <1>3, <2>1 DEF BuildJob, WindowJob
  <2> QED
    BY <1>3, <2>1, <2>2 DEF BuildJob
<1>4. CASE Solve
  <2>1. /\ WakeAt(job.notBefore) \in now .. now + MAX_SUBMISSION_HOLD
        /\ WakeAt(job.notBefore) <= now + MIN_DIFFICULTY_GAP + 1
    BY <1>4, WakeWithinGap DEF Solve, WindowJob
  <2>2. PICK roll \in TimeRoll :
          held' = [exists |-> TRUE, onTip |-> job.onTip, parentTime |-> job.parentTime,
                   time |-> job.time + roll, until |-> WakeAt(job.notBefore)]
    BY <1>4 DEF Solve
  <2>3. held' \in Block
    BY <1>4, <2>1, <2>2 DEF Solve, WindowJob, Block
  <2> QED
    BY <1>4, <2>1, <2>2, <2>3 DEF Solve
<1>5. CASE SubmitBlock
  <2>1. verdict' \in Verdicts
    BY <1>5 DEF SubmitBlock, NodeVerdict, Verdicts
  <2>2. held' \in Block /\ job' \in WindowJob /\ ~held'.exists
    BY <1>5 DEF SubmitBlock, WindowJob, Block
  <2>3. verdict' = "accepted" =>
          held.time <= now + MAX_FUTURE_BLOCK_TIME /\ held.time \in Nat
    BY <1>5 DEF SubmitBlock, NodeVerdict, Block
  <2>4. job'.exists = job.exists /\ job'.parentTime = job.parentTime
        /\ job'.time = job.time /\ job'.notBefore = job.notBefore
    BY <1>5 DEF SubmitBlock, WindowJob
  <2> QED
    BY <1>5, <2>1, <2>2, <2>3, <2>4 DEF SubmitBlock
<1>6. CASE UNCHANGED windowVars
  BY <1>6 DEF windowVars
<1> QED
  BY <1>1, <1>2, <1>3, <1>4, <1>5, <1>6 DEF WindowNext

LEMMA SpecWindowInv == WindowSpec => []WindowInv
  BY InitWindowInv, NextWindowInv, PTL DEF WindowSpec

\* With miners that hash the time they were given.
LEMMA NextPunctualInv ==
  TimeRoll = {0} /\ WindowInv /\ PunctualInv /\ [WindowNext]_windowVars => PunctualInv'
<1> SUFFICES ASSUME TimeRoll = {0}, WindowInv, PunctualInv, [WindowNext]_windowVars
             PROVE  PunctualInv'
  OBVIOUS
<1> USE MinDifficultyAssumption DEF WindowInv, WindowTypeOK, PunctualInv, HeldIsPlanned, NeverRefused
<1>1. CASE ClockTick
  BY <1>1 DEF ClockTick, Block
<1>2. CASE OtherBlock
  BY <1>2 DEF OtherBlock, Block
<1>3. CASE BuildJob
  BY <1>3 DEF BuildJob
<1>4. CASE Solve
  <2>1. /\ job.time \in Nat /\ job.notBefore \in Int /\ job.parentTime \in Nat
        /\ job.time = job.parentTime + MIN_DIFFICULTY_GAP + 1
        /\ job.notBefore = job.time - MAX_FUTURE_BLOCK_TIME
        /\ job.notBefore <= now + MIN_DIFFICULTY_GAP + 1
    BY <1>4 DEF Solve, JobIsPlanned, WindowJob
  <2>2. /\ WakeAt(job.notBefore) \in Int
        /\ WakeAt(job.notBefore) >= job.notBefore
        /\ now < WakeAt(job.notBefore) => WakeAt(job.notBefore) = job.notBefore
    BY <2>1, WakeWithinGap
  <2>3. held' = [exists |-> TRUE, onTip |-> job.onTip, parentTime |-> job.parentTime,
                 time |-> job.time + 0, until |-> WakeAt(job.notBefore)]
    BY <1>4 DEF Solve
  <2> QED
    BY <1>4, <2>1, <2>2, <2>3 DEF Solve
<1>5. CASE SubmitBlock
  <2>1. held.time \in Int /\ held.until \in Int /\ held.parentTime \in Nat
    BY DEF Block
  <2>2. ~held'.exists
    BY <1>5 DEF SubmitBlock, Block
  <2>3. verdict' \notin {"time-too-new", "bad-diffbits"}
    BY <1>5, <2>1 DEF SubmitBlock, NodeVerdict
  <2> QED
    BY <2>2, <2>3
<1>6. CASE UNCHANGED windowVars
  BY <1>6 DEF windowVars
<1> QED
  BY <1>1, <1>2, <1>3, <1>4, <1>5, <1>6 DEF WindowNext

LEMMA SpecPunctualInv == TimeRoll = {0} => (WindowSpec => []PunctualInv)
<1> SUFFICES ASSUME TimeRoll = {0} PROVE WindowSpec => []PunctualInv
  OBVIOUS
<1>1. WindowInit => PunctualInv
  BY DEF WindowInit, PunctualInv, HeldIsPlanned, NeverRefused
<1>2. WindowInv /\ PunctualInv /\ [WindowNext]_windowVars => PunctualInv'
  BY NextPunctualInv
<1> QED
  BY <1>1, <1>2, SpecWindowInv, PTL DEF WindowSpec

-----------------------------------------------------------------------------
\* Every value stays in its range: what plan stamps a job with fits u32, and no
\* hold outlasts MAX_SUBMISSION_HOLD (min_difficulty.rs:84-92, validate.rs:135).
THEOREM WindowTypeCorrect == WindowSpec => []WindowTypeOK
<1>1. WindowInv => WindowTypeOK
  BY DEF WindowInv
<1> QED
  BY <1>1, SpecWindowInv, PTL

\* The reader that holds a solved block is free within the gap and a second, for
\* whatever time the miner put in the header (validate.rs:132-139).
THEOREM HoldWithinGapCorrect == WindowSpec => []HoldWithinGap
<1>1. WindowInv => HoldWithinGap
  BY DEF WindowInv
<1> QED
  BY <1>1, SpecWindowInv, PTL

\* A miner that keeps the job's time is never refused (validate.rs:53-56).
THEOREM NeverRefusedCorrect == TimeRoll = {0} => (WindowSpec => []NeverRefused)
<1>1. PunctualInv => NeverRefused
  BY DEF PunctualInv
<1> QED
  BY <1>1, SpecPunctualInv, PTL

\* MAX_SUBMISSION_HOLD never cuts a hold short (validate.rs:19-22).
THEOREM HoldIsExactCorrect == TimeRoll = {0} => (WindowSpec => []HoldIsExact)
<1>1. PunctualInv => HoldIsExact
  BY DEF PunctualInv, HeldIsPlanned, HoldIsExact
<1> QED
  BY <1>1, SpecPunctualInv, PTL
=============================================================================
