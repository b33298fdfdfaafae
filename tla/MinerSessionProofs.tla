------------------------- MODULE MinerSessionProofs -------------------------
(***************************************************************************)
(* A running miner with nothing on its way has had the newest job, and     *)
(* every share is in one place, for any number of jobs and shares and any  *)
(* length of the queues.                                                   *)
(***************************************************************************)
EXTENDS MinerSession, FiniteSetTheorems, TLAPS

\* The messages of a queue.
Among(queue) == {queue[i] : i \in 1 .. Len(queue)}

NewWork == Notification("notify", newest)
Authorization == Reply(AuthorizeId, NoError)

\* What is announced was installed, and a share that is checked has its id.
PlacesOK ==
  /\ announced <= newest
  /\ reader = "check" => checking \in SubmitIds

\* What a message of either direction is.
WireOK ==
  /\ \A m \in Among(toPool) :
       /\ m.method = "subscribe" => m.id = SubscribeId
       /\ m.method = "authorize" => m.id = AuthorizeId
       /\ m.method = "submit" => m.id \in SubmitIds
  /\ \A share \in sending : share.method = "submit" /\ share.id \in SubmitIds
  /\ miner # "running" => sending = {}

\* Before the pool has read the subscribe request there is nothing but that request.
\* After it there is none.
Subscribing == subscribed \/ reader = "subscribe"
SubscribeOK ==
  connected =>
    IF Subscribing
    THEN /\ miner # "connected"
         /\ \A m \in Among(toPool) : m.method # "subscribe"
         /\ reader = "subscribe" => ~authorized
    ELSE /\ toMiner = <<>> /\ reader = "read" /\ ~authorized
         /\ \/ miner = "connected" /\ toPool = <<>>
            \/ miner = "subscribing" /\ toPool = <<Call(SubscribeId, "subscribe", NoJob)>>

\* The authorize request follows the reply to the subscription, and the miner runs
\* once it has the reply to that.
AuthorizeOK ==
  connected =>
    /\ miner \in {"connected", "subscribing"}
         => ~authorized /\ \A m \in Among(toPool) : m.method # "authorize"
    /\ miner # "exited"
    /\ IF authorized
       THEN miner = "running" \/ Authorization \in Among(toMiner)
       ELSE miner # "running" /\ \A m \in Among(toMiner) : m.id # AuthorizeId

\* The newest job is on its way, behind the reply that the miner still waits for.
OnItsWay ==
  \E i \in 1 .. Len(toMiner) :
    /\ toMiner[i] = NewWork
    /\ miner = "running" \/ \E k \in 1 .. i - 1 : toMiner[k] = Authorization

NewestOK ==
  connected /\ authorized /\ newest # NoJob =>
    \/ newest # announced
    \/ newest \in received
    \/ reader = "current"
    \/ reader = "notify" /\ current = newest
    \/ OnItsWay

IInv == TypeOK /\ PlacesOK /\ WireOK /\ SubscribeOK /\ AuthorizeOK /\ NewestOK

-----------------------------------------------------------------------------
(* Messages and queues.                                                    *)

LEMMA Messages ==
  /\ \A job \in Jobs \cup {NoJob} :
       /\ \A method \in {"set_difficulty", "notify"} :
            /\ Notification(method, job) \in ToMiner
            /\ IsRequest(Notification(method, job))
            /\ Notification(method, job).id = NoId
            /\ Notification(method, job).method = method
            /\ Notification(method, job).job = job
       /\ \A id \in {SubscribeId, AuthorizeId} \cup SubmitIds :
            \A method \in {"subscribe", "authorize", "submit"} :
              /\ Call(id, method, job) \in ToPool
              /\ Call(id, method, job).id = id
              /\ Call(id, method, job).method = method
  /\ \A id \in {SubscribeId, AuthorizeId} \cup SubmitIds :
       \A error \in {NoError, JobNotFound, Unauthorized, OtherError} :
         /\ Reply(id, error) \in ToMiner
         /\ IsResponse(Reply(id, error))
         /\ Reply(id, error).id = id
BY DEF Notification, Call, Reply, ToMiner, ToPool, Requests, Replies, IsRequest, IsResponse

LEMMA Ids ==
  /\ SubmitIds \subseteq Nat
  /\ SubscribeId \notin SubmitIds /\ AuthorizeId \notin SubmitIds /\ NoId \notin SubmitIds
BY MinerSessionAssumption DEF SubmitIds, FirstSubmitId, SubscribeId, AuthorizeId, NoId

\* What a request read from a queue is, and a message.
LEMMA ToPoolParts ==
  ASSUME NEW m \in ToPool
  PROVE  /\ m.id \in {SubscribeId, AuthorizeId} \cup SubmitIds
         /\ m.method \in {"subscribe", "authorize", "submit"}
         /\ m.job \in Jobs \cup {NoJob}
BY DEF ToPool, Requests

LEMMA ToMinerParts ==
  ASSUME NEW m \in ToMiner
  PROVE  IF IsRequest(m)
         THEN m.id = NoId /\ m.method \in {"set_difficulty", "notify"} /\ m.job \in Jobs \cup {NoJob}
         ELSE m.id \in {SubscribeId, AuthorizeId} \cup SubmitIds
BY DEF ToMiner, Requests, Replies, IsRequest

LEMMA QueueFacts ==
  ASSUME NEW S, NEW queue \in Seq(S)
  PROVE  /\ queue # <<>> => /\ Head(queue) \in S /\ Head(queue) = queue[1]
                            /\ Tail(queue) \in Seq(S)
                            /\ Len(queue) \in Nat \ {0}
                            /\ Len(Tail(queue)) = Len(queue) - 1
                            /\ \A i \in 1 .. Len(queue) - 1 : Tail(queue)[i] = queue[i + 1]
         /\ \A added \in Seq(S) :
              /\ queue \o added \in Seq(S)
              /\ Len(queue \o added) = Len(queue) + Len(added)
              /\ \A i \in 1 .. Len(queue) : (queue \o added)[i] = queue[i]
              /\ \A i \in 1 .. Len(added) : (queue \o added)[Len(queue) + i] = added[i]
         /\ Prefixes(queue) \subseteq Seq(S)
<1>1. Prefixes(queue) \subseteq Seq(S)
  BY DEF Prefixes
<1>2. queue # <<>> => /\ Head(queue) \in S /\ Head(queue) = queue[1]
                      /\ Tail(queue) \in Seq(S)
                      /\ Len(queue) \in Nat \ {0}
                      /\ Len(Tail(queue)) = Len(queue) - 1
                      /\ \A i \in 1 .. Len(queue) - 1 : Tail(queue)[i] = queue[i + 1]
  OBVIOUS
<1>3. \A added \in Seq(S) :
        /\ queue \o added \in Seq(S)
        /\ Len(queue \o added) = Len(queue) + Len(added)
        /\ \A i \in 1 .. Len(queue) : (queue \o added)[i] = queue[i]
        /\ \A i \in 1 .. Len(added) : (queue \o added)[Len(queue) + i] = added[i]
  OBVIOUS
<1> QED
  BY <1>1, <1>2, <1>3

LEMMA AmongFacts ==
  ASSUME NEW S, NEW queue \in Seq(S)
  PROVE  /\ queue # <<>> => /\ Head(queue) \in Among(queue)
                            /\ Among(Tail(queue)) \subseteq Among(queue)
                            /\ Among(queue) \subseteq Among(Tail(queue)) \cup {Head(queue)}
         /\ queue = <<>> => Among(queue) = {}
         /\ \A m \in S : Among(queue \o <<m>>) = Among(queue) \cup {m}
         /\ \A m, n \in S : Among(queue \o <<m, n>>) = Among(queue) \cup {m, n}
         /\ \A prefix \in Prefixes(queue) : Among(prefix) \subseteq Among(queue)
<1>1. ASSUME queue # <<>>
      PROVE  /\ Head(queue) \in Among(queue)
             /\ Among(Tail(queue)) \subseteq Among(queue)
             /\ Among(queue) \subseteq Among(Tail(queue)) \cup {Head(queue)}
  <2>1. /\ Len(queue) \in Nat \ {0} /\ Len(Tail(queue)) = Len(queue) - 1
        /\ Head(queue) = queue[1]
        /\ \A i \in 1 .. Len(queue) - 1 : Tail(queue)[i] = queue[i + 1]
    BY <1>1, QueueFacts
  <2>2. ASSUME NEW i \in 1 .. Len(queue) PROVE queue[i] \in Among(Tail(queue)) \cup {Head(queue)}
    <3>1. CASE i = 1
      BY <2>1, <3>1
    <3>2. CASE i # 1
      <4>1. i - 1 \in 1 .. Len(Tail(queue)) /\ Tail(queue)[i - 1] = queue[i]
        BY <2>1, <3>2
      <4> QED
        BY <4>1 DEF Among
    <3> QED
      BY <3>1, <3>2
  <2>3. \A i \in 1 .. Len(Tail(queue)) : i + 1 \in 1 .. Len(queue) /\ Tail(queue)[i] = queue[i + 1]
    BY <2>1
  <2>4. Among(Tail(queue)) \subseteq Among(queue)
    BY <2>3 DEF Among
  <2>5. Head(queue) \in Among(queue)
    BY <2>1 DEF Among
  <2> QED
    BY <2>2, <2>4, <2>5 DEF Among
<1>2. queue = <<>> => Among(queue) = {}
  BY DEF Among
<1>3. ASSUME NEW m \in S PROVE Among(queue \o <<m>>) = Among(queue) \cup {m}
  <2>1. /\ Len(queue) \in Nat /\ Len(queue \o <<m>>) = Len(queue) + 1
        /\ \A i \in 1 .. Len(queue) : (queue \o <<m>>)[i] = queue[i]
        /\ (queue \o <<m>>)[Len(queue) + 1] = m
    OBVIOUS
  <2>2. \A i \in 1 .. Len(queue) + 1 : i \in 1 .. Len(queue) \/ i = Len(queue) + 1
    BY <2>1
  <2>3. Len(queue) + 1 \in 1 .. Len(queue) + 1 /\ 1 .. Len(queue) \subseteq 1 .. Len(queue) + 1
    BY <2>1
  <2>4. ASSUME NEW i \in 1 .. Len(queue) + 1
        PROVE  (queue \o <<m>>)[i] \in Among(queue) \cup {m}
    BY <2>1, <2>2 DEF Among
  <2>5. Among(queue \o <<m>>) \subseteq Among(queue) \cup {m}
    BY <2>1, <2>4 DEF Among
  <2>6. Among(queue) \cup {m} \subseteq Among(queue \o <<m>>)
    BY <2>1, <2>3 DEF Among
  <2> QED
    BY <2>5, <2>6
<1>4. ASSUME NEW m \in S, NEW n \in S
      PROVE  Among(queue \o <<m, n>>) = Among(queue) \cup {m, n}
  BY DEF Among
<1>5. ASSUME NEW prefix \in Prefixes(queue) PROVE Among(prefix) \subseteq Among(queue)
  BY DEF Among, Prefixes
<1> QED
  BY <1>1, <1>2, <1>3, <1>4, <1>5

-----------------------------------------------------------------------------
LEMMA InitIInv == Init => IInv
<1> SUFFICES ASSUME Init PROVE IInv
  OBVIOUS
<1> USE DEF Init
<1>1. toPool \in Seq(ToPool) /\ toMiner \in Seq(ToMiner) /\ sending \subseteq ToPool
  OBVIOUS
<1>2. TypeOK
  <2>1. newest \in 0 .. MaxJobs /\ announced \in 0 .. MaxJobs /\ taken \in 0 .. MaxShares
    BY MinerSessionAssumption
  <2>2. current \in Jobs \cup {NoJob} /\ checking \in SubmitIds \cup {NoId}
    OBVIOUS
  <2>3. received = {} /\ answered = {}
    OBVIOUS
  <2>4. /\ reader = "read" /\ miner = "connected"
        /\ authorized \in BOOLEAN /\ subscribed \in BOOLEAN /\ connected \in BOOLEAN
    OBVIOUS
  <2> HIDE DEF Init
  <2> QED
    BY <1>1, <2>1, <2>2, <2>3, <2>4 DEF TypeOK
<1>3. PlacesOK /\ WireOK /\ SubscribeOK /\ AuthorizeOK /\ NewestOK
  BY DEF PlacesOK, WireOK, SubscribeOK, Subscribing, AuthorizeOK, NewestOK, NoJob, Among
<1> QED
  BY <1>2, <1>3 DEF IInv

\* The steps that add to a queue, and what they add.
LEMMA SendToPoolType ==
  ASSUME toPool \in Seq(ToPool), NEW m \in ToPool, SendToPool(<<m>>)
  PROVE  toPool' \in Seq(ToPool)
BY DEF SendToPool

LEMMA SendToMinerType ==
  ASSUME toMiner \in Seq(ToMiner), NEW m \in ToMiner, SendToMiner(<<m>>)
  PROVE  toMiner' \in Seq(ToMiner)
BY DEF SendToMiner

LEMMA PollerKeepsType == TypeOK /\ PlacesOK /\ (InstallJob \/ Broadcast) => TypeOK' /\ PlacesOK'
<1> SUFFICES ASSUME TypeOK, PlacesOK, InstallJob \/ Broadcast PROVE TypeOK' /\ PlacesOK'
  OBVIOUS
<1>0. newest \in 0 .. MaxJobs /\ announced \in 0 .. MaxJobs /\ announced <= newest
  BY DEF TypeOK, PlacesOK
<1>1. CASE InstallJob
  <2>1. newest' \in 0 .. MaxJobs /\ announced' <= newest'
    BY <1>0, <1>1, MinerSessionAssumption DEF InstallJob
  <2> QED
    BY <1>1, <2>1 DEF InstallJob, TypeOK, PlacesOK, session, wire, mining
<1>2. CASE Broadcast
  <2>1. newest \in Jobs /\ announced' <= newest'
    BY <1>0, <1>2, MinerSessionAssumption DEF Broadcast, Jobs
  <2>2. NewWork \in ToMiner
    BY <2>1, Messages DEF NewWork
  <2>3. toMiner' \in Seq(ToMiner)
    BY <1>2, <2>2, SendToMinerType DEF Broadcast, NewWork, TypeOK
  <2>4. subscribed' \in BOOLEAN
    BY <1>2 DEF Broadcast, TypeOK
  <2> QED
    BY <1>2, <2>1, <2>3, <2>4 DEF Broadcast, TypeOK, PlacesOK, mining
<1> QED
  BY <1>1, <1>2

\* What the reader takes from its queue, and may answer.
LEMMA Requested ==
  ASSUME TypeOK, WireOK, NEW method, Request(method)
  PROVE  /\ reader = "read" /\ Head(toPool).method = method
         /\ toPool' \in Seq(ToPool)
         /\ \A error \in {NoError, JobNotFound, Unauthorized} :
              Reply(Head(toPool).id, error) \in ToMiner
         /\ method = "subscribe" => Head(toPool).id = SubscribeId
         /\ method = "authorize" => Head(toPool).id = AuthorizeId
         /\ method = "submit" => Head(toPool).id \in SubmitIds
<1>1. reader = "read" /\ toPool # <<>> /\ Head(toPool).method = method /\ toPool' = Tail(toPool)
  BY DEF Request
<1>2. toPool \in Seq(ToPool)
  BY DEF TypeOK
<1>3. /\ Head(toPool) \in ToPool /\ Head(toPool) \in Among(toPool) /\ toPool' \in Seq(ToPool)
  BY <1>1, <1>2, QueueFacts, AmongFacts
<1>4. Head(toPool).id \in {SubscribeId, AuthorizeId} \cup SubmitIds
  BY <1>3, ToPoolParts
<1>5. /\ method = "subscribe" => Head(toPool).id = SubscribeId
      /\ method = "authorize" => Head(toPool).id = AuthorizeId
      /\ method = "submit" => Head(toPool).id \in SubmitIds
  <2>1. /\ Head(toPool).method = "subscribe" => Head(toPool).id = SubscribeId
        /\ Head(toPool).method = "authorize" => Head(toPool).id = AuthorizeId
        /\ Head(toPool).method = "submit" => Head(toPool).id \in SubmitIds
    BY <1>3, Zenon DEF WireOK
  <2> QED
    BY <1>1, <2>1
<1>6. \A error \in {NoError, JobNotFound, Unauthorized} : Reply(Head(toPool).id, error) \in ToMiner
  BY <1>4, Messages
<1> QED
  BY <1>1, <1>3, <1>5, <1>6

LEMMA SessionKeepsType ==
  TypeOK /\ PlacesOK /\ WireOK /\ Session => TypeOK' /\ PlacesOK'
<1> SUFFICES ASSUME TypeOK, PlacesOK, WireOK, Session PROVE TypeOK' /\ PlacesOK'
  OBVIOUS
<1> USE DEF pool, wire, mining
<1>1. CASE OnSubscribe
  <2>0. Request("subscribe")
    BY <1>1 DEF OnSubscribe
  <2>1. toPool' \in Seq(ToPool) /\ Reply(Head(toPool).id, NoError) \in ToMiner
    BY <2>0, Requested
  <2>2. toMiner' \in Seq(ToMiner)
    BY <1>1, <2>1, SendToMinerType DEF OnSubscribe, TypeOK
  <2> QED
    BY <1>1, <2>1, <2>2 DEF OnSubscribe, TypeOK, PlacesOK
<1>2. CASE Subscribe
  BY <1>2 DEF Subscribe, TypeOK, PlacesOK
<1>3. CASE OnAuthorize
  <2>0. Request("authorize")
    BY <1>3 DEF OnAuthorize
  <2>1. toPool' \in Seq(ToPool) /\ Reply(Head(toPool).id, NoError) \in ToMiner
    BY <2>0, Requested
  <2>2. toMiner' \in Seq(ToMiner)
    BY <1>3, <2>1, SendToMinerType DEF OnAuthorize, TypeOK
  <2> QED
    BY <1>3, <2>1, <2>2 DEF OnAuthorize, TypeOK, PlacesOK
<1>4. CASE ReadCurrentJob
  <2>1. newest = NoJob \/ newest \in Jobs
    BY MinerSessionAssumption DEF TypeOK, Jobs, NoJob
  <2> QED
    BY <1>4, <2>1 DEF ReadCurrentJob, TypeOK, PlacesOK
<1>5. CASE SendCurrentWork
  <2>1. /\ Notification("set_difficulty", NoJob) \in ToMiner
        /\ Notification("notify", current) \in ToMiner
    BY Messages DEF TypeOK
  <2>2. toMiner' \in Seq(ToMiner)
    BY <1>5, <2>1 DEF SendCurrentWork, SendToMiner, TypeOK
  <2> QED
    BY <1>5, <2>2 DEF SendCurrentWork, TypeOK, PlacesOK
<1>6. CASE OnSubmit
  <2>0. Request("submit")
    BY <1>6 DEF OnSubmit
  <2>1. /\ toPool' \in Seq(ToPool) /\ Head(toPool).id \in SubmitIds
        /\ \A error \in {NoError, JobNotFound, Unauthorized} : Reply(Head(toPool).id, error) \in ToMiner
    BY <2>0, Requested
  <2>2. \/ reader' = "check" /\ checking' = Head(toPool).id /\ UNCHANGED toMiner
        \/ /\ \E error \in {JobNotFound, Unauthorized} : SendToMiner(<<Reply(Head(toPool).id, error)>>)
           /\ UNCHANGED <<reader, checking>>
    BY <1>6 DEF OnSubmit, NoError, JobNotFound, Unauthorized
  <2>3. toMiner' \in Seq(ToMiner)
    BY <2>1, <2>2, SendToMinerType DEF TypeOK
  <2> QED
    BY <1>6, <2>1, <2>2, <2>3 DEF OnSubmit, TypeOK, PlacesOK
<1>7. CASE AnswerShare
  <2>1. PICK error \in {NoError, OtherError} : SendToMiner(<<Reply(checking, error)>>)
    BY <1>7 DEF AnswerShare
  <2>2. Reply(checking, error) \in ToMiner
    BY <1>7, Messages DEF AnswerShare, PlacesOK
  <2>3. toMiner' \in Seq(ToMiner)
    BY <2>1, <2>2, SendToMinerType DEF TypeOK
  <2> QED
    BY <1>7, <2>3 DEF AnswerShare, TypeOK, PlacesOK
<1>8. CASE EndOfInput
  BY <1>8 DEF EndOfInput, TypeOK, PlacesOK
<1> QED
  BY <1>1, <1>2, <1>3, <1>4, <1>5, <1>6, <1>7, <1>8 DEF Session

\* The shares that are waiting to be sent.
LEMMA TakenId ==
  ASSUME TypeOK, TakeId
  PROVE  /\ taken' \in 0 .. MaxShares
         /\ \E id \in SubmitIds, job \in Jobs \cup {NoJob} :
              sending' = sending \cup {Call(id, "submit", job)}
<1>1. taken \in 0 .. MaxShares /\ taken < MaxShares /\ taken' = taken + 1
  BY DEF TypeOK, TakeId
<1>2. FirstSubmitId + taken \in SubmitIds /\ taken' \in 0 .. MaxShares
  BY <1>1, MinerSessionAssumption DEF SubmitIds, FirstSubmitId
<1> QED
  BY <1>2 DEF TakeId, TypeOK

\* What the end of a process leaves.
LEMMA ExitType == TypeOK /\ Exit => TypeOK'
<1> SUFFICES ASSUME TypeOK, Exit PROVE TypeOK'
  OBVIOUS
<1>1. toPool' \in Seq(ToPool)
  BY QueueFacts DEF Exit, TypeOK
<1>2. toMiner' \in Seq(ToMiner) /\ sending' \subseteq ToPool
  BY DEF Exit
<1> QED
  BY <1>1, <1>2 DEF Exit, TypeOK, pool, session

LEMMA MinerKeepsType ==
  TypeOK /\ PlacesOK /\ (Main \/ Timeout \/ TakeId \/ SendShare \/ Break) => TypeOK' /\ PlacesOK'
<1> SUFFICES ASSUME TypeOK, PlacesOK, Main \/ Timeout \/ TakeId \/ SendShare \/ Break
             PROVE  TypeOK' /\ PlacesOK'
  OBVIOUS
<1>0. PlacesOK'
  BY DEF Main, SendSubscribe, Discard, GetReply, Disconnected, Receive, Timeout, Exit, TakeId,
         SendShare, Break, PlacesOK, pool, session
<1>a. toMiner # <<>> => Tail(toMiner) \in Seq(ToMiner) /\ Head(toMiner) \in ToMiner
  BY QueueFacts DEF TypeOK
<1>1. CASE SendSubscribe
  <2>1. Call(SubscribeId, "subscribe", NoJob) \in ToPool
    BY Messages
  <2>2. toPool' \in Seq(ToPool)
    BY <1>1, <2>1, SendToPoolType DEF SendSubscribe, TypeOK
  <2> QED
    BY <1>0, <1>1, <2>2 DEF SendSubscribe, TypeOK, pool, session
<1>2. CASE Discard
  BY <1>0, <1>a, <1>2 DEF Discard, TypeOK, pool, session, mining
<1>3. CASE GetReply
  <2>1. Call(AuthorizeId, "authorize", NoJob) \in ToPool
    BY Messages
  <2>2. toPool' \in Seq(ToPool)
    BY <1>3, <2>1, SendToPoolType DEF GetReply, TypeOK
  <2>3. miner' \in {"authorizing", "running"}
    BY <1>3 DEF GetReply
  <2> QED
    BY <1>0, <1>a, <1>3, <2>2, <2>3 DEF GetReply, TypeOK, pool, session
<1>4. CASE Disconnected \/ Timeout
  BY <1>0, <1>4, ExitType DEF Disconnected, Timeout
<1>5. CASE Receive
  <2> DEFINE message == Head(toMiner)
  <2>1. message \in ToMiner
    BY <1>a, <1>5 DEF Receive
  <2>2. received' \subseteq Jobs \cup {NoJob}
    BY <1>5, <2>1, ToMinerParts DEF Receive, TypeOK
  <2>3. answered' \subseteq {SubscribeId, AuthorizeId} \cup SubmitIds
    BY <1>5, <2>1, ToMinerParts DEF Receive, TypeOK, IsResponse
  <2> HIDE DEF message
  <2> QED
    BY <1>0, <1>a, <1>5, <2>2, <2>3 DEF Receive, TypeOK, pool, session
<1>6. CASE TakeId
  <2>1. taken' \in 0 .. MaxShares
    BY <1>6, TakenId
  <2>2. sending' \subseteq ToPool
    <3>1. PICK id \in SubmitIds, job \in Jobs \cup {NoJob} :
            sending' = sending \cup {Call(id, "submit", job)}
      BY <1>6, TakenId
    <3>2. Call(id, "submit", job) \in ToPool
      BY Messages
    <3> QED
      BY <3>1, <3>2 DEF TypeOK
  <2> QED
    BY <1>0, <1>6, <2>1, <2>2 DEF TakeId, TypeOK, pool, session, wire
<1>7. CASE SendShare
  <2>1. PICK share \in sending : SendToPool(<<share>>) /\ sending' = sending \ {share}
    BY <1>7 DEF SendShare
  <2>2. share \in ToPool /\ sending' \subseteq ToPool
    BY <2>1 DEF TypeOK
  <2>3. toPool' \in Seq(ToPool)
    BY <2>1, <2>2, SendToPoolType DEF TypeOK
  <2> QED
    BY <1>0, <1>7, <2>2, <2>3 DEF SendShare, TypeOK, pool, session
<1>8. CASE Break
  <2>1. toPool' \in Seq(ToPool) /\ toMiner' \in Seq(ToMiner)
    BY <1>8, QueueFacts DEF Break, TypeOK
  <2> QED
    BY <1>0, <1>8, <2>1 DEF Break, TypeOK, pool, session, mining
<1> QED
  BY <1>1, <1>2, <1>3, <1>4, <1>5, <1>6, <1>7, <1>8 DEF Main

-----------------------------------------------------------------------------
(* What is in the queues after a step.                                     *)

LEMMA SentToPool ==
  ASSUME TypeOK, NEW m \in ToPool, SendToPool(<<m>>)
  PROVE  Among(toPool') \subseteq Among(toPool) \cup {m}
<1>1. toPool \in Seq(ToPool)
  BY DEF TypeOK
<1>2. Among(toPool \o <<m>>) = Among(toPool) \cup {m}
  BY <1>1, AmongFacts
<1> QED
  BY <1>2 DEF SendToPool

LEMMA SentToMiner ==
  ASSUME TypeOK, connected, NEW m \in ToMiner, SendToMiner(<<m>>)
  PROVE  Among(toMiner') = Among(toMiner) \cup {m}
<1>1. toMiner \in Seq(ToMiner)
  BY DEF TypeOK
<1>2. Among(toMiner \o <<m>>) = Among(toMiner) \cup {m}
  BY <1>1, AmongFacts
<1> QED
  BY <1>2 DEF SendToMiner

\* A request that was read is gone, and the others were there before.
LEMMA ReadFromPool ==
  ASSUME TypeOK, NEW method, Request(method)
  PROVE  /\ Head(toPool) \in Among(toPool) /\ Head(toPool).method = method
         /\ Among(toPool') \subseteq Among(toPool)
<1>1. toPool \in Seq(ToPool) /\ toPool # <<>> /\ toPool' = Tail(toPool)
      /\ Head(toPool).method = method
  BY DEF TypeOK, Request
<1> QED
  BY <1>1, AmongFacts

\* What each step may add to the pool's queue.
LEMMA NewRequests ==
  ASSUME TypeOK, WireOK, Next
  PROVE  \/ Among(toPool') \subseteq Among(toPool)
         \/ /\ SendSubscribe
            /\ Among(toPool') \subseteq Among(toPool) \cup {Call(SubscribeId, "subscribe", NoJob)}
         \/ /\ GetReply /\ miner = "subscribing"
            /\ Among(toPool') \subseteq Among(toPool) \cup {Call(AuthorizeId, "authorize", NoJob)}
         \/ /\ SendShare
            /\ \E share \in sending : Among(toPool') \subseteq Among(toPool) \cup {share}
<1>1. CASE InstallJob \/ Broadcast \/ TakeId \/ Over
  <2>1. UNCHANGED toPool
    BY <1>1 DEF InstallJob, Broadcast, TakeId, Over, vars, wire
  <2> QED
    BY <2>1
<1>2. CASE OnSubscribe \/ OnAuthorize \/ OnSubmit
  BY <1>2, ReadFromPool DEF OnSubscribe, OnAuthorize, OnSubmit
<1>3. CASE Subscribe \/ ReadCurrentJob \/ SendCurrentWork \/ AnswerShare \/ EndOfInput
  <2>1. UNCHANGED toPool
    BY <1>3 DEF Subscribe, ReadCurrentJob, SendCurrentWork, AnswerShare, EndOfInput, wire
  <2> QED
    BY <2>1
<1>4. CASE SendSubscribe
  BY <1>4, Messages, SentToPool DEF SendSubscribe
<1>5. CASE GetReply
  <2>1. CASE miner = "subscribing"
    BY <1>5, <2>1, Messages, SentToPool DEF GetReply
  <2>2. CASE miner # "subscribing"
    BY <1>5, <2>2 DEF GetReply
  <2> QED
    BY <2>1, <2>2
<1>6. CASE Discard \/ Receive
  <2>1. UNCHANGED toPool
    BY <1>6 DEF Discard, Receive
  <2> QED
    BY <2>1
<1>7. CASE Disconnected \/ Timeout \/ Break
  <2>1. toPool' \in Prefixes(toPool)
    BY <1>7 DEF Disconnected, Timeout, Exit, Break
  <2> QED
    BY <2>1, AmongFacts DEF TypeOK
<1>8. CASE SendShare
  <2>1. PICK share \in sending : SendToPool(<<share>>)
    BY <1>8 DEF SendShare
  <2>2. share \in ToPool
    BY <2>1 DEF TypeOK
  <2> QED
    BY <1>8, <2>1, <2>2, SentToPool
<1> QED
  BY <1>1, <1>2, <1>3, <1>4, <1>5, <1>6, <1>7, <1>8 DEF Next, Session, Main

LEMMA NextWireOK == TypeOK /\ WireOK /\ Next => WireOK'
<1> SUFFICES ASSUME TypeOK, WireOK, Next PROVE WireOK'
  OBVIOUS
<1>1. ASSUME NEW m \in Among(toPool')
      PROVE  /\ m.method = "subscribe" => m.id = SubscribeId
             /\ m.method = "authorize" => m.id = AuthorizeId
             /\ m.method = "submit" => m.id \in SubmitIds
  <2>1. \/ m \in Among(toPool)
        \/ m = Call(SubscribeId, "subscribe", NoJob)
        \/ m = Call(AuthorizeId, "authorize", NoJob)
        \/ m \in sending
    BY <1>1, NewRequests
  <2> QED
    BY <2>1 DEF WireOK, Call
<1>2. ASSUME NEW share \in sending'
      PROVE  share.method = "submit" /\ share.id \in SubmitIds
  <2>1. CASE TakeId
    <3>1. PICK id \in SubmitIds, job \in Jobs \cup {NoJob} :
            sending' = sending \cup {Call(id, "submit", job)}
      BY <2>1, TakenId
    <3> QED
      BY <1>2, <3>1 DEF WireOK, Call
  <2>2. CASE ~TakeId
    <3>1. sending' \subseteq sending
      BY <2>2
      DEF Next, InstallJob, Broadcast, Session, OnSubscribe, Subscribe, OnAuthorize,
          ReadCurrentJob, SendCurrentWork, OnSubmit, AnswerShare, EndOfInput, Main,
          SendSubscribe, Discard, GetReply, Disconnected, Receive, Timeout, Exit, SendShare,
          Break, Over, vars, mining
    <3> QED
      BY <1>2, <3>1 DEF WireOK
  <2> QED
    BY <2>1, <2>2
<1>3. miner' # "running" => sending' = {}
  BY DEF WireOK, Next, InstallJob, Broadcast, Session, OnSubscribe, Subscribe, OnAuthorize,
         ReadCurrentJob, SendCurrentWork, OnSubmit, AnswerShare, EndOfInput, Main,
         SendSubscribe, Discard, GetReply, Disconnected, Receive, Timeout, Exit, TakeId,
         SendShare, Break, Over, vars, mining, Waiting
<1> QED
  BY <1>1, <1>2, <1>3 DEF WireOK

-----------------------------------------------------------------------------
\* A broken connection stays broken.
LEMMA StaysBroken == Next /\ connected' => connected
BY DEF Next, InstallJob, Broadcast, Session, OnSubscribe, Subscribe, OnAuthorize,
       ReadCurrentJob, SendCurrentWork, OnSubmit, AnswerShare, EndOfInput, Main,
       SendSubscribe, Discard, GetReply, Disconnected, Receive, Timeout, Exit, TakeId,
       SendShare, Break, Over, vars, pool, wire, session

LEMMA NextSubscribeOK == IInv /\ Next => SubscribeOK'
<1> SUFFICES ASSUME IInv, Next, connected' PROVE SubscribeOK'
  BY DEF SubscribeOK
<1>0. connected
  BY StaysBroken
<1>1. CASE ~Subscribing
  <2>1. /\ ~subscribed /\ toMiner = <<>> /\ reader = "read" /\ ~authorized
        /\ \/ miner = "connected" /\ toPool = <<>>
           \/ miner = "subscribing" /\ toPool = <<Call(SubscribeId, "subscribe", NoJob)>>
    BY <1>0, <1>1 DEF IInv, SubscribeOK, Subscribing
  <2>2. sending = {}
    BY <2>1 DEF IInv, WireOK
  <2>3. ASSUME NEW method, Request(method)
        PROVE  method = "subscribe" /\ miner = "subscribing" /\ toPool' = <<>>
    <3>1. toPool = <<Call(SubscribeId, "subscribe", NoJob)>>
      BY <2>1, <2>3 DEF Request
    <3>2. Head(toPool) = Call(SubscribeId, "subscribe", NoJob) /\ Tail(toPool) = <<>>
      BY <3>1
    <3>3. method = "subscribe" /\ toPool' = <<>>
      BY <2>3, <3>2 DEF Request, Call
    <3> QED
      BY <2>1, <2>3, <3>3 DEF Request
  <2>4. CASE OnSubscribe
    <3>1. miner' = "subscribing" /\ toPool' = <<>> /\ reader' = "subscribe" /\ ~authorized'
      BY <2>1, <2>3, <2>4 DEF OnSubscribe, mining
    <3>2. Among(toPool') = {}
      BY <3>1 DEF Among
    <3> QED
      BY <3>1, <3>2 DEF SubscribeOK, Subscribing
  <2>5. CASE SendSubscribe
    <3>1. miner' = "subscribing" /\ toPool' = <<Call(SubscribeId, "subscribe", NoJob)>>
      BY <1>0, <2>1, <2>5 DEF SendSubscribe, SendToPool
    <3> QED
      BY <2>1, <2>5, <3>1 DEF SendSubscribe, SubscribeOK, Subscribing, session
  <2>6. CASE InstallJob \/ Broadcast \/ Over
    <3>1. UNCHANGED <<subscribed, reader, authorized, toMiner, toPool, miner>>
      BY <1>0, <2>1, <2>6 DEF InstallJob, Broadcast, Over, vars, session, wire, mining
    <3> QED
      BY <2>1, <3>1 DEF SubscribeOK, Subscribing
  <2>7. ~(OnAuthorize \/ OnSubmit \/ Subscribe \/ ReadCurrentJob \/ SendCurrentWork \/ AnswerShare
          \/ EndOfInput \/ Discard \/ GetReply \/ Disconnected \/ Receive \/ Timeout \/ TakeId
          \/ SendShare \/ Break)
    BY <1>0, <2>1, <2>2, <2>3
    DEF OnAuthorize, OnSubmit, Subscribe, ReadCurrentJob, SendCurrentWork, AnswerShare,
        EndOfInput, Discard, GetReply, Disconnected, Receive, Timeout, Exit, TakeId,
        SendShare, Break
  <2> QED
    BY <2>4, <2>5, <2>6, <2>7 DEF Next, Session, Main
<1>2. CASE Subscribing
  <2>1. /\ miner # "connected"
        /\ \A m \in Among(toPool) : m.method # "subscribe"
        /\ reader = "subscribe" => ~authorized
    BY <1>0, <1>2 DEF IInv, SubscribeOK
  <2>a. ~Request("subscribe")
    BY <2>1, ReadFromPool DEF IInv
  <2>2. ~OnSubscribe /\ ~SendSubscribe
    BY <2>1, <2>a DEF OnSubscribe, SendSubscribe
  <2>3. Subscribing' /\ miner' # "connected" /\ (reader' = "subscribe" => ~authorized')
    BY <1>0, <1>2, <2>1, <2>2
    DEF Next, InstallJob, Broadcast, Session, Subscribe, OnAuthorize, Request,
        ReadCurrentJob, SendCurrentWork, OnSubmit, AnswerShare, EndOfInput, Main, Discard,
        GetReply, Disconnected, Receive, Timeout, Exit, TakeId, SendShare, Break, Over,
        vars, pool, wire, session, mining, Subscribing
  <2>4. ASSUME NEW m \in Among(toPool') PROVE m.method # "subscribe"
    <3>1. \/ m \in Among(toPool)
          \/ m = Call(AuthorizeId, "authorize", NoJob)
          \/ m \in sending
      BY <2>2, <2>4, NewRequests DEF IInv
    <3> QED
      BY <2>1, <3>1 DEF IInv, WireOK, Call
  <2> QED
    BY <2>3, <2>4 DEF SubscribeOK
<1> QED
  BY <1>1, <1>2

-----------------------------------------------------------------------------
\* What each step may add to the miner's queue.
LEMMA NewMessages ==
  ASSUME IInv, Next, connected, connected', NEW m \in Among(toMiner')
  PROVE  m \in Among(toMiner) \/ m.id # AuthorizeId \/ OnAuthorize
<1> SUFFICES ASSUME m \notin Among(toMiner) PROVE m.id # AuthorizeId \/ OnAuthorize
  OBVIOUS
<1>1. CASE Broadcast
  <2>1. newest \in Jobs
    BY <1>1, MinerSessionAssumption DEF Broadcast, IInv, TypeOK, PlacesOK, Jobs
  <2>2. NewWork \in ToMiner /\ NewWork.id = NoId
    BY <2>1, Messages DEF NewWork
  <2>3. UNCHANGED toMiner \/ SendToMiner(<<NewWork>>)
    BY <1>1 DEF Broadcast, NewWork
  <2>4. m = NewWork
    BY <2>2, <2>3, SentToMiner DEF IInv
  <2> QED
    BY <2>2, <2>4 DEF NoId, AuthorizeId
<1>2. CASE OnSubscribe
  <2>1. Request("subscribe") /\ SendToMiner(<<Reply(Head(toPool).id, NoError)>>)
    BY <1>2 DEF OnSubscribe
  <2>2. Head(toPool).id = SubscribeId /\ Reply(Head(toPool).id, NoError) \in ToMiner
    BY <2>1, Requested DEF IInv
  <2>3. m = Reply(SubscribeId, NoError)
    BY <2>1, <2>2, SentToMiner DEF IInv
  <2> QED
    BY <2>3 DEF Reply, SubscribeId, AuthorizeId
<1>3. CASE SendCurrentWork
  <2>1. /\ Notification("set_difficulty", NoJob) \in ToMiner
        /\ Notification("notify", current) \in ToMiner
    BY Messages DEF IInv, TypeOK
  <2>2. Among(toMiner') = Among(toMiner) \cup
          {Notification("set_difficulty", NoJob), Notification("notify", current)}
    BY <1>3, <2>1, AmongFacts DEF SendCurrentWork, SendToMiner, IInv, TypeOK
  <2> QED
    BY <2>2 DEF Notification, NoId, AuthorizeId
<1>4. CASE OnSubmit
  <2>1. Request("submit")
    BY <1>4 DEF OnSubmit
  <2>2. /\ Head(toPool).id \in SubmitIds
        /\ \A error \in {NoError, JobNotFound, Unauthorized} : Reply(Head(toPool).id, error) \in ToMiner
    BY <2>1, Requested DEF IInv
  <2>3. \/ UNCHANGED toMiner
        \/ \E error \in {JobNotFound, Unauthorized} : SendToMiner(<<Reply(Head(toPool).id, error)>>)
    BY <1>4 DEF OnSubmit, NoError, JobNotFound, Unauthorized
  <2>4. PICK error \in {JobNotFound, Unauthorized} : SendToMiner(<<Reply(Head(toPool).id, error)>>)
    BY <2>3
  <2>5. m = Reply(Head(toPool).id, error)
    BY <2>2, <2>4, SentToMiner DEF IInv
  <2> QED
    BY <2>2, <2>5, Ids DEF Reply
<1>5. CASE AnswerShare
  <2>1. PICK error \in {NoError, OtherError} : SendToMiner(<<Reply(checking, error)>>)
    BY <1>5 DEF AnswerShare
  <2>2. checking \in SubmitIds /\ Reply(checking, error) \in ToMiner
    BY <1>5, Messages DEF AnswerShare, IInv, PlacesOK
  <2>3. m = Reply(checking, error)
    BY <2>1, <2>2, SentToMiner DEF IInv
  <2> QED
    BY <2>2, <2>3, Ids DEF Reply
<1>6. CASE Discard \/ GetReply \/ Receive
  <2>1. toMiner # <<>> /\ toMiner' = Tail(toMiner)
    BY <1>6 DEF Discard, GetReply, Receive
  <2> QED
    BY <2>1, AmongFacts DEF IInv, TypeOK
<1>7. CASE \/ InstallJob \/ Subscribe \/ ReadCurrentJob \/ EndOfInput \/ SendSubscribe \/ TakeId
           \/ SendShare \/ Over
  <2>1. UNCHANGED toMiner
    BY <1>7 DEF InstallJob, Subscribe, ReadCurrentJob, EndOfInput, SendSubscribe, TakeId,
                SendShare, Over, vars, wire
  <2> QED
    BY <2>1
<1>8. ~(Disconnected \/ Timeout \/ Break)
  BY DEF Disconnected, Timeout, Exit, Break
<1> QED
  BY <1>1, <1>2, <1>3, <1>4, <1>5, <1>6, <1>7, <1>8 DEF Next, Session, Main

\* Only the miner's main thread takes from its queue; the others add to its end.
LEMMA QueueGrows ==
  ASSUME IInv, Next, connected, connected', ~(Discard \/ GetReply \/ Receive)
  PROVE  \E added \in Seq(ToMiner) : toMiner' = toMiner \o added
<1> DEFINE Grown == \E added \in Seq(ToMiner) : toMiner' = toMiner \o added
<1>0. toMiner \in Seq(ToMiner)
  BY DEF IInv, TypeOK
<1>a. UNCHANGED toMiner => Grown
  <2>1. toMiner \o <<>> = toMiner /\ <<>> \in Seq(ToMiner)
    BY <1>0
  <2> QED
    BY <2>1
<1>b. ASSUME NEW m \in ToMiner, SendToMiner(<<m>>) PROVE Grown
  <2>1. <<m>> \in Seq(ToMiner)
    OBVIOUS
  <2> QED
    BY <1>b, <2>1 DEF SendToMiner
<1> SUFFICES Grown
  OBVIOUS
<1> HIDE DEF Grown
<1>1. CASE Broadcast
  <2>1. newest \in Jobs
    BY <1>1, MinerSessionAssumption DEF Broadcast, IInv, TypeOK, PlacesOK, Jobs
  <2>2. NewWork \in ToMiner
    BY <2>1, Messages DEF NewWork
  <2> QED
    BY <1>a, <1>b, <1>1, <2>2 DEF Broadcast, NewWork
<1>2. CASE OnSubscribe
  <2>1. Request("subscribe") /\ SendToMiner(<<Reply(Head(toPool).id, NoError)>>)
    BY <1>2 DEF OnSubscribe
  <2>2. Reply(Head(toPool).id, NoError) \in ToMiner
    BY <2>1, Requested DEF IInv
  <2> QED
    BY <1>b, <2>1, <2>2
<1>3. CASE OnAuthorize
  <2>1. Request("authorize") /\ SendToMiner(<<Reply(Head(toPool).id, NoError)>>)
    BY <1>3 DEF OnAuthorize
  <2>2. Reply(Head(toPool).id, NoError) \in ToMiner
    BY <2>1, Requested DEF IInv
  <2> QED
    BY <1>b, <2>1, <2>2
<1>4. CASE SendCurrentWork
  <2> DEFINE work == <<Notification("set_difficulty", NoJob), Notification("notify", current)>>
  <2>1. /\ Notification("set_difficulty", NoJob) \in ToMiner
        /\ Notification("notify", current) \in ToMiner
    BY Messages DEF IInv, TypeOK
  <2>2. work \in Seq(ToMiner)
    BY <2>1
  <2>3. toMiner' = toMiner \o work
    BY <1>4 DEF SendCurrentWork, SendToMiner
  <2> QED
    BY <2>2, <2>3 DEF Grown
<1>5. CASE OnSubmit
  <2>1. Request("submit")
    BY <1>5 DEF OnSubmit
  <2>2. \A error \in {NoError, JobNotFound, Unauthorized} : Reply(Head(toPool).id, error) \in ToMiner
    BY <2>1, Requested DEF IInv
  <2>3. \/ UNCHANGED toMiner
        \/ \E error \in {JobNotFound, Unauthorized} : SendToMiner(<<Reply(Head(toPool).id, error)>>)
    BY <1>5 DEF OnSubmit, NoError, JobNotFound, Unauthorized
  <2> QED
    BY <1>a, <1>b, <2>2, <2>3
<1>6. CASE AnswerShare
  <2>1. PICK error \in {NoError, OtherError} : SendToMiner(<<Reply(checking, error)>>)
    BY <1>6 DEF AnswerShare
  <2>2. Reply(checking, error) \in ToMiner
    BY <1>6, Messages DEF AnswerShare, IInv, PlacesOK
  <2> QED
    BY <1>b, <2>1, <2>2
<1>7. CASE \/ InstallJob \/ Subscribe \/ ReadCurrentJob \/ EndOfInput \/ SendSubscribe \/ TakeId
           \/ SendShare \/ Over
  <2>1. UNCHANGED toMiner
    BY <1>7 DEF InstallJob, Subscribe, ReadCurrentJob, EndOfInput, SendSubscribe, TakeId,
                SendShare, Over, vars, wire
  <2> QED
    BY <1>a, <2>1
<1>8. ~(Disconnected \/ Timeout \/ Break)
  BY DEF Disconnected, Timeout, Exit, Break
<1> QED
  BY <1>1, <1>2, <1>3, <1>4, <1>5, <1>6, <1>7, <1>8 DEF Next, Session, Main

\* The reply to the authorize request stays in the queue until the miner runs.
LEMMA AuthorizationStays ==
  ASSUME IInv, Next, connected, connected', authorized, miner # "running",
         Authorization \in Among(toMiner)
  PROVE  miner' = "running" \/ Authorization \in Among(toMiner')
<1>0. miner = "authorizing"
  <2>1. miner \notin {"connected", "subscribing", "exited"}
    BY DEF IInv, AuthorizeOK
  <2> QED
    BY <2>1 DEF IInv, TypeOK
<1>1. CASE Discard
  <2>1. Head(toMiner) # Authorization
    BY <1>0, <1>1, Messages
    DEF Discard, Authorization, Awaited, IsResponse, Reply, IsRequest
  <2>2. toMiner # <<>> /\ toMiner' = Tail(toMiner)
    BY <1>1 DEF Discard
  <2> QED
    BY <2>1, <2>2, AmongFacts DEF IInv, TypeOK
<1>2. CASE GetReply
  BY <1>0, <1>2 DEF GetReply
<1>3. CASE ~Discard /\ ~GetReply
  <2>1. miner # "running" /\ ~Receive
    BY <1>0 DEF Receive
  <2>2. PICK added \in Seq(ToMiner) : toMiner' = toMiner \o added
    BY <1>3, <2>1, QueueGrows
  <2>3. PICK k \in 1 .. Len(toMiner) : toMiner[k] = Authorization
    BY DEF Among
  <2>4. k \in 1 .. Len(toMiner') /\ toMiner'[k] = Authorization
    BY <2>2, <2>3, QueueFacts DEF IInv, TypeOK
  <2> QED
    BY <2>4 DEF Among
<1> QED
  BY <1>1, <1>2, <1>3

LEMMA NextAuthorizeOK == IInv /\ Next => AuthorizeOK'
<1> SUFFICES ASSUME IInv, Next, connected' PROVE AuthorizeOK'
  BY DEF AuthorizeOK
<1>0. connected
  BY StaysBroken
<1>a. /\ miner # "exited"
      /\ miner \in {"connected", "subscribing"}
           => ~authorized /\ \A m \in Among(toPool) : m.method # "authorize"
      /\ IF authorized
         THEN miner = "running" \/ Authorization \in Among(toMiner)
         ELSE miner # "running" /\ \A m \in Among(toMiner) : m.id # AuthorizeId
  BY <1>0 DEF IInv, AuthorizeOK
\* How the miner's place and the authorization change.
<1>b. /\ miner' # "exited"
      /\ UNCHANGED miner \/ (SendSubscribe /\ miner' = "subscribing")
                         \/ (GetReply /\ miner' \in {"authorizing", "running"})
      /\ UNCHANGED authorized \/ (OnAuthorize /\ authorized' = TRUE)
  BY <1>0, <1>a
  DEF Next, InstallJob, Broadcast, Session, OnSubscribe, Subscribe, OnAuthorize,
      ReadCurrentJob, SendCurrentWork, OnSubmit, AnswerShare, EndOfInput, Main,
      SendSubscribe, Discard, GetReply, Disconnected, Receive, Timeout, Exit, TakeId,
      SendShare, Break, Over, vars, session, mining
<1>1. ASSUME miner' \in {"connected", "subscribing"}
      PROVE  ~authorized' /\ \A m \in Among(toPool') : m.method # "authorize"
  <2>1. miner \in {"connected", "subscribing"}
    BY <1>1, <1>b DEF SendSubscribe
  <2>2. ~OnAuthorize
    <3>1. ~Request("authorize")
      BY <1>a, <2>1, ReadFromPool DEF IInv
    <3> QED
      BY <3>1 DEF OnAuthorize
  <2>3. ~GetReply
    <3>1. CASE GetReply
      BY <1>1, <3>1 DEF GetReply
    <3> QED
      BY <3>1
  <2>4. ASSUME NEW m \in Among(toPool') PROVE m.method # "authorize"
    <3>1. \/ m \in Among(toPool)
          \/ m = Call(SubscribeId, "subscribe", NoJob)
          \/ m \in sending
      BY <2>3, <2>4, NewRequests DEF IInv
    <3> QED
      BY <1>a, <2>1, <3>1 DEF IInv, WireOK, Call
  <2> QED
    BY <1>a, <1>b, <2>1, <2>2, <2>4
<1>2. ASSUME authorized' PROVE miner' = "running" \/ Authorization \in Among(toMiner')
  <2>1. CASE OnAuthorize
    <3>1. Request("authorize") /\ SendToMiner(<<Reply(Head(toPool).id, NoError)>>)
      BY <2>1 DEF OnAuthorize
    <3>2. Head(toPool).id = AuthorizeId /\ Reply(Head(toPool).id, NoError) \in ToMiner
      BY <3>1, Requested DEF IInv
    <3> QED
      BY <1>0, <3>1, <3>2, SentToMiner DEF IInv, Authorization
  <2>2. CASE ~OnAuthorize
    <3>1. authorized
      BY <1>2, <1>b, <2>2
    <3>2. CASE miner = "running"
      BY <1>b, <3>2 DEF SendSubscribe, GetReply, Waiting
    <3>3. CASE miner # "running"
      BY <1>0, <1>a, <3>1, <3>3, AuthorizationStays
    <3> QED
      BY <3>2, <3>3
  <2> QED
    BY <2>1, <2>2
<1>3. ASSUME ~authorized'
      PROVE  miner' # "running" /\ \A m \in Among(toMiner') : m.id # AuthorizeId
  <2>0. ~OnAuthorize
    BY <1>3 DEF OnAuthorize
  <2>1. ~authorized /\ ~OnAuthorize
    BY <1>3, <1>b, <2>0
  <2>2. \A m \in Among(toMiner') : m.id # AuthorizeId
    BY <1>0, <1>a, <2>1, NewMessages
  <2>3. CASE GetReply
    <3>1. Head(toMiner) \in Among(toMiner) /\ Head(toMiner).id = Awaited
      BY <2>3, AmongFacts DEF GetReply, IInv, TypeOK
    <3>2. miner = "subscribing"
      BY <1>a, <2>1, <3>1 DEF Awaited
    <3> QED
      BY <2>2, <2>3, <3>2 DEF GetReply
  <2>4. CASE ~GetReply
    BY <1>a, <1>b, <2>1, <2>2, <2>4 DEF SendSubscribe
  <2> QED
    BY <2>3, <2>4
<1> QED
  BY <1>b, <1>1, <1>2, <1>3 DEF AuthorizeOK

-----------------------------------------------------------------------------
\* A job on its way stays on its way while others are put behind it.
LEMMA StaysBehind ==
  ASSUME IInv, OnItsWay, NEW added \in Seq(ToMiner), toMiner' = toMiner \o added,
         newest' = newest, miner' = miner
  PROVE  OnItsWay'
<1>1. PICK i \in 1 .. Len(toMiner) :
        /\ toMiner[i] = NewWork
        /\ miner = "running" \/ \E k \in 1 .. i - 1 : toMiner[k] = Authorization
  BY DEF OnItsWay
<1>2. /\ Len(toMiner) \in Nat /\ Len(toMiner') >= Len(toMiner) /\ Len(toMiner') \in Nat
      /\ \A k \in 1 .. Len(toMiner) : toMiner'[k] = toMiner[k]
  BY QueueFacts DEF IInv, TypeOK
<1>3. i \in 1 .. Len(toMiner') /\ toMiner'[i] = NewWork'
  BY <1>1, <1>2 DEF NewWork
<1>4. ASSUME NEW k \in 1 .. i - 1, toMiner[k] = Authorization PROVE toMiner'[k] = Authorization
  BY <1>2, <1>4
<1> QED
  BY <1>1, <1>3, <1>4 DEF OnItsWay

\* The newest job is put behind the reply that the miner waits for.
LEMMA PutBehind ==
  ASSUME IInv, miner = "running" \/ Authorization \in Among(toMiner),
         NEW added \in Seq(ToMiner), NEW last \in 1 .. Len(added), added[last] = NewWork,
         toMiner' = toMiner \o added, newest' = newest, miner' = miner
  PROVE  OnItsWay'
<1> DEFINE i == Len(toMiner) + last
<1>1. /\ Len(toMiner) \in Nat /\ Len(toMiner') = Len(toMiner) + Len(added) /\ Len(added) \in Nat
      /\ \A k \in 1 .. Len(toMiner) : toMiner'[k] = toMiner[k]
      /\ toMiner'[i] = NewWork
  BY QueueFacts DEF IInv, TypeOK
<1>2. i \in 1 .. Len(toMiner') /\ 1 .. Len(toMiner) \subseteq 1 .. i - 1
  BY <1>1
<1>3. miner' = "running" \/ \E k \in 1 .. i - 1 : toMiner'[k] = Authorization
  BY <1>1, <1>2 DEF Among
<1>4. toMiner'[i] = NewWork'
  BY <1>1 DEF NewWork
<1> HIDE DEF i
<1> QED
  BY <1>2, <1>3, <1>4 DEF OnItsWay

\* A message in front of the job is taken.
LEMMA TakenInFront ==
  ASSUME IInv, OnItsWay, toMiner # <<>>, toMiner' = Tail(toMiner), newest' = newest,
         Head(toMiner) # NewWork \/ miner # "running",
         miner' = "running" \/ (miner' = miner /\ Head(toMiner) # Authorization)
  PROVE  OnItsWay'
<1>1. PICK i \in 1 .. Len(toMiner) :
        /\ toMiner[i] = NewWork
        /\ miner = "running" \/ \E k \in 1 .. i - 1 : toMiner[k] = Authorization
  BY DEF OnItsWay
<1>2. /\ Len(toMiner) \in Nat /\ Len(toMiner') = Len(toMiner) - 1 /\ Head(toMiner) = toMiner[1]
      /\ \A k \in 1 .. Len(toMiner) - 1 : toMiner'[k] = toMiner[k + 1]
  BY QueueFacts DEF IInv, TypeOK
<1>3. i # 1
  BY <1>1, <1>2
<1>4. i - 1 \in 1 .. Len(toMiner') /\ toMiner'[i - 1] = NewWork'
  BY <1>1, <1>2, <1>3 DEF NewWork
<1>5. miner' = "running" \/ \E k \in 1 .. (i - 1) - 1 : toMiner'[k] = Authorization
  <2>1. CASE miner' = "running"
    BY <2>1
  <2>2. CASE miner' # "running"
    <3>1. PICK k \in 1 .. i - 1 : toMiner[k] = Authorization
      BY <1>1, <2>2
    <3>2. k # 1
      BY <1>2, <2>2, <3>1
    <3>3. k - 1 \in 1 .. (i - 1) - 1 /\ toMiner'[k - 1] = Authorization
      BY <1>1, <1>2, <3>1, <3>2
    <3> QED
      BY <3>3
  <2> QED
    BY <2>1, <2>2
<1> QED
  BY <1>4, <1>5 DEF OnItsWay

LEMMA NextNewestOK == IInv /\ Next => NewestOK'
<1> SUFFICES ASSUME IInv, Next, connected', authorized', newest' # NoJob
             PROVE  \/ newest' # announced'
                    \/ newest' \in received'
                    \/ reader' = "current"
                    \/ reader' = "notify" /\ current' = newest'
                    \/ OnItsWay'
  BY DEF NewestOK
<1>0. connected
  BY StaysBroken
<1>1. CASE OnAuthorize
  BY <1>1 DEF OnAuthorize
<1>2. CASE InstallJob
  <2>1. newest \in Nat /\ announced = newest /\ newest' = newest + 1 /\ announced' = announced
    BY <1>2 DEF InstallJob, IInv, TypeOK
  <2> QED
    BY <2>1
<1>3. CASE ~OnAuthorize /\ ~InstallJob
  <2>1. authorized /\ UNCHANGED newest /\ received \subseteq received'
    BY <1>0, <1>3
    DEF Next, Broadcast, Session, OnSubscribe, Subscribe, ReadCurrentJob, SendCurrentWork,
        OnSubmit, AnswerShare, EndOfInput, Main, SendSubscribe, Discard, GetReply,
        Disconnected, Receive, Timeout, Exit, TakeId, SendShare, Break, Over, vars, pool,
        session, mining
  <2>2. \/ newest # announced
        \/ newest \in received
        \/ reader = "current"
        \/ reader = "notify" /\ current = newest
        \/ OnItsWay
    BY <1>0, <2>1 DEF IInv, NewestOK
  <2>3. /\ miner = "running" \/ Authorization \in Among(toMiner)
        /\ miner \in {"authorizing", "running"}
    BY <1>0, <2>1 DEF IInv, AuthorizeOK, TypeOK
  <2>4. subscribed
    BY <1>0, <2>1 DEF IInv, SubscribeOK, Subscribing
  <2>5. CASE Broadcast
    <3>1. toMiner' = toMiner \o <<NewWork>> /\ newest \in Jobs
      BY <1>0, <2>4, <2>5, MinerSessionAssumption
      DEF Broadcast, SendToMiner, NewWork, IInv, TypeOK, PlacesOK, Jobs
    <3>2. <<NewWork>> \in Seq(ToMiner) /\ 1 \in 1 .. Len(<<NewWork>>) /\ <<NewWork>>[1] = NewWork
      BY <3>1, Messages DEF NewWork
    <3>3. miner' = miner
      BY <2>5 DEF Broadcast, mining
    <3> QED
      BY <2>1, <2>3, <3>1, <3>2, <3>3, PutBehind
  <2>6. CASE ReadCurrentJob
    <3>1. reader = "current" /\ newest # NoJob
      BY <2>1, <2>6 DEF ReadCurrentJob
    <3> QED
      BY <2>1, <2>6, <3>1 DEF ReadCurrentJob
  <2>7. CASE SendCurrentWork
    <3> DEFINE work == <<Notification("set_difficulty", NoJob), Notification("notify", current)>>
    <3>1. work \in Seq(ToMiner) /\ 2 \in 1 .. Len(work) /\ work[2] = Notification("notify", current)
      BY Messages DEF IInv, TypeOK
    <3>2. toMiner' = toMiner \o work /\ reader = "notify" /\ miner' = miner /\ announced' = announced
      BY <1>0, <2>7 DEF SendCurrentWork, SendToMiner, pool, mining
    <3> HIDE DEF work
    <3>3. CASE current = newest
      BY <2>1, <2>3, <3>1, <3>2, <3>3, PutBehind DEF NewWork
    <3>4. CASE OnItsWay
      BY <2>1, <3>1, <3>2, <3>4, StaysBehind
    <3> QED
      BY <2>1, <2>2, <3>2, <3>3, <3>4
  <2>8. CASE Discard \/ GetReply
    <3>1. /\ toMiner # <<>> /\ toMiner' = Tail(toMiner) /\ miner = "authorizing"
          /\ UNCHANGED <<announced, reader, current>>
      BY <2>3, <2>8 DEF Discard, GetReply, Waiting, pool, session
    <3>2. miner' = "running" \/ (miner' = miner /\ Head(toMiner) # Authorization)
      <4>1. CASE GetReply
        BY <3>1, <4>1 DEF GetReply
      <4>2. CASE Discard
        BY <3>1, <4>2, Messages DEF Discard, Authorization, Awaited, IsResponse, Reply, IsRequest, mining
      <4> QED
        BY <2>8, <4>1, <4>2
    <3>3. OnItsWay => OnItsWay'
      BY <2>1, <3>1, <3>2, TakenInFront
    <3> QED
      BY <2>1, <2>2, <3>1, <3>3
  <2>9. CASE Receive
    <3>1. /\ toMiner # <<>> /\ toMiner' = Tail(toMiner) /\ miner = "running" /\ miner' = miner
          /\ UNCHANGED <<announced, reader, current>>
      BY <2>9 DEF Receive, pool, session
    <3>2. CASE Head(toMiner) = NewWork
      <4>1. newest \in Jobs
        BY <2>1, MinerSessionAssumption DEF IInv, TypeOK, Jobs, NoJob
      <4>2. IsRequest(NewWork) /\ NewWork.method = "notify" /\ NewWork.job = newest
        BY <4>1, Messages DEF NewWork
      <4> QED
        BY <2>1, <2>9, <3>2, <4>2 DEF Receive
    <3>3. CASE Head(toMiner) # NewWork
      <4>1. OnItsWay => OnItsWay'
        BY <2>1, <3>1, <3>3, TakenInFront
      <4> QED
        BY <2>1, <2>2, <3>1, <4>1
    <3> QED
      BY <3>2, <3>3
  <2>10. CASE \/ OnSubscribe \/ Subscribe \/ OnSubmit \/ AnswerShare \/ EndOfInput
             \/ SendSubscribe \/ TakeId \/ SendShare \/ Over
    <3>1. /\ UNCHANGED <<announced, current, miner>> \/ (UNCHANGED <<announced, miner>> /\ reader # "notify")
          /\ UNCHANGED reader \/ reader \notin {"current", "notify"}
      BY <2>3, <2>10
      DEF OnSubscribe, Subscribe, OnSubmit, AnswerShare, EndOfInput, SendSubscribe, TakeId,
          SendShare, Over, Request, vars, pool, session, mining
    <3>2. CASE Discard \/ GetReply \/ Receive
      BY <2>8, <2>9, <3>2
    <3>3. CASE ~(Discard \/ GetReply \/ Receive)
      <4>1. OnItsWay => OnItsWay'
        BY <1>0, <2>1, <3>1, <3>3, QueueGrows, StaysBehind
      <4> QED
        BY <2>1, <2>2, <3>1, <4>1
    <3> QED
      BY <3>2, <3>3
  <2>11. ~(Disconnected \/ Timeout \/ Break)
    BY DEF Disconnected, Timeout, Exit, Break
  <2> QED
    BY <1>3, <2>5, <2>6, <2>7, <2>8, <2>9, <2>10, <2>11 DEF Next, Session, Main
<1> QED
  BY <1>1, <1>2, <1>3

-----------------------------------------------------------------------------
LEMMA NextIInv == IInv /\ [Next]_vars => IInv'
<1> SUFFICES ASSUME IInv, [Next]_vars PROVE IInv'
  OBVIOUS
<1>1. CASE Next
  <2>1. TypeOK' /\ PlacesOK'
    <3>1. CASE InstallJob \/ Broadcast
      BY <3>1, PollerKeepsType DEF IInv
    <3>2. CASE Session
      BY <3>2, SessionKeepsType DEF IInv
    <3>3. CASE Main \/ Timeout \/ TakeId \/ SendShare \/ Break
      BY <3>3, MinerKeepsType DEF IInv
    <3>4. CASE Over
      BY <3>4 DEF Over, vars, pool, session, wire, mining, IInv, TypeOK, PlacesOK
    <3> QED
      BY <1>1, <3>1, <3>2, <3>3, <3>4 DEF Next
  <2>2. WireOK'
    BY <1>1, NextWireOK DEF IInv
  <2> QED
    BY <1>1, <2>1, <2>2, NextSubscribeOK, NextAuthorizeOK, NextNewestOK DEF IInv
<1>2. CASE UNCHANGED vars
  BY <1>2
  DEF vars, pool, session, wire, mining, IInv, TypeOK, PlacesOK, WireOK, SubscribeOK,
      Subscribing, AuthorizeOK, NewestOK, OnItsWay, NewWork
<1> QED
  BY <1>1, <1>2

THEOREM IInvCorrect == Spec => []IInv
<1> QED
  BY InitIInv, NextIInv, PTL DEF Spec

\* Both ends keep to their places, and the queues hold the messages of their direction,
\* for any number of jobs and shares.
THEOREM TypeCorrect == Spec => []TypeOK
<1>1. IInv => TypeOK
  BY DEF IInv
<1> QED
  BY <1>1, IInvCorrect, PTL

\* No job is lost by what the handshake skips (mac-miner/main.rs:281-301), by the poller
\* that broadcasts while a session joins (state.rs), or by the session that read a job
\* before the newest came (session.rs:239-258).
THEOREM NewestJobIsReceivedCorrect == Spec => []NewestJobIsReceived
<1>1. IInv => NewestJobIsReceived
  <2> SUFFICES ASSUME IInv, connected, miner = "running", reader = "read", toMiner = <<>>,
                      newest = announced, newest # NoJob
               PROVE  newest \in received
    BY DEF NewestJobIsReceived
  <2>1. authorized
    BY DEF IInv, AuthorizeOK
  <2>2. ~OnItsWay
    BY DEF OnItsWay
  <2> QED
    BY <2>1, <2>2 DEF IInv, NewestOK
<1> QED
  BY <1>1, IInvCorrect, PTL

-----------------------------------------------------------------------------
(* Every share is in one place. A share moves from the ones being sent to  *)
(* the pool's queue, to the reader, to the miner's queue and is answered,  *)
(* and no id is used twice.                                                *)

Waits(id) == {share \in sending : share.id = id}
Occurrences(queue, id) == {n \in DOMAIN queue : queue[n].id = id}
Checked(id) == {checking} \cap {id}
Verdicts(id) == answered \cap {id}

Single(S) == \E x \in S : S = {x}

\* One of the five is a single place, and the others are empty.
OneOf(A, B, C, D, E) ==
  \/ Single(A) /\ B = {} /\ C = {} /\ D = {} /\ E = {}
  \/ A = {} /\ Single(B) /\ C = {} /\ D = {} /\ E = {}
  \/ A = {} /\ B = {} /\ Single(C) /\ D = {} /\ E = {}
  \/ A = {} /\ B = {} /\ C = {} /\ Single(D) /\ E = {}
  \/ A = {} /\ B = {} /\ C = {} /\ D = {} /\ Single(E)

Nowhere(id) ==
  /\ Waits(id) = {} /\ Occurrences(toPool, id) = {} /\ Checked(id) = {}
  /\ Occurrences(toMiner, id) = {} /\ Verdicts(id) = {}

InOnePlace(id) ==
  OneOf(Waits(id), Occurrences(toPool, id), Checked(id), Occurrences(toMiner, id), Verdicts(id))

Taken(id) == id < FirstSubmitId + taken

\* Before the miner runs there is no share, and no verdict to be discarded.
SharesOK ==
  /\ reader # "check" => checking = NoId
  /\ connected =>
       /\ miner # "running" => taken = 0
       /\ \A id \in SubmitIds : IF Taken(id) THEN InOnePlace(id) ELSE Nowhere(id)

\* What is put behind a queue, and what is taken from its head.
LEMMA OccurrencesBehind ==
  ASSUME NEW S, NEW queue \in Seq(S), NEW m \in S, NEW id
  PROVE  /\ m.id # id => Occurrences(queue \o <<m>>, id) = Occurrences(queue, id)
         /\ m.id = id => Occurrences(queue \o <<m>>, id) = Occurrences(queue, id) \cup {Len(queue) + 1}
<1>1. /\ Len(queue) \in Nat /\ DOMAIN queue = 1 .. Len(queue)
      /\ DOMAIN (queue \o <<m>>) = 1 .. Len(queue) + 1
      /\ \A i \in 1 .. Len(queue) : (queue \o <<m>>)[i] = queue[i]
      /\ (queue \o <<m>>)[Len(queue) + 1] = m
  OBVIOUS
<1>2. \A i : i \in 1 .. Len(queue) + 1 <=> i \in 1 .. Len(queue) \/ i = Len(queue) + 1
  BY <1>1
<1> QED
  BY <1>1, <1>2 DEF Occurrences

\* As many, as far as none and one go.
Alike(S, T) == (S = {} => T = {}) /\ (Single(S) => Single(T))

LEMMA OccurrencesBefore ==
  ASSUME NEW S, NEW queue \in Seq(S), queue # <<>>, NEW id
  PROVE  /\ Head(queue).id # id => Alike(Occurrences(queue, id), Occurrences(Tail(queue), id))
         /\ Head(queue).id = id =>
              /\ Occurrences(queue, id) # {}
              /\ Single(Occurrences(queue, id)) => Occurrences(Tail(queue), id) = {}
<1>1. /\ Len(queue) \in Nat \ {0} /\ DOMAIN queue = 1 .. Len(queue)
      /\ DOMAIN Tail(queue) = 1 .. Len(queue) - 1
      /\ \A i \in 1 .. Len(queue) - 1 : Tail(queue)[i] = queue[i + 1]
      /\ Head(queue) = queue[1]
  BY QueueFacts
<1>2. /\ \A i \in 1 .. Len(queue) - 1 : i + 1 \in 1 .. Len(queue) /\ i + 1 # 1
      /\ \A i \in 1 .. Len(queue) : i = 1 \/ (i - 1 \in 1 .. Len(queue) - 1 /\ (i - 1) + 1 = i)
      /\ 1 \in 1 .. Len(queue)
  BY <1>1
<1>3. \A i \in Occurrences(Tail(queue), id) :
        i \in 1 .. Len(queue) - 1 /\ i + 1 \in Occurrences(queue, id) /\ i + 1 # 1
  BY <1>1, <1>2 DEF Occurrences
<1>4. \A i \in Occurrences(queue, id) : i = 1 \/ (i - 1 \in Occurrences(Tail(queue), id) /\ i \in Nat)
  BY <1>1, <1>2 DEF Occurrences
<1>5. ASSUME Head(queue).id = id
      PROVE  /\ Occurrences(queue, id) # {}
             /\ Single(Occurrences(queue, id)) => Occurrences(Tail(queue), id) = {}
  <2>1. 1 \in Occurrences(queue, id)
    BY <1>1, <1>2, <1>5 DEF Occurrences
  <2> QED
    BY <2>1, <1>3 DEF Single
<1>6. ASSUME Head(queue).id # id
      PROVE  Alike(Occurrences(queue, id), Occurrences(Tail(queue), id))
  <2>1. 1 \notin Occurrences(queue, id)
    BY <1>1, <1>6 DEF Occurrences
  <2>2. Occurrences(queue, id) = {} => Occurrences(Tail(queue), id) = {}
    BY <1>3
  <2>3. ASSUME NEW x \in Occurrences(queue, id), Occurrences(queue, id) = {x}
        PROVE  Single(Occurrences(Tail(queue), id))
    <3>1. x - 1 \in Occurrences(Tail(queue), id) /\ x \in Nat
      BY <1>4, <2>1
    <3>2. ASSUME NEW i \in Occurrences(Tail(queue), id) PROVE i = x - 1
      <4>1. i + 1 = x /\ i \in 1 .. Len(queue) - 1
        BY <1>3, <2>3
      <4> QED
        BY <4>1, <3>1
    <3> QED
      BY <3>1, <3>2 DEF Single
  <2> QED
    BY <2>2, <2>3 DEF Alike, Single
<1> QED
  BY <1>5, <1>6

LEMMA KeepsPlace ==
  ASSUME NEW id, Alike(Waits(id), Waits(id)'),
         Alike(Occurrences(toPool, id), Occurrences(toPool', id)),
         Alike(Checked(id), Checked(id)'),
         Alike(Occurrences(toMiner, id), Occurrences(toMiner', id)),
         Alike(Verdicts(id), Verdicts(id)')
  PROVE  (InOnePlace(id) => InOnePlace(id)') /\ (Nowhere(id) => Nowhere(id)')
<1>1. InOnePlace(id)' <=> OneOf(Waits(id)', Occurrences(toPool', id), Checked(id)',
                                Occurrences(toMiner', id), Verdicts(id)')
  BY DEF InOnePlace
<1>2. Nowhere(id)' <=> /\ Waits(id)' = {} /\ Occurrences(toPool', id) = {} /\ Checked(id)' = {}
                       /\ Occurrences(toMiner', id) = {} /\ Verdicts(id)' = {}
  BY DEF Nowhere
<1> QED
  BY <1>1, <1>2, Zenon DEF InOnePlace, Nowhere, OneOf, Alike

\* A message with another id, put into a queue.
LEMMA Sent ==
  ASSUME TypeOK, connected, NEW id
  PROVE  /\ \A m \in ToPool : SendToPool(<<m>>) =>
              IF m.id = id
              THEN Occurrences(toPool', id) = Occurrences(toPool, id) \cup {Len(toPool) + 1}
              ELSE Occurrences(toPool', id) = Occurrences(toPool, id)
         /\ \A m \in ToMiner : SendToMiner(<<m>>) =>
              IF m.id = id
              THEN Occurrences(toMiner', id) = Occurrences(toMiner, id) \cup {Len(toMiner) + 1}
              ELSE Occurrences(toMiner', id) = Occurrences(toMiner, id)
<1>1. toPool \in Seq(ToPool) /\ toMiner \in Seq(ToMiner)
  BY DEF TypeOK
<1>2. ASSUME NEW m \in ToPool, SendToPool(<<m>>)
      PROVE  IF m.id = id
             THEN Occurrences(toPool', id) = Occurrences(toPool, id) \cup {Len(toPool) + 1}
             ELSE Occurrences(toPool', id) = Occurrences(toPool, id)
  <2>1. toPool' = toPool \o <<m>>
    BY <1>2 DEF SendToPool
  <2>2. /\ m.id # id => Occurrences(toPool \o <<m>>, id) = Occurrences(toPool, id)
        /\ m.id = id => Occurrences(toPool \o <<m>>, id) = Occurrences(toPool, id) \cup {Len(toPool) + 1}
    BY <1>1, OccurrencesBehind
  <2> QED
    BY <2>1, <2>2
<1>3. ASSUME NEW m \in ToMiner, SendToMiner(<<m>>)
      PROVE  IF m.id = id
             THEN Occurrences(toMiner', id) = Occurrences(toMiner, id) \cup {Len(toMiner) + 1}
             ELSE Occurrences(toMiner', id) = Occurrences(toMiner, id)
  <2>1. toMiner' = toMiner \o <<m>>
    BY <1>3 DEF SendToMiner
  <2>2. /\ m.id # id => Occurrences(toMiner \o <<m>>, id) = Occurrences(toMiner, id)
        /\ m.id = id => Occurrences(toMiner \o <<m>>, id) = Occurrences(toMiner, id) \cup {Len(toMiner) + 1}
    BY <1>1, OccurrencesBehind
  <2> QED
    BY <2>1, <2>2
<1> QED
  BY <1>2, <1>3

LEMMA AlikeItself == \A S : Alike(S, S)
BY DEF Alike

LEMMA OneThenOther ==
  ASSUME NEW S, NEW queue \in Seq(S), NEW m \in S, NEW n \in S
  PROVE  queue \o <<m, n>> = (queue \o <<m>>) \o <<n>>
<1> DEFINE half == queue \o <<m>>
           one == queue \o <<m, n>>
           other == half \o <<n>>
<1>1. half \in Seq(S) /\ Len(half) = Len(queue) + 1 /\ Len(queue) \in Nat
      /\ half[Len(queue) + 1] = m /\ \A i \in 1 .. Len(queue) : half[i] = queue[i]
  OBVIOUS
<1>2. one \in Seq(S) /\ Len(one) = Len(queue) + 2 /\ one[Len(queue) + 1] = m
      /\ one[Len(queue) + 2] = n /\ \A i \in 1 .. Len(queue) : one[i] = queue[i]
  OBVIOUS
<1>3. \A i \in 1 .. Len(queue) + 2 : i \in 1 .. Len(queue) \/ i = Len(queue) + 1 \/ i = Len(queue) + 2
  BY <1>1
<1> HIDE DEF half
<1>4. other \in Seq(S) /\ Len(other) = Len(half) + 1 /\ other[Len(half) + 1] = n
      /\ \A i \in 1 .. Len(half) : other[i] = half[i]
  BY <1>1
<1> HIDE DEF one, other
<1>5. Len(other) = Len(one) /\ \A i \in 1 .. Len(one) : other[i] = one[i]
  BY <1>1, <1>2, <1>3, <1>4
<1> SUFFICES one = other
  BY DEF one, other, half
<1> QED
  BY <1>2, <1>4, <1>5

LEMMA OccurrencesBehindTwo ==
  ASSUME NEW S, NEW queue \in Seq(S), NEW m \in S, NEW n \in S, NEW id, m.id # id, n.id # id
  PROVE  Occurrences(queue \o <<m, n>>, id) = Occurrences(queue, id)
<1> DEFINE half == queue \o <<m>>
<1>1. half \in Seq(S)
  OBVIOUS
<1>2. Occurrences(half, id) = Occurrences(queue, id)
  BY OccurrencesBehind
<1>3. queue \o <<m, n>> = half \o <<n>>
  BY OneThenOther
<1> HIDE DEF half
<1>4. Occurrences(half \o <<n>>, id) = Occurrences(half, id)
  BY <1>1, OccurrencesBehind
<1> QED
  BY <1>2, <1>3, <1>4

\* The steps that have nothing to do with a share.
LEMMA Elsewhere ==
  ASSUME IInv, connected, NEW id \in SubmitIds, miner # "running" => Nowhere(id),
         \/ InstallJob \/ Broadcast \/ OnSubscribe \/ Subscribe \/ OnAuthorize
         \/ ReadCurrentJob \/ SendCurrentWork \/ SendSubscribe \/ Discard \/ GetReply \/ Over
  PROVE  /\ UNCHANGED taken
         /\ (InOnePlace(id) => InOnePlace(id)') /\ (Nowhere(id) => Nowhere(id)')
<1>0. UNCHANGED <<taken, sending, checking, answered>>
  BY DEF InstallJob, Broadcast, OnSubscribe, Subscribe, OnAuthorize, ReadCurrentJob,
         SendCurrentWork, SendSubscribe, Discard, GetReply, Over, vars, session, mining
<1>a. id # NoId /\ id # SubscribeId /\ id # AuthorizeId
  BY Ids
<1>b. TypeOK /\ WireOK /\ toPool \in Seq(ToPool) /\ toMiner \in Seq(ToMiner)
  BY DEF IInv, TypeOK
<1>1. Alike(Occurrences(toPool, id), Occurrences(toPool', id))
  <2>1. CASE OnSubscribe \/ OnAuthorize
    <3>1. PICK method \in {"subscribe", "authorize"} : Request(method)
      BY <2>1 DEF OnSubscribe, OnAuthorize
    <3>2. Head(toPool).id # id
      BY <1>a, <1>b, <3>1, Requested
    <3>3. toPool # <<>> /\ toPool' = Tail(toPool)
      BY <3>1 DEF Request
    <3> QED
      BY <1>b, <3>2, <3>3, OccurrencesBefore
  <2>2. CASE SendSubscribe \/ GetReply
    <3>1. /\ Call(SubscribeId, "subscribe", NoJob) \in ToPool
          /\ Call(SubscribeId, "subscribe", NoJob).id = SubscribeId
          /\ Call(AuthorizeId, "authorize", NoJob) \in ToPool
          /\ Call(AuthorizeId, "authorize", NoJob).id = AuthorizeId
      <4>1. Call(SubscribeId, "subscribe", NoJob) \in ToPool
        BY Messages
      <4>2. Call(AuthorizeId, "authorize", NoJob) \in ToPool
        BY Messages
      <4> QED
        BY <4>1, <4>2 DEF Call
    <3>2. \/ SendToPool(<<Call(SubscribeId, "subscribe", NoJob)>>)
          \/ SendToPool(<<Call(AuthorizeId, "authorize", NoJob)>>)
          \/ UNCHANGED toPool
      BY <2>2 DEF SendSubscribe, GetReply
    <3>3. Occurrences(toPool', id) = Occurrences(toPool, id)
      BY <1>a, <1>b, <3>1, <3>2, Sent
    <3> QED
      BY <3>3, AlikeItself
  <2>3. CASE ~(OnSubscribe \/ OnAuthorize \/ SendSubscribe \/ GetReply)
    <3>1. UNCHANGED toPool
      BY <2>3 DEF InstallJob, Broadcast, Subscribe, ReadCurrentJob, SendCurrentWork, Discard,
                  Over, vars, wire
    <3> QED
      BY <3>1, AlikeItself
  <2> QED
    BY <2>1, <2>2, <2>3
<1>2. Alike(Occurrences(toMiner, id), Occurrences(toMiner', id))
  <2>1. CASE Broadcast
    <3>1. newest \in Jobs
      BY <2>1, MinerSessionAssumption DEF Broadcast, IInv, TypeOK, PlacesOK, Jobs
    <3>2. NewWork \in ToMiner /\ NewWork.id = NoId
      BY <3>1, Messages DEF NewWork
    <3>3. UNCHANGED toMiner \/ SendToMiner(<<NewWork>>)
      BY <2>1 DEF Broadcast, NewWork
    <3>4. Occurrences(toMiner', id) = Occurrences(toMiner, id)
      BY <1>a, <1>b, <3>2, <3>3, Sent
    <3> QED
      BY <3>4, AlikeItself
  <2>2. CASE OnSubscribe \/ OnAuthorize
    <3>1. PICK method \in {"subscribe", "authorize"} : Request(method)
      BY <2>2 DEF OnSubscribe, OnAuthorize
    <3>2. Head(toPool).id # id /\ Reply(Head(toPool).id, NoError) \in ToMiner
      BY <1>a, <1>b, <3>1, Requested
    <3>3. SendToMiner(<<Reply(Head(toPool).id, NoError)>>)
      BY <2>2 DEF OnSubscribe, OnAuthorize
    <3>4. Reply(Head(toPool).id, NoError).id = Head(toPool).id
      BY DEF Reply
    <3>5. Occurrences(toMiner', id) = Occurrences(toMiner, id)
      BY <1>b, <3>2, <3>3, <3>4, Sent
    <3> QED
      BY <3>5, AlikeItself
  <2>3. CASE SendCurrentWork
    <3> DEFINE first == Notification("set_difficulty", NoJob)
               second == Notification("notify", current)
    <3>1. first \in ToMiner /\ second \in ToMiner /\ first.id = NoId /\ second.id = NoId
      BY Messages DEF IInv, TypeOK
    <3>2. toMiner' = toMiner \o <<first, second>>
      BY <2>3 DEF SendCurrentWork, SendToMiner
    <3> HIDE DEF first, second
    <3>3. Occurrences(toMiner', id) = Occurrences(toMiner, id)
      BY <1>a, <1>b, <3>1, <3>2, OccurrencesBehindTwo
    <3> QED
      BY <3>3, AlikeItself
  <2>4. CASE Discard \/ GetReply
    <3>1. toMiner # <<>> /\ toMiner' = Tail(toMiner) /\ miner # "running"
      BY <2>4 DEF Discard, GetReply, Waiting
    <3>2. Head(toMiner).id # id
      BY <1>b, <3>1, OccurrencesBefore DEF Nowhere
    <3> QED
      BY <1>b, <3>1, <3>2, OccurrencesBefore
  <2>5. CASE InstallJob \/ Subscribe \/ ReadCurrentJob \/ SendSubscribe \/ Over
    <3>1. UNCHANGED toMiner
      BY <2>5 DEF InstallJob, Subscribe, ReadCurrentJob, SendSubscribe, Over, vars, wire
    <3> QED
      BY <3>1, AlikeItself
  <2> QED
    BY <2>1, <2>2, <2>3, <2>4, <2>5
<1>3. Waits(id)' = Waits(id) /\ Checked(id)' = Checked(id) /\ Verdicts(id)' = Verdicts(id)
  BY <1>0 DEF Waits, Checked, Verdicts
<1>4. /\ Alike(Waits(id), Waits(id)') /\ Alike(Checked(id), Checked(id)')
      /\ Alike(Verdicts(id), Verdicts(id)')
  BY <1>3, AlikeItself
<1> QED
  BY <1>0, <1>1, <1>2, <1>4, KeepsPlace

\* What is in one place is nowhere else, and a share that is somewhere was taken.
LEMMA OnePlace ==
  ASSUME SharesOK, connected, NEW id \in SubmitIds, ~Nowhere(id)
  PROVE  /\ Taken(id) /\ InOnePlace(id)
         /\ Waits(id) # {} =>
              Single(Waits(id)) /\ Occurrences(toPool, id) = {} /\ Checked(id) = {}
                /\ Occurrences(toMiner, id) = {} /\ Verdicts(id) = {}
         /\ Occurrences(toPool, id) # {} =>
              Waits(id) = {} /\ Single(Occurrences(toPool, id)) /\ Checked(id) = {}
                /\ Occurrences(toMiner, id) = {} /\ Verdicts(id) = {}
         /\ Checked(id) # {} =>
              Waits(id) = {} /\ Occurrences(toPool, id) = {} /\ Single(Checked(id))
                /\ Occurrences(toMiner, id) = {} /\ Verdicts(id) = {}
         /\ Occurrences(toMiner, id) # {} =>
              Waits(id) = {} /\ Occurrences(toPool, id) = {} /\ Checked(id) = {}
                /\ Single(Occurrences(toMiner, id)) /\ Verdicts(id) = {}
<1>1. Taken(id) /\ InOnePlace(id)
  BY DEF SharesOK
<1> QED
  BY <1>1, Zenon DEF InOnePlace, OneOf

\* The states of a share after a step, one per place it can have come to.
LEMMA InPlaceNext ==
  ASSUME NEW id
  PROVE  /\ OneOf(Waits(id)', Occurrences(toPool', id), Checked(id)', Occurrences(toMiner', id),
                  Verdicts(id)') => InOnePlace(id)'
         /\ \A x : Single({x})
BY DEF InOnePlace, Single

LEMMA SubmitMoves ==
  ASSUME IInv, SharesOK, connected, OnSubmit, NEW id \in SubmitIds
  PROVE  (InOnePlace(id) => InOnePlace(id)') /\ (Nowhere(id) => Nowhere(id)')
<1> DEFINE read == Head(toPool).id
<1>a. TypeOK /\ WireOK /\ toPool \in Seq(ToPool) /\ toMiner \in Seq(ToMiner)
  BY DEF IInv, TypeOK
<1>b. Request("submit")
  BY DEF OnSubmit
<1>c. /\ toPool # <<>> /\ toPool' = Tail(toPool) /\ read \in SubmitIds
      /\ \A error \in {NoError, JobNotFound, Unauthorized} : Reply(read, error) \in ToMiner
  BY <1>a, <1>b, Requested DEF Request
<1>d. id # NoId
  BY Ids
<1>e. checking = NoId
  BY <1>b DEF Request, SharesOK
<1>f. UNCHANGED <<sending, answered>>
  BY DEF OnSubmit, mining
<1>g. Waits(id)' = Waits(id) /\ Verdicts(id)' = Verdicts(id) /\ Checked(id) = {}
  BY <1>d, <1>e, <1>f DEF Waits, Verdicts, Checked
<1>h. \/ /\ checking' = read
         /\ UNCHANGED toMiner
      \/ /\ \E error \in {JobNotFound, Unauthorized} : SendToMiner(<<Reply(read, error)>>)
         /\ UNCHANGED checking
  BY DEF OnSubmit, NoError, JobNotFound, Unauthorized
<1> HIDE DEF read
<1>i. \/ /\ Checked(id)' = {read} \cap {id}
         /\ Occurrences(toMiner', id) = Occurrences(toMiner, id)
      \/ /\ Checked(id)' = {}
         /\ Occurrences(toMiner', id) = IF read = id
                                        THEN Occurrences(toMiner, id) \cup {Len(toMiner) + 1}
                                        ELSE Occurrences(toMiner, id)
  <2>1. CASE checking' = read /\ UNCHANGED toMiner
    BY <2>1 DEF Checked
  <2>2. ASSUME NEW error \in {JobNotFound, Unauthorized}, SendToMiner(<<Reply(read, error)>>),
               UNCHANGED checking
        PROVE  /\ Checked(id)' = {}
               /\ Occurrences(toMiner', id) = IF read = id
                                              THEN Occurrences(toMiner, id) \cup {Len(toMiner) + 1}
                                              ELSE Occurrences(toMiner, id)
    <3>1. Checked(id)' = {}
      BY <1>g, <2>2 DEF Checked
    <3>2. Reply(read, error) \in ToMiner
      BY <1>c
    <3>3. Reply(read, error).id = read
      BY DEF Reply
    <3> QED
      BY <1>a, <2>2, <3>1, <3>2, <3>3, Sent
  <2> QED
    BY <1>h, <2>1, <2>2
<1>1. CASE read = id
  <2>1. Occurrences(toPool, id) # {}
    BY <1>a, <1>c, <1>1, OccurrencesBefore DEF read
  <2>2. /\ Waits(id) = {} /\ Single(Occurrences(toPool, id)) /\ Occurrences(toMiner, id) = {}
        /\ Verdicts(id) = {} /\ ~Nowhere(id)
    BY <2>1, OnePlace DEF Nowhere
  <2>3. Occurrences(toPool', id) = {}
    BY <1>a, <1>c, <1>1, <2>2, OccurrencesBefore DEF read
  <2>4. \/ Checked(id)' = {id} /\ Occurrences(toMiner', id) = {}
        \/ Checked(id)' = {} /\ Occurrences(toMiner', id) = {Len(toMiner) + 1}
    BY <1>i, <1>1, <2>2
  <2> QED
    BY <1>g, <2>2, <2>3, <2>4, InPlaceNext DEF OneOf
<1>2. CASE read # id
  <2>1. Alike(Occurrences(toPool, id), Occurrences(toPool', id))
    BY <1>a, <1>c, <1>2, OccurrencesBefore DEF read
  <2>2. Checked(id)' = {} /\ Occurrences(toMiner', id) = Occurrences(toMiner, id)
    BY <1>i, <1>2
  <2> QED
    BY <1>g, <2>1, <2>2, AlikeItself, KeepsPlace
<1> QED
  BY <1>1, <1>2

LEMMA AnswerMoves ==
  ASSUME IInv, SharesOK, connected, AnswerShare, NEW id \in SubmitIds
  PROVE  (InOnePlace(id) => InOnePlace(id)') /\ (Nowhere(id) => Nowhere(id)')
<1>a. TypeOK /\ toMiner \in Seq(ToMiner) /\ checking \in SubmitIds
  BY DEF IInv, TypeOK, PlacesOK, AnswerShare
<1>b. UNCHANGED <<sending, answered, toPool>> /\ checking' = NoId
  BY DEF AnswerShare, mining
<1>c. id # NoId
  BY Ids
<1>d. /\ Waits(id)' = Waits(id) /\ Verdicts(id)' = Verdicts(id) /\ Checked(id)' = {}
      /\ Occurrences(toPool', id) = Occurrences(toPool, id)
  BY <1>b, <1>c DEF Waits, Verdicts, Checked
<1>e. Occurrences(toMiner', id) = IF checking = id
                                  THEN Occurrences(toMiner, id) \cup {Len(toMiner) + 1}
                                  ELSE Occurrences(toMiner, id)
  <2>1. PICK error \in {NoError, OtherError} : SendToMiner(<<Reply(checking, error)>>)
    BY DEF AnswerShare
  <2>2. Reply(checking, error) \in ToMiner
    BY <1>a, Messages
  <2>3. Reply(checking, error).id = checking
    BY DEF Reply
  <2> QED
    BY <1>a, <2>1, <2>2, <2>3, Sent
<1>1. CASE checking = id
  <2>1. Checked(id) # {} /\ ~Nowhere(id)
    BY <1>1 DEF Checked, Nowhere
  <2>2. /\ Waits(id) = {} /\ Occurrences(toPool, id) = {} /\ Occurrences(toMiner, id) = {}
        /\ Verdicts(id) = {}
    BY <2>1, OnePlace
  <2>3. Occurrences(toMiner', id) = {Len(toMiner) + 1}
    BY <1>e, <1>1, <2>2
  <2> QED
    BY <1>d, <2>1, <2>2, <2>3, InPlaceNext DEF OneOf
<1>2. CASE checking # id
  <2>1. Checked(id) = {} /\ Occurrences(toMiner', id) = Occurrences(toMiner, id)
    BY <1>e, <1>2 DEF Checked
  <2> QED
    BY <1>d, <2>1, AlikeItself, KeepsPlace
<1> QED
  BY <1>1, <1>2

LEMMA ReceiveMoves ==
  ASSUME IInv, SharesOK, connected, Receive, NEW id \in SubmitIds
  PROVE  (InOnePlace(id) => InOnePlace(id)') /\ (Nowhere(id) => Nowhere(id)')
<1> DEFINE message == Head(toMiner)
<1>a. toMiner \in Seq(ToMiner) /\ toMiner # <<>> /\ toMiner' = Tail(toMiner)
  BY DEF IInv, TypeOK, Receive
<1>b. UNCHANGED <<sending, checking, toPool>>
  BY DEF Receive, session
<1>c. message \in ToMiner
  BY <1>a, QueueFacts
<1>d. id # NoId
  BY Ids
<1>e. message.id = id => IsResponse(message)
  BY <1>c, <1>d, ToMinerParts DEF IsResponse
<1>f. answered' = IF IsResponse(message) THEN answered \cup {message.id} ELSE answered
  BY DEF Receive
<1>g. /\ Waits(id)' = Waits(id) /\ Checked(id)' = Checked(id)
      /\ Occurrences(toPool', id) = Occurrences(toPool, id)
  BY <1>b DEF Waits, Checked
<1>1. CASE message.id = id
  <2>1. Occurrences(toMiner, id) # {}
    BY <1>a, <1>1, OccurrencesBefore
  <2>2. /\ Waits(id) = {} /\ Occurrences(toPool, id) = {} /\ Checked(id) = {}
        /\ Single(Occurrences(toMiner, id)) /\ Verdicts(id) = {} /\ ~Nowhere(id)
    BY <2>1, OnePlace DEF Nowhere
  <2>3. Occurrences(toMiner', id) = {}
    BY <1>a, <1>1, <2>2, OccurrencesBefore
  <2>4. Verdicts(id)' = {id}
    BY <1>e, <1>f, <1>1 DEF Verdicts
  <2> QED
    BY <1>g, <2>2, <2>3, <2>4, InPlaceNext DEF OneOf
<1>2. CASE message.id # id
  <2>1. Alike(Occurrences(toMiner, id), Occurrences(toMiner', id))
    BY <1>a, <1>2, OccurrencesBefore
  <2>2. Verdicts(id)' = Verdicts(id)
    BY <1>f, <1>2 DEF Verdicts
  <2> QED
    BY <1>g, <2>1, <2>2, AlikeItself, KeepsPlace
<1> QED
  BY <1>1, <1>2

LEMMA ShareMoves ==
  ASSUME IInv, SharesOK, connected, SendShare, NEW id \in SubmitIds
  PROVE  (InOnePlace(id) => InOnePlace(id)') /\ (Nowhere(id) => Nowhere(id)')
<1>1. PICK moved \in sending : SendToPool(<<moved>>) /\ sending' = sending \ {moved}
  BY DEF SendShare
<1>a. TypeOK /\ moved \in ToPool
  BY <1>1 DEF IInv, TypeOK
<1>b. UNCHANGED <<toMiner, answered, checking>>
  BY DEF SendShare, session
<1>c. /\ Checked(id)' = Checked(id) /\ Verdicts(id)' = Verdicts(id)
      /\ Occurrences(toMiner', id) = Occurrences(toMiner, id)
  BY <1>b DEF Checked, Verdicts
<1>2. CASE moved.id = id
  <2>1. moved \in Waits(id)
    BY <1>1, <1>2 DEF Waits
  <2>2. /\ Single(Waits(id)) /\ Occurrences(toPool, id) = {} /\ Checked(id) = {}
        /\ Occurrences(toMiner, id) = {} /\ Verdicts(id) = {} /\ ~Nowhere(id)
    BY <2>1, OnePlace DEF Nowhere
  <2>3. Waits(id)' = {}
    BY <1>1, <2>1, <2>2 DEF Waits, Single
  <2>4. Occurrences(toPool', id) = {Len(toPool) + 1}
    BY <1>1, <1>a, <1>2, <2>2, Sent
  <2> QED
    BY <1>c, <2>2, <2>3, <2>4, InPlaceNext DEF OneOf
<1>3. CASE moved.id # id
  <2>1. Waits(id)' = Waits(id)
    BY <1>1, <1>3 DEF Waits
  <2>2. Occurrences(toPool', id) = Occurrences(toPool, id)
    BY <1>1, <1>a, <1>3, Sent
  <2> QED
    BY <1>c, <2>1, <2>2, AlikeItself, KeepsPlace
<1> QED
  BY <1>2, <1>3

\* A new share has a new id.
LEMMA TakeMoves ==
  ASSUME IInv, SharesOK, connected, TakeId, NEW id \in SubmitIds
  PROVE  IF Taken(id)' THEN InOnePlace(id)' ELSE Nowhere(id)'
<1> DEFINE new == FirstSubmitId + taken
<1>a. taken \in Nat /\ id \in Nat /\ taken' = taken + 1
  BY Ids DEF IInv, TypeOK, TakeId
<1>b. Taken(id)' <=> (Taken(id) \/ id = new)
  BY <1>a DEF Taken, FirstSubmitId
<1>c. ~(Taken(id) /\ id = new)
  BY <1>a DEF Taken, FirstSubmitId
<1>d. UNCHANGED <<toPool, toMiner, checking, answered>>
  BY DEF TakeId, wire, session
<1>e. PICK job \in received : sending' = sending \cup {Call(new, "submit", job)}
  BY DEF TakeId
<1>f. Call(new, "submit", job).id = new
  BY DEF Call
<1>g. /\ Checked(id)' = Checked(id) /\ Verdicts(id)' = Verdicts(id)
      /\ Occurrences(toPool', id) = Occurrences(toPool, id)
      /\ Occurrences(toMiner', id) = Occurrences(toMiner, id)
  BY <1>d DEF Checked, Verdicts
<1>h. IF Taken(id) THEN InOnePlace(id) ELSE Nowhere(id)
  BY DEF SharesOK
<1> HIDE DEF new
<1>1. CASE id = new
  <2>1. Nowhere(id) /\ Taken(id)'
    BY <1>b, <1>c, <1>h, <1>1
  <2>2. Waits(id)' = {Call(new, "submit", job)}
    BY <1>1, <1>e, <1>f, <2>1 DEF Waits, Nowhere
  <2> QED
    BY <1>g, <2>1, <2>2, InPlaceNext DEF OneOf, Nowhere
<1>2. CASE id # new
  <2>1. Waits(id)' = Waits(id)
    BY <1>e, <1>f, <1>2 DEF Waits
  <2>2. (InOnePlace(id) => InOnePlace(id)') /\ (Nowhere(id) => Nowhere(id)')
    BY <1>g, <2>1, AlikeItself, KeepsPlace
  <2> QED
    BY <1>b, <1>h, <1>2, <2>2
<1> QED
  BY <1>1, <1>2

LEMMA NextSharesOK == IInv /\ SharesOK /\ Next => SharesOK'
<1> SUFFICES ASSUME IInv, SharesOK, Next PROVE SharesOK'
  OBVIOUS
<1>1. reader' # "check" => checking' = NoId
  BY DEF SharesOK, Next, InstallJob, Broadcast, Session, OnSubscribe, Subscribe, OnAuthorize,
         ReadCurrentJob, SendCurrentWork, OnSubmit, AnswerShare, EndOfInput, Main,
         SendSubscribe, Discard, GetReply, Disconnected, Receive, Timeout, Exit, TakeId,
         SendShare, Break, Over, vars, session, Request
<1>2. ASSUME connected', miner' # "running" PROVE taken' = 0
  <2>1. connected
    BY <1>2, StaysBroken
  <2>2. miner # "running" /\ UNCHANGED taken
    BY <1>2, <2>1
    DEF Next, InstallJob, Broadcast, Session, OnSubscribe, Subscribe, OnAuthorize,
        ReadCurrentJob, SendCurrentWork, OnSubmit, AnswerShare, EndOfInput, Main,
        SendSubscribe, Discard, GetReply, Disconnected, Receive, Timeout, Exit, TakeId,
        SendShare, Break, Over, vars, mining, Waiting
  <2> QED
    BY <2>1, <2>2 DEF SharesOK
<1>3. ASSUME connected', NEW id \in SubmitIds
      PROVE  IF Taken(id)' THEN InOnePlace(id)' ELSE Nowhere(id)'
  <2>1. connected
    BY <1>3, StaysBroken
  <2>2. IF Taken(id) THEN InOnePlace(id) ELSE Nowhere(id)
    BY <2>1 DEF SharesOK
  <2>3. ASSUME miner # "running" PROVE Nowhere(id)
    <3>1. taken = 0 /\ id >= FirstSubmitId /\ id \in Nat
      BY <2>1, <2>3, Ids DEF SharesOK, SubmitIds
    <3>2. ~Taken(id)
      BY <3>1 DEF Taken, FirstSubmitId
    <3> QED
      BY <2>2, <3>2
  <2>4. CASE TakeId
    BY <2>1, <2>4, TakeMoves
  <2>5. CASE \/ InstallJob \/ Broadcast \/ OnSubscribe \/ Subscribe \/ OnAuthorize
             \/ ReadCurrentJob \/ SendCurrentWork \/ SendSubscribe \/ Discard \/ GetReply \/ Over
    <3>1. /\ UNCHANGED taken
          /\ (InOnePlace(id) => InOnePlace(id)') /\ (Nowhere(id) => Nowhere(id)')
      BY <2>1, <2>3, <2>5, Elsewhere
    <3> QED
      BY <2>2, <3>1 DEF Taken
  <2>6. CASE OnSubmit \/ AnswerShare \/ Receive \/ SendShare
    <3>1. (InOnePlace(id) => InOnePlace(id)') /\ (Nowhere(id) => Nowhere(id)')
      BY <2>1, <2>6, SubmitMoves, AnswerMoves, ReceiveMoves, ShareMoves
    <3>2. UNCHANGED taken
      BY <2>6 DEF OnSubmit, AnswerShare, Receive, SendShare, mining
    <3> QED
      BY <2>2, <3>1, <3>2 DEF Taken
  <2>7. ~(EndOfInput \/ Disconnected \/ Timeout \/ Break)
    BY <1>3, <2>1 DEF EndOfInput, Disconnected, Timeout, Exit, Break
  <2> QED
    BY <2>4, <2>5, <2>6, <2>7 DEF Next, Session, Main
<1> QED
  BY <1>1, <1>2, <1>3 DEF SharesOK

\* The five are told apart by their tags.
LEMMA OnlyPlace ==
  ASSUME NEW id, InOnePlace(id)
  PROVE  \E place : Whereabouts(id) = {place}
<1>0. Whereabouts(id) = {<<"sending", s>> : s \in Waits(id)}
                        \cup {<<"toPool", i>> : i \in Occurrences(toPool, id)}
                        \cup {<<"checking", i>> : i \in Checked(id)}
                        \cup {<<"toMiner", i>> : i \in Occurrences(toMiner, id)}
                        \cup {<<"answered", i>> : i \in Verdicts(id)}
  BY DEF Whereabouts, Waits, Occurrences, Checked, Verdicts
<1>1. ASSUME NEW x, Waits(id) = {x}, Occurrences(toPool, id) = {}, Checked(id) = {},
             Occurrences(toMiner, id) = {}, Verdicts(id) = {}
      PROVE  Whereabouts(id) = {<<"sending", x>>}
  BY <1>0, <1>1
<1>2. ASSUME NEW x, Occurrences(toPool, id) = {x}, Waits(id) = {}, Checked(id) = {},
             Occurrences(toMiner, id) = {}, Verdicts(id) = {}
      PROVE  Whereabouts(id) = {<<"toPool", x>>}
  BY <1>0, <1>2
<1>3. ASSUME NEW x, Checked(id) = {x}, Waits(id) = {}, Occurrences(toPool, id) = {},
             Occurrences(toMiner, id) = {}, Verdicts(id) = {}
      PROVE  Whereabouts(id) = {<<"checking", x>>}
  BY <1>0, <1>3
<1>4. ASSUME NEW x, Occurrences(toMiner, id) = {x}, Waits(id) = {}, Occurrences(toPool, id) = {},
             Checked(id) = {}, Verdicts(id) = {}
      PROVE  Whereabouts(id) = {<<"toMiner", x>>}
  BY <1>0, <1>4
<1>5. ASSUME NEW x, Verdicts(id) = {x}, Waits(id) = {}, Occurrences(toPool, id) = {},
             Checked(id) = {}, Occurrences(toMiner, id) = {}
      PROVE  Whereabouts(id) = {<<"answered", x>>}
  BY <1>0, <1>5
<1>6. OneOf(Waits(id), Occurrences(toPool, id), Checked(id), Occurrences(toMiner, id), Verdicts(id))
  BY DEF InOnePlace
<1> QED
  BY <1>1, <1>2, <1>3, <1>4, <1>5, <1>6 DEF OneOf, Single

\* No share is lost, doubled or answered for another while the connection holds, and
\* what the handshake discards is no verdict (mac-miner/main.rs:126-132, 281-301).
THEOREM EveryShareIsAnsweredOnceCorrect == Spec => []EveryShareIsAnsweredOnce
<1>1. Init => SharesOK
  <2> SUFFICES ASSUME Init PROVE SharesOK
    OBVIOUS
  <2>1. ASSUME NEW id \in SubmitIds PROVE ~Taken(id) /\ Nowhere(id)
    <3>1. ~Taken(id)
      BY Ids DEF Init, Taken, SubmitIds, FirstSubmitId
    <3>2. id # NoId
      BY Ids
    <3>3. DOMAIN toPool = {} /\ DOMAIN toMiner = {}
      BY DEF Init
    <3> QED
      BY <3>1, <3>2, <3>3 DEF Init, Nowhere, Waits, Occurrences, Checked, Verdicts
  <2> QED
    BY <2>1 DEF Init, SharesOK
<1>2. IInv /\ SharesOK /\ [Next]_vars => SharesOK'
  <2>1. ASSUME SharesOK, UNCHANGED vars PROVE SharesOK'
    <3>1. UNCHANGED <<reader, checking, connected, miner, taken, sending, answered, toPool, toMiner>>
      BY <2>1 DEF vars, session, wire, mining
    <3>2. ASSUME NEW id
          PROVE  (InOnePlace(id) => InOnePlace(id)') /\ (Nowhere(id) => Nowhere(id)')
      <4>1. /\ Waits(id)' = Waits(id) /\ Checked(id)' = Checked(id) /\ Verdicts(id)' = Verdicts(id)
            /\ Occurrences(toPool', id) = Occurrences(toPool, id)
            /\ Occurrences(toMiner', id) = Occurrences(toMiner, id)
        BY <3>1 DEF Waits, Checked, Verdicts
      <4> QED
        BY <4>1, AlikeItself, KeepsPlace
    <3> QED
      BY <2>1, <3>1, <3>2 DEF SharesOK, Taken
  <2> QED
    BY <2>1, NextSharesOK
<1>3. IInv /\ SharesOK => EveryShareIsAnsweredOnce
  <2> SUFFICES ASSUME IInv, SharesOK, connected, NEW n \in 1 .. taken
               PROVE  Cardinality(Whereabouts(FirstSubmitId + n - 1)) = 1
    BY DEF EveryShareIsAnsweredOnce
  <2> DEFINE id == FirstSubmitId + n - 1
  <2>1. id \in SubmitIds /\ Taken(id)
    BY MinerSessionAssumption DEF IInv, TypeOK, SubmitIds, Taken, FirstSubmitId
  <2>2. InOnePlace(id)
    BY <2>1 DEF SharesOK
  <2> HIDE DEF id
  <2>3. \E place : Whereabouts(id) = {place}
    BY <2>2, OnlyPlace
  <2>4. Cardinality(Whereabouts(id)) = 1
    BY <2>3, FS_Singleton
  <2> QED
    BY <2>4 DEF id
<1> QED
  BY <1>1, <1>2, <1>3, IInvCorrect, PTL DEF Spec
=============================================================================
