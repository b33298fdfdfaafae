---------------------------- MODULE MinerSession ----------------------------
(***************************************************************************)
(* One Stratum connection from end to end: the pool's poller and the       *)
(* reader of its session (session.rs), the socket, and the miner's main    *)
(* thread and mining threads (mac-miner's main.rs, worker.rs).             *)
(*                                                                         *)
(* Each direction is a queue of messages: the outbound channel, the writer *)
(* thread, the socket and, at the miner, the channel of the reader thread. *)
(* The connection may break at any time, and what was on its way is lost   *)
(* from some point on; a pool or a miner that exits breaks it too.         *)
(*                                                                         *)
(* A job is its number in the order of installation.                       *)
(***************************************************************************)
EXTENDS Integers, Sequences, FiniteSets

CONSTANTS
  JOB_HISTORY,  \* how many jobs the pool keeps
  MaxJobs,      \* bound: jobs the pool installs
  MaxShares     \* bound: shares the miner finds

ASSUME MinerSessionAssumption ==
  /\ JOB_HISTORY \in Nat \ {0}
  /\ MaxJobs \in Nat
  /\ MaxShares \in Nat

VARIABLES
  \* the pool: jobs installed, and of these the ones broadcast
  newest, announced,
  \* its session: the reader's place, the job it has read, the share it checks
  reader, current, checking, authorized, subscribed,
  \* the connection
  connected, toPool, toMiner,
  \* the miner: its main thread, the jobs it installed, its shares: ids taken, the
  \* ones not sent yet, the ones with a verdict
  miner, received, taken, sending, answered

pool == <<newest, announced>>
session == <<reader, current, checking, authorized, subscribed>>
wire == <<connected, toPool, toMiner>>
mining == <<miner, received, taken, sending, answered>>
vars == <<pool, session, wire, mining>>

-----------------------------------------------------------------------------
(* Messages (message.rs). An id of NoId is null: no reply is expected.     *)

NoId == 0
SubscribeId == 1
AuthorizeId == 2
FirstSubmitId == 100
SubmitIds == FirstSubmitId .. FirstSubmitId + MaxShares - 1

NoJob == 0
Jobs == 1 .. MaxJobs

NoError == 0
JobNotFound == 21
Unauthorized == 24
OtherError == 20

Call(id, method, job) == [id |-> id, method |-> method, job |-> job]
Notification(method, job) == [id |-> NoId, method |-> method, job |-> job]
Reply(id, error) == [id |-> id, error |-> error]

\* Incoming::parse: a method is what tells a request from a response.
IsRequest(message) == "method" \in DOMAIN message
IsResponse(message) == ~IsRequest(message)

Requests(methods, ids) == [id : ids, method : methods, job : Jobs \cup {NoJob}]
Replies == [id : {SubscribeId, AuthorizeId} \cup SubmitIds,
            error : {NoError, JobNotFound, Unauthorized, OtherError}]
ToPool == Requests({"subscribe", "authorize", "submit"}, {SubscribeId, AuthorizeId} \cup SubmitIds)
ToMiner == Requests({"set_difficulty", "notify"}, {NoId}) \cup Replies

\* Nobody learns that a line was not delivered: both ends send into a channel.
SendToPool(messages) == toPool' = IF connected THEN toPool \o messages ELSE toPool
SendToMiner(messages) == toMiner' = IF connected THEN toMiner \o messages ELSE toMiner

Init ==
  /\ newest = 0 /\ announced = 0
  /\ reader = "read" /\ current = NoJob /\ checking = NoId
  /\ authorized = FALSE /\ subscribed = FALSE
  /\ connected = TRUE /\ toPool = <<>> /\ toMiner = <<>>
  /\ miner = "connected" /\ received = {} /\ taken = 0 /\ sending = {} /\ answered = {}

-----------------------------------------------------------------------------
(* The pool's poller.                                                      *)

\* set_current_job. The poller announces each job before it builds another.
InstallJob ==
  /\ newest = announced
  /\ newest < MaxJobs
  /\ newest' = newest + 1
  /\ UNCHANGED <<announced, session, wire, mining>>

\* broadcast. With the connection broken, the send fails once the writer thread
\* has found out, and the subscriber is dropped.
Broadcast ==
  /\ announced # newest
  /\ announced' = newest
  /\ IF subscribed
     THEN SendToMiner(<<Notification("notify", newest)>>)
     ELSE UNCHANGED toMiner
  /\ \/ UNCHANGED subscribed
     \/ ~connected /\ subscribed' = FALSE
  /\ UNCHANGED <<newest, reader, current, checking, authorized, connected, toPool, mining>>

-----------------------------------------------------------------------------
(* The session's reader thread: one request at a time, a line each.        *)

Request(method) ==
  /\ reader = "read"
  /\ toPool # <<>>
  /\ Head(toPool).method = method
  /\ toPool' = Tail(toPool)

OnSubscribe ==
  /\ Request("subscribe")
  /\ SendToMiner(<<Reply(Head(toPool).id, NoError)>>)
  /\ reader' = "subscribe"
  /\ UNCHANGED <<pool, current, checking, authorized, subscribed, connected, mining>>

\* PoolState::subscribe, after the reply.
Subscribe ==
  /\ reader = "subscribe"
  /\ subscribed' = TRUE
  /\ reader' = "read"
  /\ UNCHANGED <<pool, current, checking, authorized, wire, mining>>

\* Bug: the current work is sent before the reply.
OnAuthorizeLate ==
  /\ Request("authorize")
  /\ authorized' = TRUE
  /\ LET work == IF newest = NoJob THEN <<>> ELSE <<Notification("notify", newest)>>
     IN  SendToMiner(work \o <<Reply(Head(toPool).id, NoError)>>)
  /\ UNCHANGED <<pool, reader, current, checking, subscribed, connected, mining>>

\* Bug: without a job there is no reply.
OnAuthorizeNeedsJob ==
  /\ Request("authorize")
  /\ authorized' = TRUE
  /\ IF newest = NoJob
     THEN UNCHANGED <<reader, toMiner>>
     ELSE reader' = "current" /\ SendToMiner(<<Reply(Head(toPool).id, NoError)>>)
  /\ UNCHANGED <<pool, current, checking, subscribed, connected, mining>>

OnAuthorize ==
  /\ Request("authorize")
  /\ authorized' = TRUE
  /\ SendToMiner(<<Reply(Head(toPool).id, NoError)>>)
  /\ reader' = "current"
  /\ UNCHANGED <<pool, current, checking, subscribed, connected, mining>>

\* send_current_work reads the job under the mutex, ...
ReadCurrentJob ==
  /\ reader = "current"
  /\ IF newest = NoJob
     THEN reader' = "read" /\ UNCHANGED current
     ELSE reader' = "notify" /\ current' = newest
  /\ UNCHANGED <<pool, checking, authorized, subscribed, wire, mining>>

\* ... and sends it after.
SendCurrentWork ==
  /\ reader = "notify"
  /\ SendToMiner(<<Notification("set_difficulty", NoJob), Notification("notify", current)>>)
  /\ current' = NoJob
  /\ reader' = "read"
  /\ UNCHANGED <<pool, checking, authorized, subscribed, connected, toPool, mining>>

Known(job) == newest - JOB_HISTORY < job /\ job <= newest

\* on_submit up to the check of the share.
OnSubmit ==
  /\ Request("submit")
  /\ LET error == IF ~authorized THEN Unauthorized
                  ELSE IF ~Known(Head(toPool).job) THEN JobNotFound ELSE NoError
     IN  IF error = NoError
         THEN reader' = "check" /\ checking' = Head(toPool).id /\ UNCHANGED toMiner
         ELSE SendToMiner(<<Reply(Head(toPool).id, error)>>) /\ UNCHANGED <<reader, checking>>
  /\ UNCHANGED <<pool, current, authorized, subscribed, connected, mining>>

\* Bug: a share that cannot be validated is only logged.
AnswerShareOrLog ==
  /\ reader = "check"
  /\ \/ SendToMiner(<<Reply(checking, NoError)>>)
     \/ UNCHANGED toMiner
  /\ checking' = NoId
  /\ reader' = "read"
  /\ UNCHANGED <<pool, current, authorized, subscribed, connected, toPool, mining>>

\* The share was checked, a block held and submitted: true for a share, an accepted
\* or a stale block, an error for a refused one and for a failure of the check.
AnswerShare ==
  /\ reader = "check"
  /\ \E error \in {NoError, OtherError} : SendToMiner(<<Reply(checking, error)>>)
  /\ checking' = NoId
  /\ reader' = "read"
  /\ UNCHANGED <<pool, current, authorized, subscribed, connected, toPool, mining>>

\* Bug: the connection is never taken off the list.
EndOfInputKept ==
  /\ reader = "read" /\ toPool = <<>> /\ ~connected
  /\ reader' = "closed"
  /\ UNCHANGED <<pool, current, checking, authorized, subscribed, wire, mining>>

\* lines() ends: the session is taken off the list.
EndOfInput ==
  /\ reader = "read" /\ toPool = <<>> /\ ~connected
  /\ subscribed' = FALSE
  /\ reader' = "closed"
  /\ UNCHANGED <<pool, current, checking, authorized, wire, mining>>

Session ==
  \/ OnSubscribe \/ Subscribe
  \/ OnAuthorize \/ ReadCurrentJob \/ SendCurrentWork
  \/ OnSubmit \/ AnswerShare
  \/ EndOfInput

-----------------------------------------------------------------------------
(* The miner's main thread.                                                *)

Prefixes(queue) == {SubSeq(queue, 1, n) : n \in 0 .. Len(queue)}

\* The socket is closed with the process: the pool may still read what was sent.
Exit ==
  /\ miner' = "exited"
  /\ sending' = {}
  /\ connected' = FALSE
  /\ toPool' \in Prefixes(toPool)
  /\ toMiner' = <<>>
  /\ UNCHANGED <<pool, session, received, taken, answered>>

SendSubscribe ==
  /\ miner = "connected"
  /\ SendToPool(<<Call(SubscribeId, "subscribe", NoJob)>>)
  /\ miner' = "subscribing"
  /\ UNCHANGED <<pool, session, connected, toMiner, received, taken, sending, answered>>

Waiting == miner \in {"subscribing", "authorizing"}
Awaited == IF miner = "subscribing" THEN SubscribeId ELSE AuthorizeId

\* wait_for_response: what is not the reply waited for is discarded.
Discard ==
  /\ Waiting
  /\ toMiner # <<>>
  /\ IsRequest(Head(toMiner)) \/ Head(toMiner).id # Awaited
  /\ toMiner' = Tail(toMiner)
  /\ UNCHANGED <<pool, session, connected, toPool, mining>>

GetReply ==
  /\ Waiting
  /\ toMiner # <<>>
  /\ IsResponse(Head(toMiner)) /\ Head(toMiner).id = Awaited /\ Head(toMiner).error = NoError
  /\ toMiner' = Tail(toMiner)
  /\ IF miner = "subscribing"
     THEN /\ miner' = "authorizing"
          /\ SendToPool(<<Call(AuthorizeId, "authorize", NoJob)>>)
     ELSE miner' = "running" /\ UNCHANGED toPool
  /\ UNCHANGED <<pool, session, connected, received, taken, sending, answered>>

\* HANDSHAKE_TIMEOUT.
Timeout == Waiting /\ Exit

\* The channel ends: an error while waiting, the end of the loop afterwards. The
\* subscribe request itself goes into a channel and cannot fail.
Disconnected == (Waiting \/ miner = "running") /\ toMiner = <<>> /\ ~connected /\ Exit

\* The network loop: new work, a difficulty that is only printed, or a verdict.
Receive ==
  /\ miner = "running"
  /\ toMiner # <<>>
  /\ LET message == Head(toMiner)
     IN  /\ received' = IF IsRequest(message) /\ message.method = "notify"
                        THEN received \cup {message.job} ELSE received
         /\ answered' = IF IsResponse(message) THEN answered \cup {message.id} ELSE answered
  /\ toMiner' = Tail(toMiner)
  /\ UNCHANGED <<pool, session, connected, toPool, miner, taken, sending>>

Main == SendSubscribe \/ Discard \/ GetReply \/ Disconnected \/ Receive

-----------------------------------------------------------------------------
(* The miner's mining threads: `submit` takes an id, and another thread     *)
(* may send its share before this one does.                                *)

TakeId ==
  /\ miner = "running"
  /\ taken < MaxShares
  /\ \E job \in received :
       sending' = sending \cup {Call(FirstSubmitId + taken, "submit", job)}
  /\ taken' = taken + 1
  /\ UNCHANGED <<pool, session, wire, miner, received, answered>>

SendShare ==
  /\ \E share \in sending :
       /\ SendToPool(<<share>>)
       /\ sending' = sending \ {share}
  /\ UNCHANGED <<pool, session, connected, toMiner, miner, received, taken, answered>>

-----------------------------------------------------------------------------
\* The network fails, or the pool exits: what is on its way is lost from some
\* point on.
Break ==
  /\ connected
  /\ connected' = FALSE
  /\ toPool' \in Prefixes(toPool)
  /\ toMiner' \in Prefixes(toMiner)
  /\ UNCHANGED <<pool, session, mining>>

\* Both ends are gone.
Over == miner = "exited" /\ reader = "closed" /\ UNCHANGED vars

Next ==
  \/ InstallJob \/ Broadcast
  \/ Session
  \/ Main \/ Timeout
  \/ TakeId \/ SendShare
  \/ Break
  \/ Over

Spec == Init /\ [][Next]_vars

\* Every thread is run, and a held block is submitted in the end. Nothing obliges a
\* connection to break or a handshake to time out.
FairSpec ==
  /\ Spec
  /\ WF_vars(Broadcast)
  /\ WF_vars(Session)
  /\ WF_vars(Main)

-----------------------------------------------------------------------------
\* Every variable keeps its range, and the queues hold messages of their direction.
TypeOK ==
  /\ newest \in 0 .. MaxJobs /\ announced \in 0 .. MaxJobs
  /\ reader \in {"read", "subscribe", "current", "notify", "check", "closed"}
  /\ current \in Jobs \cup {NoJob} /\ checking \in SubmitIds \cup {NoId}
  /\ authorized \in BOOLEAN /\ subscribed \in BOOLEAN /\ connected \in BOOLEAN
  /\ toPool \in Seq(ToPool) /\ toMiner \in Seq(ToMiner)
  /\ miner \in {"connected", "subscribing", "authorizing", "running", "exited"}
  /\ received \subseteq Jobs \cup {NoJob} /\ taken \in 0 .. MaxShares
  /\ sending \subseteq ToPool /\ answered \subseteq {SubscribeId, AuthorizeId} \cup SubmitIds

\* "The pool may push set_difficulty or even a job before answering the handshake,
\* so anything that is not the reply we are waiting for is skipped"
\* (mac-miner/main.rs:281-283). No job is lost by that: with the session idle and
\* nothing on its way, a running miner has had the newest job.
NewestJobIsReceived ==
  connected /\ miner = "running" /\ reader = "read" /\ toMiner = <<>> /\ newest = announced
    => newest \in received \cup {NoJob}

\* Where the share with this id, or the answer to it, is.
Whereabouts(id) ==
  {<<"sending", share>> : share \in {s \in sending : s.id = id}}
  \cup {<<"toPool", i>> : i \in {n \in DOMAIN toPool : toPool[n].id = id}}
  \cup {<<"checking", i>> : i \in {checking} \cap {id}}
  \cup {<<"toMiner", i>> : i \in {n \in DOMAIN toMiner : toMiner[n].id = id}}
  \cup {<<"answered", i>> : i \in answered \cap {id}}

\* The network loop counts every response as the verdict on a share, without its id
\* (main.rs:126-132). While the connection holds that is right: each share is on its
\* way, being checked or answered, in exactly one place, and nothing but shares is
\* answered by then.
EveryShareIsAnsweredOnce ==
  connected =>
    \A n \in 1 .. taken : Cardinality(Whereabouts(FirstSubmitId + n - 1)) = 1

\* The pool answers each half of the handshake, with or without a job to send
\* (session.rs:157-169): on a connection that holds, a miner that is not timed out
\* gets to work.
HandshakeCompletes == <>(miner \in {"running", "exited"} \/ ~connected)

\* "the pool closed the connection" (main.rs:136): a miner without a connection ends,
\* in the handshake or after it, instead of hashing for nobody; and the session's
\* reader "will notice the closed socket and clean up the rest" (state.rs:145-147), even
\* when the subscribe request is read after the connection broke.
BothEndsNoticeTheBreak ==
  ~connected ~> miner = "exited" /\ reader = "closed" /\ ~subscribed
=============================================================================
