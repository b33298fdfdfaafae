----------------------------- MODULE RpcCookie -----------------------------
(***************************************************************************)
(* RpcClient (client.rs) against a bitcoind that restarts at any moment:   *)
(* several threads share one client and its credentials, and each call     *)
(* that is answered 401 reloads the cookie file and posts once more.       *)
(*                                                                         *)
(* The node is external. Each start makes a new secret and, unless it is   *)
(* configured for rpcauth, leaves it in the cookie file before it serves.  *)
(***************************************************************************)
EXTENDS Integers, FiniteSets

CONSTANTS
  Callers,    \* the threads that use the client: the poller and the sessions
  MaxStarts,  \* bound: how often the node starts
  None        \* no cookie file

ASSUME RpcCookieAssumption ==
  /\ MaxStarts \in Nat \ {0}
  /\ None \notin Nat

VARIABLES
  \* the node: the secret of its last start, whether that start wrote it to the
  \* cookie file, whether it serves
  secret, cookieAuth, serving,
  file,         \* the secret in the cookie file
  credentials,  \* RpcClient's, behind the RwLock
  \* one call at a time of each thread: its place, the header it sends, the
  \* cookie it read, how it ended
  pc, header, fresh, result,
  \* history: how often the node carried out this call's method; the running
  \* calls the node started during; the calls that ran beside one of those
  carriedOut, crossed, met

node == <<secret, cookieAuth, serving, file>>
call == <<header, fresh, result, carriedOut>>
vars == <<node, credentials, pc, call, crossed, met>>

Secrets == 1 .. MaxStarts
Places == {"idle", "header1", "post1", "readCookie", "store", "header2", "post2", "done"}
Results == {"none", "answered", "Http", "Auth", "Unauthorized"}

Running == {c \in Callers : pc[c] # "idle"}
Goto(c, place) == pc' = [pc EXCEPT ![c] = place]
Ends(c, how) == result' = [result EXCEPT ![c] = how] /\ Goto(c, "done")

\* from_datadir has read the cookie of a node that is up.
Init ==
  /\ secret = 1
  /\ cookieAuth = TRUE
  /\ serving = TRUE
  /\ file = 1
  /\ credentials = 1
  /\ pc = [c \in Callers |-> "idle"]
  /\ header = [c \in Callers |-> 1]
  /\ fresh = [c \in Callers |-> 1]
  /\ result = [c \in Callers |-> "none"]
  /\ carriedOut = [c \in Callers |-> 0]
  /\ crossed = {}
  /\ met = {}

-----------------------------------------------------------------------------
(* The node.                                                               *)

\* A clean stop removes the file, a crash leaves it.
Stop ==
  /\ serving
  /\ secret < MaxStarts
  /\ serving' = FALSE
  /\ file' \in {file, None}
  /\ UNCHANGED <<secret, cookieAuth, credentials, pc, call, crossed, met>>

Start ==
  /\ ~serving
  /\ secret < MaxStarts
  /\ secret' = secret + 1
  /\ cookieAuth' \in BOOLEAN
  /\ file' = IF cookieAuth' THEN secret' ELSE file
  /\ serving' = TRUE
  /\ crossed' = Running
  /\ met' = Running
  /\ UNCHANGED <<credentials, pc, call>>

-----------------------------------------------------------------------------
(* call_at, in thread c.                                                   *)

Begin(c) ==
  /\ pc[c] = "idle"
  /\ Goto(c, "header1")
  /\ result' = [result EXCEPT ![c] = "none"]
  /\ carriedOut' = [carriedOut EXCEPT ![c] = 0]
  /\ met' = IF crossed = {} THEN met ELSE met \cup {c}
  /\ UNCHANGED <<node, credentials, header, fresh, crossed>>

\* post, while it holds the read lock.
ReadHeader(c) ==
  /\ \/ pc[c] = "header1" /\ Goto(c, "post1")
     \/ pc[c] = "header2" /\ Goto(c, "post2")
  /\ header' = [header EXCEPT ![c] = credentials]
  /\ UNCHANGED <<node, credentials, fresh, result, carriedOut, crossed, met>>

Posting(c) == pc[c] \in {"post1", "post2"}
Authorized(c) == serving /\ header[c] = secret

\* Bug: the 401 is reported at once.
RefusedAndReported(c) ==
  /\ Posting(c) /\ serving /\ ~Authorized(c)
  /\ Ends(c, "Unauthorized")
  /\ UNCHANGED <<node, credentials, header, fresh, carriedOut, crossed, met>>

\* 401, from a node that never looked at the method.
Refused(c) ==
  /\ Posting(c) /\ serving /\ ~Authorized(c)
  /\ \/ pc[c] = "post1" /\ Goto(c, "readCookie") /\ UNCHANGED result
     \/ pc[c] = "post2" /\ Ends(c, "Unauthorized")
  /\ UNCHANGED <<node, credentials, header, fresh, carriedOut, crossed, met>>

\* A result or an RPC error.
Answered(c) ==
  /\ Posting(c) /\ Authorized(c)
  /\ Ends(c, "answered")
  /\ carriedOut' = [carriedOut EXCEPT ![c] = @ + 1]
  /\ UNCHANGED <<node, credentials, header, fresh, crossed, met>>

\* Bug: a post that failed is retried too.
LostAndRetried(c) ==
  /\ Posting(c)
  /\ \/ UNCHANGED carriedOut
     \/ Authorized(c) /\ carriedOut' = [carriedOut EXCEPT ![c] = @ + 1]
  /\ \/ pc[c] = "post1" /\ Goto(c, "readCookie") /\ UNCHANGED result
     \/ pc[c] = "post2" /\ Ends(c, "Http")
  /\ UNCHANGED <<node, credentials, header, fresh, crossed, met>>

\* No connection, no answer in time, or half of one; the method may have been
\* carried out.
Lost(c) ==
  /\ Posting(c)
  /\ \/ UNCHANGED carriedOut
     \/ Authorized(c) /\ carriedOut' = [carriedOut EXCEPT ![c] = @ + 1]
  /\ Ends(c, "Http")
  /\ UNCHANGED <<node, credentials, header, fresh, crossed, met>>

\* Bug: the cookie that could not be read is used.
ReadWhatIsThere(c) ==
  /\ pc[c] = "readCookie"
  /\ fresh' = [fresh EXCEPT ![c] = file]
  /\ Goto(c, "store")
  /\ UNCHANGED <<node, credentials, header, result, carriedOut, crossed, met>>

\* reload_credentials reads the file before it takes the lock.
ReadCookie(c) ==
  /\ pc[c] = "readCookie"
  /\ IF file = None
     THEN Ends(c, "Auth") /\ UNCHANGED fresh
     ELSE fresh' = [fresh EXCEPT ![c] = file] /\ Goto(c, "store") /\ UNCHANGED result
  /\ UNCHANGED <<node, credentials, header, carriedOut, crossed, met>>

\* Bug: the cookie read is not kept.
StoreNothing(c) ==
  /\ pc[c] = "store"
  /\ Goto(c, "header2")
  /\ UNCHANGED <<node, credentials, call, crossed, met>>

StoreCredentials(c) ==
  /\ pc[c] = "store"
  /\ credentials' = fresh[c]
  /\ Goto(c, "header2")
  /\ UNCHANGED <<node, call, crossed, met>>

\* The caller has the result. A session calls again if it has a block, the
\* poller calls for ever.
Return(c) ==
  /\ pc[c] = "done"
  /\ Goto(c, "idle")
  /\ crossed' = crossed \ {c}
  /\ met' = met \ {c}
  /\ UNCHANGED <<node, credentials, call>>

Call(c) ==
  \/ ReadHeader(c)
  \/ Refused(c) \/ Answered(c) \/ Lost(c)
  \/ ReadCookie(c) \/ StoreCredentials(c)
  \/ Return(c)

Next == Stop \/ Start \/ \E c \in Callers : Begin(c) \/ Call(c)

Spec == Init /\ [][Next]_vars

\* A call ends, by its answer or by the 30 s timeout; calls are made again; a node
\* that was stopped is started. A node that serves answers in the end: exchanges are
\* not lost for ever.
FairSpec ==
  /\ Spec
  /\ WF_vars(Start)
  /\ \A c \in Callers : WF_vars(Begin(c)) /\ WF_vars(Call(c)) /\ SF_vars(Answered(c) \/ Refused(c))

-----------------------------------------------------------------------------
TypeOK ==
  /\ secret \in Secrets
  /\ cookieAuth \in BOOLEAN /\ serving \in BOOLEAN
  /\ file \in Secrets \cup {None}
  /\ credentials \in Secrets
  /\ pc \in [Callers -> Places]
  /\ header \in [Callers -> Secrets]
  /\ fresh \in [Callers -> Secrets]
  /\ result \in [Callers -> Results]
  /\ carriedOut \in [Callers -> Nat]
  /\ crossed \subseteq Running /\ met \subseteq Running

\* "The cookie on disk genuinely does not work" (client.rs:164, 234-236): a call
\* ends Unauthorized only with a node that does not use the cookie, unless it ran
\* beside a call, or is one, that the node started during. Then a thread that read
\* the cookie of the start before can store it over the new one.
UnauthorizedIsGenuine ==
  \A c \in Callers :
    pc[c] = "done" /\ result[c] = "Unauthorized" => ~cookieAuth \/ c \in met

\* The retry never repeats what was done: the node carries out a call, a
\* submitblock say, at most once (client.rs:91-95, 154-162).
CarriedOutOnce == \A c \in Callers : carriedOut[c] <= 1

\* No zombie, "alive, connected, and permanently unauthorised" (client.rs:78-81):
\* once the node stays up with its cookie on disk, every thread's calls are
\* answered again and again, whatever the credentials and the calls were before.
RestartHeals ==
  <>[](serving /\ cookieAuth) =>
    \A c \in Callers : []<>(pc[c] = "done" /\ result[c] = "answered")
=============================================================================
