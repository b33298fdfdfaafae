-------------------------- MODULE RpcCookieProofs --------------------------
(***************************************************************************)
(* The safety of RpcCookie for any number of callers and of restarts.      *)
(***************************************************************************)
EXTENDS RpcCookie, TLAPS

\* A node that uses the cookie leaves it on disk at least until it stops.
CookieOnDisk ==
  /\ serving /\ cookieAuth => file = secret
  /\ cookieAuth => file \in {secret, None}

\* A call that no start of the node came near has its cookie from the last start,
\* and after its reload nobody has put an older one back.
ReloadHolds ==
  \A c \in Callers :
    /\ pc[c] = "store" /\ c \notin crossed /\ cookieAuth => fresh[c] = secret
    /\ pc[c] \in {"header2", "post2"} /\ c \notin met /\ cookieAuth => credentials = secret
    /\ pc[c] = "post2" /\ c \notin met /\ cookieAuth => header[c] = secret

\* A call outside `met` has run beside no call the node started during.
MetOK == \A c \in Running : c \notin met => crossed = {}

\* What was carried out is on its way back.
CarriedOutOK ==
  \A c \in Callers :
    /\ carriedOut[c] <= 1
    /\ pc[c] \notin {"done", "idle"} => carriedOut[c] = 0

IInv ==
  /\ TypeOK
  /\ CookieOnDisk
  /\ ReloadHolds
  /\ MetOK
  /\ CarriedOutOK
  /\ UnauthorizedIsGenuine
-----------------------------------------------------------------------------
LEMMA InitIInv == Init => IInv
<1> SUFFICES ASSUME Init PROVE IInv
  OBVIOUS
<1>1. TypeOK
  BY RpcCookieAssumption DEF Init, TypeOK, Secrets, Places, Results
<1>2. CookieOnDisk /\ ReloadHolds /\ MetOK /\ CarriedOutOK /\ UnauthorizedIsGenuine
  BY RpcCookieAssumption
  DEF Init, CookieOnDisk, ReloadHolds, MetOK, CarriedOutOK, UnauthorizedIsGenuine, Running
<1> QED
  BY <1>1, <1>2 DEF IInv

\* The steps of a call leave the node alone, and the node's steps the calls.
LEMMA NodeIsLeftAlone ==
  ASSUME NEW c \in Callers, Begin(c) \/ Call(c)
  PROVE  UNCHANGED node
BY DEF Begin, Call, ReadHeader, Refused, Answered, Lost, ReadCookie, StoreCredentials, Return,
       node

LEMMA NodeTypeOK == TypeOK /\ (Stop \/ Start) => TypeOK'
<1> SUFFICES ASSUME TypeOK, Stop \/ Start PROVE TypeOK'
  OBVIOUS
<1>1. CASE Stop
  BY <1>1 DEF Stop, TypeOK, Running, call
<1>2. CASE Start
  BY <1>2, RpcCookieAssumption DEF Start, TypeOK, Running, call, Secrets
<1> QED
  BY <1>1, <1>2

LEMMA CallTypeOK ==
  ASSUME TypeOK, NEW c \in Callers, Begin(c) \/ Call(c)
  PROVE  TypeOK'
<1> USE DEF TypeOK, node, call, Goto, Ends, Places, Results, Running
<1>1. CASE Begin(c)
  BY <1>1 DEF Begin
<1>2. CASE ReadHeader(c)
  BY <1>2 DEF ReadHeader
<1>3. CASE Refused(c)
  BY <1>3 DEF Refused, Posting
<1>4. CASE Answered(c)
  BY <1>4 DEF Answered, Posting
<1>5. CASE Lost(c)
  BY <1>5 DEF Lost, Posting
<1>6. CASE ReadCookie(c)
  BY <1>6 DEF ReadCookie
<1>7. CASE StoreCredentials(c)
  BY <1>7 DEF StoreCredentials
<1>8. CASE Return(c)
  BY <1>8 DEF Return
<1> QED
  BY <1>1, <1>2, <1>3, <1>4, <1>5, <1>6, <1>7, <1>8 DEF Call

\* A stop takes nothing from a call; a start puts every running call into both
\* sets, and no other call is past its beginning.
LEMMA NodeIInv == IInv /\ (Stop \/ Start) => IInv'
<1> SUFFICES ASSUME IInv, Stop \/ Start PROVE IInv'
  OBVIOUS
<1>1. TypeOK'
  BY NodeTypeOK DEF IInv
<1>2. CookieOnDisk'
  BY DEF IInv, CookieOnDisk, Stop, Start
<1>3. ReloadHolds'
  BY DEF IInv, ReloadHolds, Stop, Start, call, Running, TypeOK
<1>4. MetOK' /\ CarriedOutOK'
  BY DEF IInv, MetOK, CarriedOutOK, Stop, Start, call, Running
<1>5. UnauthorizedIsGenuine'
  BY DEF IInv, UnauthorizedIsGenuine, Stop, Start, call, Running
<1> QED
  BY <1>1, <1>2, <1>3, <1>4, <1>5 DEF IInv

\* Only a store moves the credentials; while a call outside `met` runs, no thread
\* holds a cookie of another start.
LEMMA CallReloadHolds ==
  ASSUME IInv, NEW c \in Callers, Begin(c) \/ Call(c)
  PROVE  ReloadHolds'
<1> USE DEF IInv, TypeOK, ReloadHolds, node, call, Goto, Ends, Running
<1>1. CASE Begin(c)
  BY <1>1 DEF Begin
<1>2. CASE ReadHeader(c)
  BY <1>2 DEF ReadHeader
<1>3. CASE Refused(c)
  BY <1>3 DEF Refused, Posting
<1>4. CASE Answered(c)
  BY <1>4 DEF Answered, Posting
<1>5. CASE Lost(c)
  BY <1>5 DEF Lost, Posting
<1>6. CASE ReadCookie(c)
  BY <1>6 DEF ReadCookie, CookieOnDisk
<1>7. CASE StoreCredentials(c)
  BY <1>7 DEF StoreCredentials, MetOK
<1>8. CASE Return(c)
  BY <1>8 DEF Return
<1> QED
  BY <1>1, <1>2, <1>3, <1>4, <1>5, <1>6, <1>7, <1>8 DEF Call

\* A call begins in `met` if it must, and leaves both sets when it is over.
LEMMA CallMetOK ==
  ASSUME IInv, NEW c \in Callers, Begin(c) \/ Call(c)
  PROVE  MetOK'
<1> USE DEF IInv, TypeOK, MetOK, node, call, Goto, Ends, Running
<1>1. CASE Begin(c)
  BY <1>1 DEF Begin
<1>2. CASE ReadHeader(c) \/ Refused(c) \/ Answered(c) \/ Lost(c)
  BY <1>2 DEF ReadHeader, Refused, Answered, Lost, Posting
<1>3. CASE ReadCookie(c) \/ StoreCredentials(c)
  BY <1>3 DEF ReadCookie, StoreCredentials
<1>4. CASE Return(c)
  BY <1>4 DEF Return
<1> QED
  BY <1>1, <1>2, <1>3, <1>4 DEF Call

\* The only post that follows another follows a 401.
LEMMA CallCarriedOutOK ==
  ASSUME IInv, NEW c \in Callers, Begin(c) \/ Call(c)
  PROVE  CarriedOutOK'
<1> USE DEF IInv, TypeOK, CarriedOutOK, node, call, Goto, Ends
<1>1. CASE Begin(c)
  BY <1>1 DEF Begin
<1>2. CASE ReadHeader(c)
  BY <1>2 DEF ReadHeader
<1>3. CASE Refused(c)
  BY <1>3 DEF Refused, Posting
<1>4. CASE Answered(c)
  BY <1>4 DEF Answered, Posting
<1>5. CASE Lost(c)
  BY <1>5 DEF Lost, Posting
<1>6. CASE ReadCookie(c) \/ StoreCredentials(c)
  BY <1>6 DEF ReadCookie, StoreCredentials
<1>7. CASE Return(c)
  BY <1>7 DEF Return
<1> QED
  BY <1>1, <1>2, <1>3, <1>4, <1>5, <1>6, <1>7 DEF Call

\* A second 401 is for the header of the reloaded cookie.
LEMMA CallUnauthorizedIsGenuine ==
  ASSUME IInv, NEW c \in Callers, Begin(c) \/ Call(c)
  PROVE  UnauthorizedIsGenuine'
<1> USE DEF IInv, TypeOK, UnauthorizedIsGenuine, node, call, Goto, Ends
<1>1. CASE Begin(c)
  BY <1>1 DEF Begin
<1>2. CASE ReadHeader(c)
  BY <1>2 DEF ReadHeader
<1>3. CASE Refused(c)
  BY <1>3 DEF Refused, Posting, Authorized, ReloadHolds
<1>4. CASE Answered(c) \/ Lost(c)
  BY <1>4 DEF Answered, Lost, Posting
<1>5. CASE ReadCookie(c) \/ StoreCredentials(c)
  BY <1>5 DEF ReadCookie, StoreCredentials
<1>6. CASE Return(c)
  BY <1>6 DEF Return
<1> QED
  BY <1>1, <1>2, <1>3, <1>4, <1>5, <1>6 DEF Call

LEMMA NextIInv == IInv /\ [Next]_vars => IInv'
<1> SUFFICES ASSUME IInv, [Next]_vars PROVE IInv'
  OBVIOUS
<1>1. CASE Stop \/ Start
  BY <1>1, NodeIInv
<1>2. ASSUME NEW c \in Callers, Begin(c) \/ Call(c) PROVE IInv'
  <2>1. TypeOK'
    BY <1>2, CallTypeOK DEF IInv
  <2>2. CookieOnDisk'
    BY <1>2, NodeIsLeftAlone DEF IInv, CookieOnDisk, node
  <2> QED
    BY <1>2, <2>1, <2>2, CallReloadHolds, CallMetOK, CallCarriedOutOK, CallUnauthorizedIsGenuine
    DEF IInv
<1>3. CASE UNCHANGED vars
  BY <1>3 DEF IInv, TypeOK, CookieOnDisk, ReloadHolds, MetOK, CarriedOutOK,
     UnauthorizedIsGenuine, vars, node, call, Running
<1> QED
  BY <1>1, <1>2, <1>3 DEF Next

LEMMA SpecIInv == Spec => []IInv
  BY InitIInv, NextIInv, PTL DEF Spec

-----------------------------------------------------------------------------
\* Every variable of the client and its calls keeps its range, for any number of
\* threads and of starts of the node (client.rs:44-55, 138-203).
THEOREM TypeCorrect == Spec => []TypeOK
<1>1. IInv => TypeOK
  BY DEF IInv
<1> QED
  BY <1>1, SpecIInv, PTL

\* What the comment on a second 401 claims (client.rs:164), with the condition it
\* needs: no call that ran beside it spans a start of the node.
THEOREM UnauthorizedIsGenuineCorrect == Spec => []UnauthorizedIsGenuine
<1>1. IInv => UnauthorizedIsGenuine
  BY DEF IInv
<1> QED
  BY <1>1, SpecIInv, PTL

\* The reload and the retry never have a method carried out twice
\* (client.rs:154-162).
THEOREM CarriedOutOnceCorrect == Spec => []CarriedOutOnce
<1>1. IInv => CarriedOutOnce
  BY DEF IInv, CarriedOutOK, CarriedOutOnce
<1> QED
  BY <1>1, SpecIInv, PTL
=============================================================================
