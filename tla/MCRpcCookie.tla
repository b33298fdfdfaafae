---------------------------- MODULE MCRpcCookie ----------------------------
(* The instance of RpcCookie that TLC checks: the poller and one session,  *)
(* and a node that starts up to three times.                               *)
EXTENDS RpcCookie

CONSTANTS poller, session

MCCallers == {poller, session}
=============================================================================
