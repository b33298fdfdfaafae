----------------------------- MODULE MCSoloPool -----------------------------
(* The instance of SoloPool that TLC checks: one connection. Connections   *)
(* meet only in the poller and the node, which it has.                     *)
EXTENDS SoloPool

CONSTANT c1

MCConns == {c1}
=============================================================================
