---------------------------- MODULE MCMinerWork ----------------------------
(* The instance of MinerWork that TLC checks: two mining threads.          *)
EXTENDS MinerWork

CONSTANTS t1, t2

MCThreads == {t1, t2}
=============================================================================
