---------------------------- MODULE MCMinerStats ----------------------------
(* The instance of MinerStats that TLC checks: hashes of two bits.         *)
EXTENDS MinerStats

CONSTANTS t1, t2

MCThreads == {t1, t2}

\* Of the hashes 0, 1, 2 and 3.
MCZeroBits == [hash \in 0 .. 3 |-> IF hash = 0 THEN 2 ELSE IF hash = 1 THEN 1 ELSE 0]
=============================================================================
