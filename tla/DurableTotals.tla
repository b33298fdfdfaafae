--------------------------- MODULE DurableTotals ----------------------------
(***************************************************************************)
(* What the lifetime totals of a miner promise (lifetime.rs): a count that *)
(* outlives the process. Saving it may lag behind and may fail; a crash    *)
(* goes back to what was saved, and to nothing older.                      *)
(***************************************************************************)
EXTENDS Integers

VARIABLES
  full,  \* every batch counted
  saved  \* what the disk has

vars == <<full, saved>>

Init == full = 0 /\ saved = 0

Count ==
  /\ full' = full + 1
  /\ UNCHANGED saved

\* A save that began before the latest batches brings the earlier ones.
Save ==
  /\ saved' \in saved .. full
  /\ UNCHANGED full

Crash ==
  /\ full' = saved
  /\ UNCHANGED saved

Next == Count \/ Save \/ Crash

Spec == Init /\ [][Next]_vars
=============================================================================
