------------------------------ MODULE MCNightSlot ------------------------------
(***************************************************************************)
(* NightSlot for TLC.  Two runs are enough for one to train or hold the     *)
(* restore duty while the other decides, waits or crashes; they are         *)
(* interchangeable, and every property of the runs is a safety property.   *)
(***************************************************************************)
EXTENDS NightSlot, TLC

Symmetry == Permutations(Runs)
===============================================================================
