------------------------------- MODULE MCGpuSlot -------------------------------
(***************************************************************************)
(* GpuSlot for TLC.  With three runs one may hold the slot, one be at the   *)
(* head and one behind it; MaxRecords leaves room for probes that send a    *)
(* run back to the tail while the others wait.                             *)
(***************************************************************************)
EXTENDS GpuSlot
===============================================================================
