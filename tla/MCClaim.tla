-------------------------------- MODULE MCClaim --------------------------------
(***************************************************************************)
(* Claim for TLC.  With three runners one may have died and left its claim, *)
(* one be inside the critical section or at work, and one try to get in.    *)
(***************************************************************************)
EXTENDS Claim
===============================================================================
