--------------------------- MODULE MCKronosLifecycle ---------------------------
(***************************************************************************)
(* KronosLifecycle for TLC.  With two control calls one action may be in    *)
(* flight while the other is refused, times out at the tail of the first or *)
(* waits in the executor behind it; with two inference threads one may hold *)
(* the model lock while the other waits for it.                            *)
(***************************************************************************)
EXTENDS KronosLifecycle
===============================================================================
