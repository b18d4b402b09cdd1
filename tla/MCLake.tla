--------------------------------- MODULE MCLake ---------------------------------
(***************************************************************************)
(* Lake for TLC.                                                            *)
(***************************************************************************)
EXTENDS Lake, TLC

CONSTANT a

\* Rows of both days; of the second day only.
Tables == {[k \in Datasets \X Cells |-> a],
           [k \in Datasets \X Cells |-> IF k[2][2] = 1 THEN Empty ELSE a]}

Interchangeable == Permutations(Exporters) \cup Permutations(Values)
===============================================================================
