------------------------------- MODULE MCUniverse -------------------------------
(***************************************************************************)
(* Universe for TLC: one pair of which the exchange has all bars but the one *)
(* in the middle, the last, or the first, and one that is unavailable.       *)
(***************************************************************************)
EXTENDS Universe

CONSTANT q

Listings   == [x \in Pairs |-> 1]
Boundaries == [x \in Pairs |-> Len + 1]
Bars       == [x \in Pairs |-> IF x = q THEN {{}} ELSE {{1, 3}, {3}, {1}}]
===============================================================================
