---------------------------- MODULE MCAcquisition ----------------------------
(* Acquisition instantiated for TLC: two runners, a wave of two chunks under *)
(* each contract.                                                            *)
EXTENDS Acquisition, TLC

CONSTANTS old, a1, b1, a2, b2

MCRest1 == <<a1, b1>>
MCRest2 == <<a2, b2>>
MCAnswer ==
  [c \in AllChunks |->
     CASE c = old -> {"exact", "malformed"}
       [] c = a1 -> {"exact", "missing", "price"}
       [] c = a2 -> {"exact", "http", "drift"}
       [] OTHER -> {"exact"}]

Symmetry == Permutations(Runners)
=============================================================================
