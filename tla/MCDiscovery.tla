----------------------------- MODULE MCDiscovery -----------------------------
(* Discovery instantiated for TLC: two runners that can compete for the     *)
(* chunks of v2 and for the remaining chunks of v3.                         *)
EXTENDS Discovery, TLC

CONSTANTS a2, b2, cross3, a3, b3

MCRest2 == <<a2, b2>>
MCAnswer ==
  [c \in AllChunks |->
     CASE c = "canary1" -> {"weekend", "http"}
       [] c = "canary2" -> {"weekend", "structure"}
       [] c \in First3 -> {"accepted", "short"}
       [] OTHER -> {"accepted"}]

MCMaxFree == [v1 |-> 2, v2 |-> 1]

Symmetry == Permutations(Runners) \cup Permutations({a3, b3})
=============================================================================
