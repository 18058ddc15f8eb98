-------------------------------- MODULE MCStudy --------------------------------
(* A small instance of Study: two processes, three fragile artifacts, and    *)
(* long and short events whose hours run over a weekend of the inventory.   *)
EXTENDS Study, TLC

CONSTANTS a, b

McFragile == {"dataset", "s0_outcome", "failure2"}

Bar(open, low, high) == [open |-> open, low |-> low, high |-> high]
Flat == Bar(10, 10, 10)
Event(dir, h1, conv, d, bars, close) ==
    [dir |-> dir, entry |-> 3, h1 |-> h1, conv |-> conv, d |-> d, spread |-> 1,
     bar |-> [s \in h1 |-> IF s \in DOMAIN bars THEN bars[s] ELSE Flat],
     close |-> [c \in d |-> IF c \in DOMAIN close THEN close[c] ELSE 10],
     stop |-> IF dir = "long" THEN 8 ELSE 13, target |-> IF dir = "long" THEN 14 ELSE 7,
     swing |-> IF dir = "long" THEN 9 ELSE 12]

Weekend == (0..11) \ {7, 8}
At(s, bar) == s :> bar
Calm == At(3, Flat)
NoClose == [c \in {} |-> 0]
McCohorts ==
    {Event("long", 0..11, 0..11, {4, 6, 8, 10}, bars, NoClose) :
        bars \in {Calm, At(5, Bar(10, 7, 15)), At(5, Bar(15, 12, 15))}}
    \cup {Event("short", Weekend, Weekend, {4, 6, 10}, bars, NoClose) :
        bars \in {At(5, Bar(14, 13, 15)), At(5, Bar(10, 5, 11))}}
    \cup {Event("long", Weekend, 0..11, {4, 6, 10}, Calm, 4 :> 5),
          Event("long", (0..11) \ {4}, 0..11, {4, 6, 10}, Calm, 4 :> 5),
          Event("long", 0..11, 3..11, {4, 6}, Calm, NoClose),
          Event("long", 0..5, 0..11, {4, 6}, Calm, NoClose)}

Symmetry == Permutations(Procs)
=============================================================================
