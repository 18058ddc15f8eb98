----------------------------- MODULE MCFailedBreak -----------------------------
(* A small instance of FailedBreak: ten hours, five days, two weeks, in a  *)
(* rising and in a falling market.                                         *)
EXTENDS FailedBreak

Bar(open, low, high, close, spread) ==
    [open |-> open, low |-> low, high |-> high, close |-> close, spread |-> spread]
McQuiet == Bar(10, 10, 11, 10, 0)
SweepDown == Bar(10, 6, 11, 10, 3)   \* through a support at 8 and back
Up == Bar(10, 10, 13, 12, 1)
SweepUp == Bar(16, 15, 19, 16, 0)    \* through a resistance at 17 and back
Drop == Bar(16, 13, 17, 14, 0)

Day(low, high, close, bias) == [low |-> low, high |-> high, close |-> close, bias |-> bias]
Calm(bias) == Day(9, 16, 10, bias)
Wider(bias) == Day(8, 17, 10, bias)
Warm3(bias) == [t \in 1..3 |-> IF t = 2 THEN Wider(bias) ELSE Calm(bias)]

McWBars == {[low |-> 8, high |-> 17]}
McWarmH1 == [t \in 1..3 |-> McQuiet]
McWarmW == [t \in {2} |-> [low |-> 8, high |-> 17]]

Inventory(H1, fx, hours, days, warm) ==
    [H1 |-> H1, D |-> {1, 2, 3, 6, 8}, W |-> {2, 8}, fx |-> fx,
     hours |-> hours, days |-> days, warm |-> warm]
Rising(H1, fx) ==
    Inventory(H1, fx, {McQuiet, SweepDown, Up},
              {Calm("bullish"), Day(8, 20, 20, "bullish"), Day(5, 12, 5, "bullish")}, Warm3("bullish"))
Falling(H1) ==
    Inventory(H1, {}, {McQuiet, SweepUp, Drop},
              {Calm("bearish"), Day(12, 20, 20, "bearish"), Wider("neutral")}, Warm3("bearish"))
McInventories ==
    {Rising(1..10, {1}), Rising(1..10, {1, 6}), Rising((1..10) \ {6}, {2}),
     Rising((1..10) \ {5}, {1, 3}), Falling(1..10), Falling((1..10) \ {6})}
McGaps == {NoGap, <<"H1", 6>>, <<"D", 6>>, <<"W", 8>>, <<"D", 2>>}
=============================================================================
