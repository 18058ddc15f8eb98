----------------------------- MODULE MCValidation -----------------------------
(* A small instance of Validation: two processes, a group of one tradable    *)
(* and one blocked strategy on two instruments, two days of three intervals, *)
(* and two markets whose setups overlap, run over a day's end, into gaps and *)
(* past the period.                                                          *)
EXTENDS Validation

Setup(at, exit, mult, net) == [entry |-> at, exit |-> exit, expires |-> at + 1, signal |-> at - 1,
                          available |-> at, multiplier |-> mult, net |-> net,
                          side |-> IF at % 2 = 0 THEN "long" ELSE "short",
                          stratum |-> IF at > 3 THEN "high" ELSE "other"]
Eur == <<"pullback", "eur">>
Usd == <<"pullback", "usd">>
McMarket ==
  << [series |-> (1..6) \ {5}, hits |-> {}, unfillable |-> {}, rolls |-> {}, conv |-> 1..7,
      setups |-> (<<Eur, 1>> :> Setup(1, 4, Full, 3)) @@ (<<Eur, 3>> :> Setup(3, 5, 0, 2))
                 @@ (<<Eur, 4>> :> Setup(4, 5, Full, 0 - 2)) @@ (<<Eur, 5>> :> Setup(5, 7, Full, 4))
                 @@ (<<Eur, 6>> :> Setup(6, 7, Full, 0 - 1))
                 @@ (<<Usd, 2>> :> Setup(2, 4, 1, 2)) @@ (<<Usd, 4>> :> Setup(4, 6, Full, 0 - 3))
                 @@ (<<Usd, 6>> :> Setup(6, 8, Full, 1))],
     [series |-> 1..6, hits |-> {3}, unfillable |-> {4}, rolls |-> {1}, conv |-> (1..7) \ {5},
      setups |-> (<<Eur, 2>> :> Setup(2, 6, NoFit, 0 - 1)) @@ (<<Eur, 4>> :> Setup(4, 7, Full, 2))
                 @@ (<<Eur, 6>> :> Setup(6, 7, Full, 3))
                 @@ (<<Usd, 1>> :> Setup(1, 3, 1, 0 - 2)) @@ (<<Usd, 3>> :> Setup(3, 5, Full, 4))
                 @@ (<<Usd, 5>> :> Setup(5, 7, 0, 1))] >>
McPairs == <<"eur", "usd">>
McOverlays == <<"ewma">>
McRegistered == [trades |-> 1, weeks |-> 1, opportunities |-> 2, instruments |-> 1, half_weeks |-> 1,
                 concentration |-> 90]
McCurrencies == [eur |-> {"EUR", "USD"}, usd |-> {"USD", "CAD"}]
McDaily ==
  << [contiguous |-> TRUE, raw |-> [f |-> 30, s |-> 0 - 4, h |-> 7], volatility |-> 20,
      costs |-> [f |-> [ready |-> TRUE, roundtrip |-> 1], h |-> [ready |-> TRUE, roundtrip |-> 2]],
      cap |-> 3, rate |-> 1, spread |-> 1],
     [contiguous |-> TRUE, raw |-> [f |-> 12, s |-> 0 - 9, h |-> 0 - 30], volatility |-> 10,
      costs |-> [f |-> [ready |-> TRUE, roundtrip |-> 1], s |-> [ready |-> TRUE, roundtrip |-> 1],
                 h |-> [ready |-> FALSE, roundtrip |-> 1]],
      cap |-> 2, rate |-> 1, spread |-> 1],
     [contiguous |-> TRUE, raw |-> [f |-> 19, s |-> 18, h |-> 8], volatility |-> 20,
      costs |-> [f |-> [ready |-> TRUE, roundtrip |-> 1], s |-> [ready |-> TRUE, roundtrip |-> 5],
                 h |-> [ready |-> TRUE, roundtrip |-> 1]],
      cap |-> 4, rate |-> 1, spread |-> 1],
     [contiguous |-> FALSE, raw |-> [f |-> 2, s |-> 2, h |-> 2], volatility |-> 20,
      costs |-> [f |-> [ready |-> TRUE, roundtrip |-> 1]], cap |-> 1, rate |-> 1, spread |-> 1] >>
McRequests == <<"w", "d", "s">>
McPeriod == [w |-> "warmup", d |-> "development", s |-> "sealed"]
McAcquired == [worker |-> {1}, manual |-> {2}]
McBatches == <<<<"pullback", "range">>>>

Symmetry == Permutations(Procs)
=============================================================================
