----------------------------- MODULE MCPortfolio -----------------------------
(* EUR_USD and GBP_USD.  The first two recommendations are buys, too much   *)
(* together for the USD leg they share; the third is a sell, on the other   *)
(* side of it, and does not fit the aggregate cap with the first.           *)
EXTENDS Portfolio

MCBase == <<"EUR", "GBP">>
MCQuote == <<"USD", "USD">>
MCAction == [r \in 1..MaxRecs |-> IF r = 3 THEN "sell" ELSE "buy"]
MCRisk == [r \in 1..MaxRecs |-> IF r = 2 THEN 1 ELSE 2]
=============================================================================
