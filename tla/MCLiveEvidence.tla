--------------------------- MODULE MCLiveEvidence ---------------------------
(* LiveEvidence instantiated for TLC: a daily series of two intervals that    *)
(* every snapshot reads, and an hourly one with a legacy candle.              *)
EXTENDS LiveEvidence

CONSTANTS p1, p2

MCSeries == <<"D", "H1">>
MCBase == {"D"}
MCLength == [D |-> 2, H1 |-> 1]
MCLegacy == {<<"H1", 1>>}
MCRefKinds == {"recommendation", "target"}
MCMirrored == {"recommendation"}

Offer(p, s, b) == [source |-> p, series |-> s, batch |-> b]
MCOffers ==
  {Offer(p1, "D", <<"D", 1>> :> "A"), Offer(p1, "D", <<"D", 1>> :> "B"),
   Offer(p1, "D", [i \in Of("D") |-> "A"]), Offer(p2, "D", <<"D", 1>> :> "A"),
   Offer(p2, "D", <<"D", 2>> :> "B"),
   Offer(p2, "H1", <<"H1", 1>> :> "B"), Offer(Fixture, "D", <<"D", 1>> :> "A"),
   Offer(Fixture, "D", <<"D", 1>> :> "B")}

Symmetry == Permutations(Workers)
=============================================================================
