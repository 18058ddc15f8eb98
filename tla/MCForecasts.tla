---------------------------- MODULE MCForecasts ----------------------------
(***************************************************************************)
(* Forecasts on three sessions of two ticks each.  Every plan starts from  *)
(* a reachable state and opens some of the features, so that their         *)
(* products stay small.                                                    *)
(***************************************************************************)
EXTENDS Forecasts

Interchangeable == Permutations(Workers)

MCDays == 1..3
MCSession == 2
MCHorizon == 1
MCMacroHorizon == 2
MCPrice == <<100, 110, 100>>
MCEwma == <<95, 105, 105>>
MCBands == <<5, 8, 20, 20>>
MCProbabilities == [up |-> <<50, 30, 20>>, neutral |-> <<25, 50, 25>>, down |-> <<20, 30, 50>>]
Buy == [action |-> "buy", p |-> <<90, 5, 5>>]
MCOffers == {Buy, [action |-> "abstain", p |-> <<20, 60, 20>>]}
MCConfigs == [method : {1, 2}, policy : {1, 2}]
MCPolicy == [raw |-> 1, days |-> 1, clusters |-> 1, coverage |-> 50, calibration |-> 60]
MCWidth == <<1000, 500>>
MCWeek == <<1, 1, 2>>

One == [method |-> 1, policy |-> 1]
Two == [method |-> 2, policy |-> 1]
Later == [method |-> 1, policy |-> 2]
Champion(c, starts, last) ==
  [kind |-> "champion", method |-> c.method, policy |-> c.policy, starts |-> starts,
   supersedes |-> last, champion |-> None]
Target == [cutoff |-> 2, registered |-> 2, issued |-> 2, res |-> NoRes, ctl |-> NoRes, macro |-> NoRes]
Rec(at, snapshot, method, es) ==
  [at |-> at, target |-> <<1, 1>>, offer |-> Buy, snapshot |-> snapshot, method |-> method,
   eras |-> es, res |-> NoRes, facts |-> <<>>]

Paid(method, snapshot) ==
  [pc |-> "paid", at |-> 3, target |-> <<1, 1>>, method |-> method, snapshot |-> snapshot]

\* Nothing is stored; the first session is complete and a champion may start.
Empty == [now |-> 2, candles |-> <<0, 0, 0>>, tech |-> <<<<>>, <<>>, <<>>>>, targets |-> <<>>,
          recs |-> <<>>, config |-> One, eras |-> <<>>, gen |-> NoGen, authorized |-> FALSE]
\* The first session's target and control exist and the champion has started.
Issued == [Empty EXCEPT !.candles = <<2, 0, 0>>, !.tech = <<<<2>>, <<>>, <<>>>>,
                        !.targets = (<<1, 1>> :> Target),
                        !.eras = <<Champion(One, 2, None)>>]
\* The second session's candle is stored, with one recommendation issued and
\* another still being paid for.
InFlight == [Issued EXCEPT !.now = 4, !.candles = <<2, 4, 0>>, !.tech = <<<<2>>, <<4>>, <<>>>>,
                           !.recs = <<Rec(2, 1, 1, {1})>>, !.gen = Paid(1, 2)]
\* Two recommendations of different issuances, and two of one issuance.
Ripe == [InFlight EXCEPT !.recs = <<Rec(2, 1, 1, {1}), Rec(3, 2, 1, {1})>>, !.gen = NoGen]
Twins == [Ripe EXCEPT !.recs = <<Rec(2, 1, 1, {1}), Rec(2, 2, 1, {1})>>]
\* A sample of the champion, then the challenger's method made champion too,
\* with one sample stored and another being paid for.
Challenged ==
  [InFlight EXCEPT
     !.recs = <<[Rec(2, 1, 1, {1}) EXCEPT !.offer.p = <<50, 30, 20>>], Rec(2, 2, 2, {2, 3})>>,
     !.gen = Paid(2, 3), !.authorized = TRUE, !.config = Two,
     !.eras = <<Champion(One, 2, None),
                [kind |-> "challenger", method |-> 2, policy |-> 1, starts |-> 2,
                 supersedes |-> None, champion |-> 1],
                Champion(Two, 2, 1)>>]

\* One recommendation, already resolved with its target and its control.
Up == [outcome |-> "up", at |-> 4, end |-> 2]
Settled == [InFlight EXCEPT !.targets = (<<1, 1>> :> [Target EXCEPT !.res = Up, !.ctl = Up]),
                            !.recs = <<[Rec(2, 1, 1, {1}) EXCEPT !.res = Up]>>, !.gen = NoGen]

Base == [start |-> Issued, until |-> 6, arrivals |-> {}, programs |-> {}, passes |-> 0,
         concurrent |-> 2, gens |-> 0, snapshots |-> {1}, offers |-> {Buy}, facts |-> 0,
         terminals |-> {"target_hit"}, eras |-> 0, configs |-> {}, decisions |-> {},
         baselines |-> FALSE, interpret |-> FALSE, failures |-> FALSE, deaths |-> FALSE]

MCPlans ==
  { \* targets and outcomes while candles arrive late, out of order or never
    [Base EXCEPT !.start = Empty, !.arrivals = MCDays, !.eras = 1, !.passes = 2, !.deaths = TRUE, !.until = 5,
                 !.programs = {"ingest_D", "reconcile"}],
    \* the same without an era: baselines only
    [Base EXCEPT !.start = Empty, !.arrivals = MCDays, !.passes = 3, !.baselines = TRUE,
                 !.programs = {"ingest_D"}],
    \* a generation in flight while candles arrive and outcomes are settled
    [Base EXCEPT !.arrivals = {2}, !.gens = 1, !.passes = 2, !.until = 5, !.deaths = TRUE,
                 !.programs = {"reconcile"}],
    [Base EXCEPT !.arrivals = {2}, !.gens = 1, !.passes = 2, !.until = 4,
                 !.programs = {"ingest_D", "reconcile"}],
    \* registrations and deployments around generations
    [Base EXCEPT !.start.authorized = TRUE, !.gens = 2, !.snapshots = {1, 2}, !.offers = MCOffers, !.eras = 3,
                 !.configs = {One, Two, Later}, !.until = 4],
    \* health while samples, facts and outcomes are stored
    [Base EXCEPT !.start = InFlight, !.passes = 3, !.facts = 1, !.until = 5,
                 !.programs = {"refresh_experiments", "reconcile"}],
    [Base EXCEPT !.start = InFlight, !.passes = 2, !.facts = 1, !.failures = TRUE, !.until = 5,
                 !.programs = {"refresh_experiments", "reconcile"}],
    \* a challenger judged on the targets it shares with its champion
    [Base EXCEPT !.start = Challenged, !.passes = 2, !.until = 5,
                 !.programs = {"resolve_forecasts", "refresh_experiments"},
                 !.decisions = {"reject", "promote", "continue"}],
    \* cohorts and corrections by two passes with stale times
    [Base EXCEPT !.start = Ripe, !.facts = 2, !.passes = 4, !.terminals = {"target_hit", "missing_data"},
                 !.programs = {"resolve_forecasts", "ingest_H1", "reassess"}],
    \* three passes, of which a correction with a stale time sees one fact only
    [Base EXCEPT !.start = Settled, !.facts = 3, !.passes = 5, !.concurrent = 3,
                 !.programs = {"ingest_H1", "reassess"}],
    \* interpretations of members of one and of two issuances
    [Base EXCEPT !.start = Ripe, !.facts = 1, !.passes = 2, !.interpret = TRUE, !.eras = 2,
                 !.until = 5, !.programs = {"resolve_forecasts", "build_postmortems"},
                 !.configs = {One, Two}],
    [Base EXCEPT !.start = Twins, !.facts = 1, !.passes = 3, !.interpret = TRUE, !.until = 5,
                 !.programs = {"resolve_forecasts", "build_postmortems"}] }
=============================================================================
