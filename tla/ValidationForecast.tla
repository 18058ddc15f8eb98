--------------------------- MODULE ValidationForecast ---------------------------
(***************************************************************************)
(* The daily forecasts (market/strategy/trend.py) and the exposure the     *)
(* validation maps them to (validation_batch.forecast_step): a forecast    *)
(* moves only when it leaves a band around the one before it, and every    *)
(* step charges the change from the persisted step before it.              *)
(*                                                                         *)
(* Daily[d] is what the completed daily bars up to the end of day d say:   *)
(* the raw value of each component, the volatility (0 when there is none), *)
(* the costs known, the cap of the units, the rate and the spread.  Values *)
(* lie on an integer grid, and units count in twentieths of the cap.       *)
(***************************************************************************)
EXTENDS Integers, Sequences, FiniteSetsExt, Functions, SequencesExt

CONSTANTS
    Daily,          \* the days and what their bars say
    SPEEDS,         \* the components of ewmac
    HORIZONS,       \* the components of breakout
    SealedFrom,     \* the end of the development period
    DailyScenarios  \* of execution

NoRaw == 0 - 1000
NoStep == <<>>
Magnitude(n) == IF n < 0 THEN 0 - n ELSE n

cap(value) == Max({0 - 20, Min({20, value})})

buffer(target, previous) ==
    IF Magnitude(target - previous) <= 1 THEN previous
    ELSE IF target > previous THEN target - 1 ELSE target + 1

\* Why a component takes no part in the mean, or "none".
exclusion(d, c, raw) ==
    IF raw = NoRaw THEN "warmup_or_zero_range"
    ELSE IF d.volatility = 0 THEN "volatility_unavailable"
    ELSE IF c \notin DOMAIN d.costs THEN "cost_unavailable"
    ELSE IF ~d.costs[c].ready THEN "cost_stale"
    ELSE IF 10 * d.costs[c].roundtrip > d.volatility THEN "unaffordable"
    ELSE "none"

\* The capped mean of the included components, and the buffered one.
combine(d, raw, previous) ==
    LET included == {c \in DOMAIN raw : exclusion(d, c, raw[c]) = "none"}
        value == cap(MapThenSumSet(LAMBDA c : cap(raw[c]), included) \div Cardinality(included))
    IN IF included = {} THEN NoStep
       ELSE <<[value |-> value, buffered |-> buffer(value, previous)]>>

ewmac(d, previous) ==
    combine(d, [c \in SPEEDS |-> IF d.contiguous /\ d.volatility # 0 THEN d.raw[c] ELSE NoRaw], previous)
breakout(d, previous) ==
    combine(d, [c \in HORIZONS |-> IF d.contiguous THEN d.raw[c] ELSE NoRaw], previous)

-----------------------------------------------------------------------------
Latency(q) == IF q.scenario = "extra_interval_latency" THEN 1 ELSE 0
Executes(q) == q.cutoff + Latency(q)

\* Why a step is refused: nothing is computed and the predecessor stands.
Refusal(q, previous) ==
    IF q.strategy \notin {"ewmac", "breakout"} \/ q.scenario \notin DailyScenarios
    THEN "forecast_mapping_attribution"
    ELSE IF q.lastbar # q.cutoff THEN "forecast_mapping_noncausal_bars"
    ELSE IF Executes(q) >= SealedFrom THEN "sealed_forecast_execution"
    ELSE IF /\ previous # NoStep
            /\ \/ previous[1].strategy # q.strategy \/ previous[1].scenario # q.scenario
               \/ previous[1].cutoff >= q.cutoff \/ previous[1].execute_at >= Executes(q)
    THEN "forecast_mapping_predecessor"
    ELSE "none"

Mapped(state, change) == [state |-> state, units_change |-> change]

\* The step's result and the state to persist.
forecast_step(q, previous) ==
    LET d == Daily[q.lastbar]
        prior == IF previous = NoStep THEN [buffered |-> 0, units |-> 0] ELSE previous[1]
        forecast == IF q.strategy = "ewmac" THEN ewmac(d, prior.buffered) ELSE breakout(d, prior.buffered)
        units == forecast[1].buffered * d.cap
    IN IF Refusal(q, previous) # "none"
       THEN [result |-> Mapped("refused", 0), state |-> previous]
       ELSE IF forecast = NoStep \/ d.volatility = 0 \/ d.rate <= 0 \/ d.spread <= 0
       THEN [result |-> Mapped("unavailable", 0), state |-> previous]
       ELSE [result |-> Mapped("mapped_exposure_not_execution", units - prior.units),
             state |-> <<[strategy |-> q.strategy, scenario |-> q.scenario, cutoff |-> q.cutoff,
                          execute_at |-> Executes(q), buffered |-> forecast[1].buffered,
                          units |-> units]>>]

-----------------------------------------------------------------------------
(* A run of steps, each from the state the one before it persisted.        *)

DailyRequests ==
    [strategy : {"ewmac", "breakout"}, scenario : DailyScenarios, cutoff : DOMAIN Daily,
     lastbar : DOMAIN Daily]

Carried(requests) ==
    FoldLeft(LAMBDA acc, q :
               LET step == forecast_step(q, acc.state)
               IN [state |-> step.state, charged |-> acc.charged + step.result.units_change,
                   steps |-> IF step.state = acc.state THEN acc.steps ELSE acc.steps \o step.state],
             [state |-> NoStep, charged |-> 0, steps |-> <<>>], requests)

\* The changes charged along any run of requests, refused and unavailable
\* ones among them, add up to the exposure held at its end; the steps belong
\* to one strategy and scenario, none is executed before the one before it or
\* in the sealed period (validation_batch.forecast_step).
ExposureAddsUp(requests) ==
    LET run == Carried(requests)
    IN /\ run.charged = IF run.state = NoStep THEN 0 ELSE run.state[1].units
       /\ \A i, j \in DOMAIN run.steps :
            /\ run.steps[i].strategy = run.steps[j].strategy
            /\ run.steps[i].scenario = run.steps[j].scenario
            /\ i < j => run.steps[i].execute_at < run.steps[j].execute_at
            /\ run.steps[i].execute_at < SealedFrom

\* The buffered forecast is the point of the band around the target that is
\* nearest to the previous one: it moves only as far as it must, and never
\* past the cap (trend.buffer).
BufferMovesLeast ==
    \A target, previous \in (0 - 20)..20 :
      /\ buffer(target, previous) \in (target - 1)..(target + 1) \cap (0 - 20)..20
      /\ \A x \in (target - 1)..(target + 1) :
           Magnitude(buffer(target, previous) - previous) <= Magnitude(x - previous)

ForecastsAreCarried ==
    /\ BufferMovesLeast
    /\ \A requests \in [1..3 -> {q \in DailyRequests : q.lastbar \in {q.cutoff, 1}}] :
         ExposureAddsUp(requests)
=============================================================================
