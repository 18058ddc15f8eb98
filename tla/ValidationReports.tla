--------------------------- MODULE ValidationReports ---------------------------
(***************************************************************************)
(* The reports drawn from the verified rows (validation_reports.py), and   *)
(* the reconciliation of rows and reports (validation_reconciliation.py,   *)
(* validation_reconciliation_checkpoints.py,                               *)
(* validation_reconciliation_metrics.py), which recomputes the reports     *)
(* from the stored rows with arithmetic of its own and replays no price.   *)
(*                                                                         *)
(* A value that may be missing is a sequence of at most one element.       *)
(* Amounts are exact, so the bound on the rounding of sums is zero.  The   *)
(* opening-range strategies, whose reports name a comparator of their own, *)
(* are left out: the comparator of an overlay is its baseline.             *)
(***************************************************************************)
EXTENDS ValidationReplay, ValidationForecast

CONSTANTS
    WeekLength,   \* intervals of an ISO week
    MonthLength,  \* intervals of a month
    HalfAt,       \* DEVELOPMENT_SPLIT
    LowerTail,         \* one of how many weekly values is the lower tail
    Currencies,   \* of each instrument
    Registered    \* the registered minimums

Missing == <<>>
positive(value) == IF value = Missing THEN Missing ELSE <<value[1] > 0>>

iso_week(t) == t \div WeekLength
month(t) == t \div MonthLength
Weeks(t) == iso_week(t.entered)..iso_week(t.exited)

\* The weeks that no trade links to the week before.
effective_weeks(T) ==
    Cardinality({w \in UNION {Weeks(t) : t \in T} : ~\E t \in T : {w - 1, w} \subseteq Weeks(t)})

Net(T) == MapThenSumSet(LAMBDA t : t.net, T)
Amount(T) == IF T = {} THEN Missing ELSE <<Net(T)>>
Holding(T) == MapThenSumSet(LAMBDA t : t.exited - t.entered, T)

\* The net of each group of trades.
ByLabel(T, Label(_)) == [g \in {Label(t) : t \in T} |-> Net({t \in T : Label(t) = g})]
WeekOf(t) == iso_week(t.exited)
MonthOf(t) == month(t.exited)
PairOf(t) == t.pair
SideOf(t) == t.side

Largest(groups) == Max(Range(groups))
Concentration(groups) ==
    LET total == MapThenSumSet(LAMBDA g : Magnitude(groups[g]), DOMAIN groups)
    IN IF total = 0 THEN Missing ELSE <<[of |-> Max({Magnitude(groups[g]) : g \in DOMAIN groups}), total |-> total]>>

Position(pair) == CHOOSE i \in DOMAIN Pairs : Pairs[i] = pair
ByExit(t, u) == t.exited < u.exited \/ (t.exited = u.exited /\ Position(t.pair) < Position(u.pair))
ByEntry(t, u) == t.entered < u.entered \/ (t.entered = u.entered /\ Position(t.pair) < Position(u.pair))

Drawdown(T) ==
    FoldLeft(LAMBDA acc, t :
               LET equity == acc.equity + t.net
                   peak == Max({acc.peak, equity})
               IN [equity |-> equity, peak |-> peak, drawdown |-> Max({acc.drawdown, peak - equity})],
             [equity |-> 0, peak |-> 0, drawdown |-> 0], SetToSortSeq(T, ByExit)).drawdown

\* The most positions open at once, and the pairs of them that share a currency.
Concurrency(T) ==
    FoldLeft(LAMBDA acc, t :
               LET pending == {p \in acc.pending : p.exited > t.entered}
               IN [pending |-> pending \cup {t}, peak |-> Max({acc.peak, Cardinality(pending) + 1}),
                   overlaps |-> acc.overlaps
                     + Cardinality({p \in pending : Currencies[p.pair] \cap Currencies[t.pair] # {}})],
             [pending |-> {}, peak |-> 0, overlaps |-> 0], SetToSortSeq(T, ByEntry))

WeeklyValues(weekly) ==
    LET weeks == SetToSortSeq(DOMAIN weekly, LAMBDA v, w : weekly[v] < weekly[w])
    IN [i \in DOMAIN weeks |-> weekly[weeks[i]]]

OutcomeStates == {"modeled", "unavailable", "occupied", "no_setup"}
\* How often each value occurs along rows.
Counted(S, Of(_)) == [v \in {Of(i) : i \in S} |-> Cardinality({i \in S : Of(i) = v})]

\* Of the rows of several chains, one after another.
summarize(rows, sc) ==
    LET result(i) == rows[i].scenarios[sc]
        of(state) == {i \in DOMAIN rows : result(i).state = state}
        T == {[at |-> rows[i].at, pair |-> rows[i].chain[2], entered |-> result(i).entered,
               exited |-> result(i).exited, net |-> result(i).net, side |-> rows[i].decision.side,
               stratum |-> rows[i].stratum] : i \in of("modeled")}
        early == {t \in T : t.at < HalfAt}
        half(H) == [trades |-> Cardinality(H), weeks |-> effective_weeks(H), net |-> Amount(H)]
        weekly == ByLabel(T, WeekOf)
        strata(g) == {t \in T : g \in {t.side, t.stratum}}
        together == Concurrency(T)
    IN [planned |-> Len(rows), eligible |-> Len(rows) - Cardinality(of("unavailable")),
        states |-> [s \in OutcomeStates |-> Cardinality(of(s))],
        reasons |-> Counted(of("unavailable"), LAMBDA i : result(i).reason),
        trades |-> Cardinality(T), weeks |-> UNION {Weeks(t) : t \in T}, units |-> effective_weeks(T),
        usable |-> Cardinality({t.pair : t \in T}), net |-> Amount(T), holding |-> Holding(T),
        full |-> IF of("unavailable") # {} THEN Missing ELSE <<Net(T)>>,
        drawdown |-> IF T = {} THEN Missing ELSE <<Drawdown(T)>>,
        worst |-> IF T = {} THEN Missing ELSE <<Min(Range(weekly))>>,
        lower |-> IF T = {} THEN Missing
                  ELSE <<WeeklyValues(weekly)[((Cardinality(DOMAIN weekly) - 1) \div LowerTail) + 1]>>,
        weekly |-> weekly, sides |-> ByLabel(T, SideOf),
        concentration |-> [instrument |-> Concentration(ByLabel(T, PairOf)),
                           month |-> Concentration(ByLabel(T, MonthOf))],
        halves |-> <<half(early), half(T \ early)>>,
        without_pair |-> IF T = {} THEN Missing ELSE <<Net(T) - Largest(ByLabel(T, PairOf))>>,
        without_month |-> IF T = {} THEN Missing ELSE <<Net(T) - Largest(ByLabel(T, MonthOf))>>,
        peak |-> together.peak, overlaps |-> together.overlaps,
        strata |-> [g \in UNION {{t.side, t.stratum} : t \in T} |->
                      [trades |-> Cardinality(strata(g)), net |-> Net(strata(g))]],
        integrity_clean |-> FALSE]

-----------------------------------------------------------------------------
(* The overlays: paired views of the same opportunities.                   *)

overlay_result(overlay, row, r) ==
    LET risk == row.overlays[overlay]
    IN IF overlay = "macro" THEN unavailable(risk.reason)
       ELSE IF r.state # "modeled" THEN r
       ELSE IF risk.multiplier = NoFit THEN unavailable(risk.reason)
       ELSE IF risk.multiplier = 0 THEN Result("no_setup", "risk_paused_baseline_opportunity")
       ELSE [r EXCEPT !.net = (@ * risk.multiplier) \div Full]
overlay_rows(rows, overlay) ==
    [i \in DOMAIN rows |->
       [rows[i] EXCEPT !.scenarios = [sc \in Scenarios |->
          overlay_result(overlay, rows[i], rows[i].scenarios[sc])]]]

Settled == {"modeled", "no_setup"}
NetOf(r) == IF r.state = "modeled" THEN r.net ELSE 0

\* A candidate against its comparator, opportunity by opportunity.
paired_increment(candidate, comparator, sc) ==
    LET key(row) == <<row.chain[2], row.at>>
        index(rows) == [k \in {key(r) : r \in Range(rows)} |->
                          (CHOOSE r \in Range(rows) : key(r) = k).scenarios[sc]]
        left == index(candidate)
        right == index(comparator)
        both == DOMAIN left \cup DOMAIN right
        matched == {k \in DOMAIN left \cap DOMAIN right :
                      left[k].state \in Settled /\ right[k].state \in Settled}
        increment(K) == MapThenSumSet(LAMBDA k : NetOf(left[k]) - NetOf(right[k]), K)
    IN [matched |-> Cardinality(matched), unmatched |-> Cardinality(both \ matched),
        weekly |-> [w \in {iso_week(k[2]) : k \in matched} |->
                      increment({k \in matched : iso_week(k[2]) = w})],
        total |-> IF matched = {} THEN Missing ELSE <<increment(matched)>>]

-----------------------------------------------------------------------------
(* The gates and the proposal.  A gate is <<TRUE>>, <<FALSE>> or missing.  *)

Covered(summary) == <<summary.states["unavailable"] = 0>>
Concentrated(value) ==
    IF value = Missing THEN Missing
    ELSE <<100 * value[1].of <= Registered.concentration * value[1].total>>
AllMatched(paired) == <<\A sc \in Scenarios : paired[1][sc].unmatched = 0>>

Evidence == {"integrity_clean", "complete_opportunity_evidence", "minimum_weeks", "minimum_opportunities",
             "minimum_trades", "minimum_instruments", "half_1_weeks", "half_2_weeks"}

development_gates(summaries, paired) ==
    LET base == summaries["baseline"]
    IN [named |->
          [integrity_clean |-> <<base.integrity_clean>>,
           complete_opportunity_evidence |-> Covered(base),
           minimum_weeks |-> <<base.units >= Registered.weeks>>,
           minimum_opportunities |-> <<base.eligible >= Registered.opportunities>>,
           minimum_trades |-> <<base.trades >= Registered.trades>>,
           minimum_instruments |-> <<base.usable >= Registered.instruments>>,
           positive_without_best_instrument |-> positive(base.without_pair),
           positive_without_best_month |-> positive(base.without_month),
           half_1_weeks |-> <<base.halves[1].weeks >= Registered.half_weeks>>,
           half_2_weeks |-> <<base.halves[2].weeks >= Registered.half_weeks>>,
           half_1_positive |-> positive(base.halves[1].net),
           half_2_positive |-> positive(base.halves[2].net),
           instrument_not_concentrated |-> Concentrated(base.concentration.instrument),
           month_not_concentrated |-> Concentrated(base.concentration.month)],
        positive |-> [sc \in Scenarios |-> positive(summaries[sc].net)],
        complete |-> [sc \in Scenarios |-> Covered(summaries[sc])],
        paired |-> IF paired = Missing THEN {} ELSE {AllMatched(paired)}]

\* Evidence comes first: without a clean integrity claim nothing is decided.
development_proposal(gates) ==
    LET all == Range(gates.named) \cup Range(gates.positive) \cup Range(gates.complete) \cup gates.paired
    IN IF \/ \E g \in Evidence : gates.named[g] # <<TRUE>>
          \/ <<FALSE>> \in Range(gates.complete) \cup gates.paired
          \/ Missing \in all
       THEN "inconclusive"
       ELSE IF <<FALSE>> \in all THEN "reject" ELSE "candidate_for_independent_review"

-----------------------------------------------------------------------------
(* Which reports there are.                                                *)

NoBaseline == "none"
Population(pair) == IF pair = "aggregate" THEN Pairs ELSE <<pair>>

\* A report is asked for as <<view, instrument or "aggregate", baseline>>;
\* the requests of one source, in order.
Requested(source) ==
    LET view(v) == IF v = 1 THEN source ELSE OVERLAYS[v - 1]
        pair(j) == IF j <= Len(Pairs) THEN Pairs[j] ELSE "aggregate"
        each == Len(Pairs) + 1
        of(v, j) == <<view(v), pair(j), IF view(v) = source THEN NoBaseline ELSE source>>
    IN [i \in 1..((Len(OVERLAYS) + 1) * each) |-> of(((i - 1) \div each) + 1, ((i - 1) % each) + 1)]
Views(source) == Range(Requested(source))
Source(k) == IF k[3] = NoBaseline THEN k[1] ELSE k[3]

\* rows[pair] are the verified rows of the report's source.
ReportBody(k, rows) ==
    LET view(pair) == IF k[3] = NoBaseline THEN rows[pair] ELSE overlay_rows(rows[pair], k[1])
        all(of(_)) == FlattenSeq([i \in DOMAIN Population(k[2]) |-> of(Population(k[2])[i])])
        summaries == [sc \in Scenarios |-> summarize(all(view), sc)]
        paired == IF k[3] = NoBaseline THEN Missing
                  ELSE <<[sc \in Scenarios |-> paired_increment(all(view), all(LAMBDA p : rows[p]), sc)]>>
        gates == development_gates(summaries, paired)
    IN [key |-> k, scenarios |-> summaries, paired |-> paired, gates |-> gates,
        proposal |-> development_proposal(gates)]

\* The reference for reports: every one of them, from one pass.
Keys == UNION {Views(s) : s \in Strategies}
Verified(c, source) == [pair \in Range(Pairs) |-> WholePeriod(Market[c], <<source, pair>>)]
OnePass == [c \in DOMAIN Market |-> [k \in Keys |-> ReportBody(k, Verified(c, Source(k)))]]

-----------------------------------------------------------------------------
(* The reconciliation of the stored rows: occupancy.                       *)

\* Whether the stored result of a scenario fits the occupancy before its row.
ScanRow(active, row, sc) ==
    LET r == row.scenarios[sc]
    IN IF IsActive(active, sc, row.at) THEN r = Occupied
       ELSE IF ~IsSetup(row.decision) THEN r = row_reason(row.decision)
       ELSE /\ r.state \in {"modeled", "unavailable"}
            /\ r.state = "modeled" => row.at <= r.entered /\ r.entered < r.exited /\ r.exited <= End
ScanDay(rows, active) ==
    FoldLeft(LAMBDA acc, row :
               [ok |-> acc.ok /\ \A sc \in Scenarios : ScanRow(acc.active, row, sc),
                active |-> Reserved(acc.active, row.decision, row.at, row.scenarios)],
             [ok |-> TRUE, active |-> active], rows)

-----------------------------------------------------------------------------
(* The reconciliation of the reports with each other.                      *)

\* The gates, from the published summaries.
check_gates(body) == body.gates = development_gates(body.scenarios, body.paired)

check_population(k, body) ==
    /\ \A sc \in Scenarios :
         LET s == body.scenarios[sc]
         IN /\ s.planned = EndDay * DayLength * Len(Population(k[2]))
            /\ MapThenSumSet(LAMBDA x : s.states[x], DOMAIN s.states) = s.planned
            /\ s.trades = s.states["modeled"]
            /\ MapThenSumSet(LAMBDA x : s.reasons[x], DOMAIN s.reasons) = s.states["unavailable"]
            /\ s.eligible = s.planned - s.states["unavailable"]
            /\ s.states["unavailable"] # 0 => s.full = Missing
            /\ (s.net = Missing) <=> (s.trades = 0)
            /\ s.halves[1].trades + s.halves[2].trades = s.trades
            /\ ~s.integrity_clean
    /\ (body.paired = Missing) <=> (k[3] = NoBaseline)
    /\ body.proposal = "inconclusive" /\ body.gates.named.integrity_clean = <<FALSE>>
    /\ check_gates(body)

\* Group by group, the values that some of the leaves have add up.
AddUp(total, leaves) ==
    /\ DOMAIN total = UNION {DOMAIN leaves[p] : p \in DOMAIN leaves}
    /\ \A g \in DOMAIN total :
         total[g] = MapThenSumSet(LAMBDA p : leaves[p][g], {p \in DOMAIN leaves : g \in DOMAIN leaves[p]})
AmountsAddUp(total, leaves) ==
    LET known == {p \in DOMAIN leaves : leaves[p] # Missing}
    IN total = IF known = {} THEN Missing ELSE <<MapThenSumSet(LAMBDA p : leaves[p][1], known)>>

\* bodies[k] for the aggregate k and for its leaves.
check_aggregates(k, bodies) ==
    \A sc \in Scenarios :
      LET P == Range(Pairs)
          total == bodies[k].scenarios[sc]
          leaf(p) == bodies[<<k[1], p, k[3]>>].scenarios[sc]
          each(Of(_)) == [p \in P |-> Of(leaf(p))]
          sum(Of(_)) == MapThenSumSet(LAMBDA p : Of(leaf(p)), P)
          paired(b) == b.paired[1][sc]
          part(p) == paired(bodies[<<k[1], p, k[3]>>])
      IN /\ total.planned = sum(LAMBDA s : s.planned)
         /\ total.eligible = sum(LAMBDA s : s.eligible)
         /\ total.trades = sum(LAMBDA s : s.trades)
         /\ total.holding = sum(LAMBDA s : s.holding)
         /\ total.usable = sum(LAMBDA s : s.usable)
         /\ AddUp(total.states, each(LAMBDA s : s.states))
         /\ AddUp(total.reasons, each(LAMBDA s : s.reasons))
         /\ total.weeks = UNION {leaf(p).weeks : p \in P}
         /\ AmountsAddUp(total.net, each(LAMBDA s : s.net))
         /\ AddUp(total.weekly, each(LAMBDA s : s.weekly))
         /\ AddUp(total.sides, each(LAMBDA s : s.sides))
         /\ \A h \in 1..2 :
              /\ total.halves[h].trades = sum(LAMBDA s : s.halves[h].trades)
              /\ AmountsAddUp(total.halves[h].net, each(LAMBDA s : s.halves[h].net))
         /\ bodies[k].paired # Missing =>
              /\ paired(bodies[k]).matched = MapThenSumSet(LAMBDA p : part(p).matched, P)
              /\ paired(bodies[k]).unmatched = MapThenSumSet(LAMBDA p : part(p).unmatched, P)
              /\ AddUp(paired(bodies[k]).weekly, [p \in P |-> part(p).weekly])

-----------------------------------------------------------------------------
(* The reconciliation of the reports with the stored rows, whose arithmetic*)
(* shares nothing with the reports'.                                       *)

\* A stored result as an overlay sees it.
Current(row, k, sc) ==
    LET raw == row.scenarios[sc]
        risk == row.overlays[k[1]]
    IN IF k[3] = NoBaseline THEN raw
       ELSE IF k[1] = "macro" \/ (raw.state = "modeled" /\ risk.multiplier = NoFit)
       THEN [state |-> "unavailable", reason |-> risk.reason]
       ELSE IF raw.state # "modeled" THEN raw
       ELSE IF risk.multiplier = 0 THEN [state |-> "no_setup"]
       ELSE [state |-> "modeled", net |-> (raw.net * risk.multiplier) \div Full]

\* Every stored row is counted once, and paired once with its baseline.
check_populations(k, body, rows) ==
    \A sc \in Scenarios :
      LET R == UNION {Range(rows[p]) : p \in Range(Population(k[2]))}
          of(state) == {row \in R : Current(row, k, sc).state = state}
          settled == {row \in R : Current(row, k, sc).state \in Settled
                                    /\ row.scenarios[sc].state \in Settled}
          gain(S) == MapThenSumSet(LAMBDA row : NetOf(Current(row, k, sc)) - NetOf(row.scenarios[sc]), S)
      IN /\ body.scenarios[sc].states = [s \in OutcomeStates |-> Cardinality(of(s))]
         /\ body.scenarios[sc].reasons = Counted(of("unavailable"), LAMBDA row : Current(row, k, sc).reason)
         /\ body.paired # Missing =>
              LET actual == body.paired[1][sc]
              IN /\ actual.matched = Cardinality(settled)
                 /\ actual.unmatched = Cardinality(R) - actual.matched
                 /\ actual.weekly = [w \in {iso_week(row.at) : row \in settled} |->
                                       gain({row \in settled : iso_week(row.at) = w})]
                 /\ actual.total = IF settled = {} THEN Missing ELSE <<gain(settled)>>

\* The trades of a report in one scenario: the stored amounts times the stored
\* risk.
trade_views(k, rows, sc) ==
    LET multiplier(row) == IF k[3] = NoBaseline THEN Full ELSE row.overlays[k[1]].multiplier
        taken == {row \in UNION {Range(rows[p]) : p \in Range(Population(k[2]))} :
                    row.scenarios[sc].state = "modeled" /\ k[1] # "macro" /\ multiplier(row) > 0}
    IN {[at |-> row.at, pair |-> row.chain[2], entered |-> row.scenarios[sc].entered,
         exited |-> row.scenarios[sc].exited, side |-> row.decision.side, stratum |-> row.stratum,
         net |-> (row.scenarios[sc].net * multiplier(row)) \div Full] : row \in taken}

\* The groups of weeks that trades link, one trade after another.
dependence(T) ==
    FoldLeft(LAMBDA components, t :
               LET linked == {c \in components : c \cap Weeks(t) # {}}
               IN (components \ linked) \cup {UNION linked \cup Weeks(t)},
             {}, SetToSeq(T))

\* The trades of T up to t, in an order.
UpTo(T, t, Before(_, _)) == {u \in T : u = t \/ Before(u, t)}
Equity(T, t) == Net(UpTo(T, t, ByExit))
Highest(T, t) == Max({0} \cup {Equity(T, u) : u \in UpTo(T, t, ByExit)})
OpenAt(T, t) == {u \in UpTo(T, t, ByEntry) : u.exited > t.entered}
Shares(u, t) == Currencies[u.pair] \cap Currencies[t.pair] # {}

check_metrics(k, body, rows) ==
    \A sc \in Scenarios :
      LET T == trade_views(k, rows, sc)
          s == body.scenarios[sc]
          groups == dependence(T)
          sorted == WeeklyValues(s.weekly)
          half(H) == [trades |-> Cardinality(H), weeks |-> Cardinality(dependence(H)),
                      net |-> IF H = {} THEN Missing ELSE <<Net(H)>>]
      IN /\ Cardinality(T) = s.trades /\ Holding(T) = s.holding
         /\ Cardinality(groups) = s.units /\ UNION groups = s.weeks
         /\ T # {} =>
              /\ s.net = <<Net(T)>> /\ Cardinality({t.pair : t \in T}) = s.usable
              /\ s.weekly = ByLabel(T, WeekOf) /\ s.sides = ByLabel(T, SideOf)
              /\ s.worst = <<sorted[1]>> /\ s.lower = <<sorted[((Len(sorted) - 1) \div LowerTail) + 1]>>
              /\ s.concentration = [instrument |-> Concentration(ByLabel(T, PairOf)),
                                    month |-> Concentration(ByLabel(T, MonthOf))]
              /\ s.without_pair = <<Min({Net({u \in T : PairOf(u) # PairOf(t)}) : t \in T})>>
              /\ s.without_month = <<Min({Net({u \in T : MonthOf(u) # MonthOf(t)}) : t \in T})>>
              /\ DOMAIN s.strata = {t.side : t \in T} \cup {t.stratum : t \in T}
              /\ \A g \in DOMAIN s.strata :
                   LET selected == {t \in T : g \in {t.side, t.stratum}}
                   IN s.strata[g] = [trades |-> Cardinality(selected), net |-> Net(selected)]
              /\ s.halves = <<half({t \in T : t.at < HalfAt}), half({t \in T : t.at >= HalfAt})>>
              \* One baseline holds one position per pair, so no two trades tie.
              /\ Cardinality({<<t.exited, t.pair>> : t \in T}) = s.trades
              /\ s.drawdown = <<Max({Highest(T, t) - Equity(T, t) : t \in T})>>
              /\ s.peak = Max({Cardinality(OpenAt(T, t)) : t \in T})
              /\ s.overlaps = MapThenSumSet(LAMBDA t : Cardinality({u \in OpenAt(T, t) \ {t} : Shares(u, t)}), T)

\* The reconciliation of all the reports of a strategy with its stored rows.
Reconciled ==
    [c \in DOMAIN Market |-> [s \in Strategies |->
       \A k \in Views(s) :
         /\ check_population(k, OnePass[c][k])
         /\ k[2] = "aggregate" => check_aggregates(k, OnePass[c])
         /\ check_populations(k, OnePass[c][k], Verified(c, s))
         /\ check_metrics(k, OnePass[c][k], Verified(c, s))]]
=============================================================================
