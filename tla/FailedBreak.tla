------------------------------ MODULE FailedBreak ------------------------------
(***************************************************************************)
(* The two failed-break detectors of the research application, run side by *)
(* side over the same sealed candles of one instrument.                    *)
(*                                                                         *)
(* v1 (failed_break_detector.py) walks the hourly completions of the       *)
(* development window, recomputes every level from all admitted daily and  *)
(* weekly candles and writes rows as it goes.  v2 (failed_break_v2_s1.py)  *)
(* merges the three sealed inventories into one completion stream and      *)
(* updates its state incrementally.  Both then count what they found.      *)
(*                                                                         *)
(* Time is an hour number.  A candle is named by its granularity and the   *)
(* hour at which it completes; the H1 candle completing at t opened at     *)
(* t - 1.  Prices are integers; a zone is the central price +- ZoneHalf    *)
(* (the 15% ATR band of make_level), and the EMA/structure bias a daily    *)
(* candle leads to is a field of that candle.  The inventory and the place *)
(* of one conflicting candle are fixed at the start; prices are revealed   *)
(* candle by candle.                                                       *)
(***************************************************************************)
EXTENDS Integers, FiniteSets, Sequences, SequencesExt, FiniteSetsExt

CONSTANTS
    LastHour,        \* last hour of the dataset
    DevStart, DevEnd,\* development window: DevStart <= completion < DevEnd
    Inventories,     \* sealed completion hours per granularity; fx: the first
                     \* completions of the legs of the CAD route; hours, days:
                     \* the H1 and D candles that may be revealed; warm: the D
                     \* candles completed before DevStart
    Gaps,            \* conflicting candles: <<granularity, hour>> or NoGap
    WBars,           \* W candles that may be revealed in development
    Quiet,           \* the H1 bar that never counts against Noise
    Noise,           \* bound on the other H1 bars of a run
    WarmH1, WarmW,   \* candles completed before DevStart, by hour
    ZoneHalf, AtrWarmup, PivotWing, BreakoutWindow, SessionLife, WeekLength,
    HorizonSessions, \* D completions an admitted entry must be followed by
    SpreadCeiling, OffSession

NoGap == <<"none", 0>>
None == 0            \* "no time" (Python None)

VARIABLES
    inv,      \* [H1, D, W, fx -> set of hours]
    gap,      \* the conflicting candle, or NoGap
    h1, d, w, \* the candles revealed so far, by completion hour
    now,      \* the last completion hour processed
    v1, v2,   \* the two detectors
    phase,    \* "stream", "batch", "counted", "rerun", "replayed"
    first     \* what v1 had stored when it was run again

vars == <<inv, gap, h1, d, w, now, v1, v2, phase, first>>

-----------------------------------------------------------------------------
(* Levels *)

Sorted(S) == SetToSortSeq(S, <)
MinOr(S, default) == IF S = {} THEN default ELSE Min(S)
MaxOr(S, default) == IF S = {} THEN default ELSE Max(S)

Family(l) == CASE l.kind \in {"weekly-low", "weekly-high"} -> "WEEKLY"
               [] l.kind \in {"swing-low", "swing-high"} -> "SWING"
               [] OTHER -> "BREAKOUT"

Key(l) == <<l.kind, l.source, l.flips>>

(* make_level: the zone is the central price widened by the ATR band. *)
MakeLevel(kind, role, price, activated, source, expires, sessions) ==
    [kind |-> kind, role |-> role, price |-> price,
     lower |-> price - ZoneHalf, upper |-> price + ZoneHalf,
     activated |-> activated, source |-> source, flips |-> <<>>,
     expires |-> expires, sessions |-> sessions,
     state |-> "active", at |-> None]

(* flip_level: the opposite role, from the activating daily completion on. *)
FlipLevel(l, at) ==
    [l EXCEPT !.role = IF l.role = "support" THEN "resistance" ELSE "support",
              !.activated = at, !.flips = Append(l.flips, at),
              !.state = "active", !.at = None]

(* daily_pivots: a strict extreme among PivotWing candles on either side,  *)
(* available when the last of them completes.                              *)
Pivots(days) ==
    LET s == Sorted(days)
        Peers(i) == ((i - PivotWing)..(i + PivotWing)) \ {i}
        Centers == (PivotWing + 1)..(Len(s) - PivotWing)
        P(i, kind) == [at |-> s[i], available |-> s[i + PivotWing], kind |-> kind,
                       price |-> IF kind = "high" THEN d[s[i]].high ELSE d[s[i]].low]
    IN  {P(i, "high") : i \in {j \in Centers : \A k \in Peers(j) : d[s[j]].high > d[s[k]].high}}
        \cup {P(i, "low") : i \in {j \in Centers : \A k \in Peers(j) : d[s[j]].low < d[s[k]].low}}

(* atr14: no ATR before AtrWarmup daily candles have completed. *)
AtrAt(days, t) == Cardinality({x \in days : x <= t}) >= AtrWarmup

SwingLevels(pivots, days) ==
    {MakeLevel(IF p.kind = "high" THEN "swing-high" ELSE "swing-low",
               IF p.kind = "high" THEN "resistance" ELSE "support",
               p.price, p.available, p.at, None, None) :
        p \in {q \in pivots : AtrAt(days, q.available)}}

(* breakout_flip_levels: a close beyond the previous BreakoutWindow days. *)
BreakoutLevels(days) ==
    LET s == Sorted(days)
        Prior(i) == {s[k] : k \in (i - BreakoutWindow)..(i - 1)}
        Cand == {i \in (BreakoutWindow + 1)..Len(s) : AtrAt(days, s[i])}
        High(i) == Max({d[x].high : x \in Prior(i)})
        Low(i) == Min({d[x].low : x \in Prior(i)})
    IN  {MakeLevel("breakout-high", "support", High(i), s[i], s[i], None, SessionLife) :
            i \in {j \in Cand : d[s[j]].close > High(j)}}
        \cup
        {MakeLevel("breakout-low", "resistance", Low(i), s[i], s[i], None, SessionLife) :
            i \in {j \in Cand : d[s[j]].close < Low(j)}}

WeeklyLevels(t, expires) ==
    {MakeLevel("weekly-low", "support", w[t].low, t, t, expires, None),
     MakeLevel("weekly-high", "resistance", w[t].high, t, t, expires, None)}

(* daily_swing_superseded_at: the activation of the next pivot of the same *)
(* kind; a flipped level keeps its pivot's source.                         *)
SupersededAt(l, levels) ==
    IF Family(l) # "SWING" THEN None
    ELSE MinOr({m.activated : m \in {x \in levels : x.kind = l.kind /\ x.source > l.source}}, None)

Crossed(l, t) == IF l.role = "support" THEN d[t].close < l.price ELSE d[t].close > l.price
Broken(l, t) == IF l.role = "support" THEN d[t].close < l.lower ELSE d[t].close > l.upper

(* evaluate_level: the first terminal event of a level on the days so far. *)
EvaluateLevel(l, days, asOf, superseded) ==
    LET done == Sorted({t \in days : t <= asOf /\ t >= l.activated})
        Event(i) ==
            LET t == done[i] IN
            IF l.expires # None /\ l.expires <= t THEN <<"expired", l.expires>>
            ELSE IF l.sessions # None /\ i - 1 >= l.sessions THEN <<"expired", t>>
            ELSE IF Family(l) # "BREAKOUT" /\ Crossed(l, t) THEN <<"superseded_by_flip", t>>
            ELSE IF Broken(l, t) THEN <<"invalidated", t>>
            ELSE <<"active", None>>
        hits == {i \in 1..Len(done) : Event(i)[1] # "active"}
    IN  IF superseded # None /\ superseded <= asOf THEN <<"superseded", superseded>>
        ELSE IF hits # {} THEN Event(Min(hits))
        ELSE IF l.expires # None /\ l.expires <= asOf THEN <<"expired", l.expires>>
        ELSE <<"active", None>>

(* One pass of _persist_material_levels over the active levels; a flipped  *)
(* level joins the list and is judged in the next pass.                    *)
LevelPass(levels, days, asOf) ==
    LET Judge(l) == IF l.state # "active" THEN <<"active", None>>
                    ELSE EvaluateLevel(l, days, asOf, SupersededAt(l, levels))
        Ended(l) == Judge(l)[1] # "active"
    IN  {IF Ended(l) THEN [l EXCEPT !.state = Judge(l)[1], !.at = Judge(l)[2]] ELSE l : l \in levels}
        \cup {FlipLevel(l, Judge(l)[2]) : l \in {m \in levels : Judge(m)[1] = "superseded_by_flip"}}

(* The while-added loop: a level flips at most once per daily candle. *)
PersistMaterialLevels(levels, days, asOf) ==
    FoldLeft(LAMBDA acc, i : LevelPass(acc, days, asOf), levels,
             [i \in 1..(Cardinality(days) + 1) |-> i])

Active(levels) == {l \in levels : l.state = "active"}

(* _material_level_specs: every level the admitted candles define.  The    *)
(* v1 weekly expiry is the calendar's next weekly completion.              *)
MaterialLevels(weeks, days) ==
    SwingLevels(Pivots(days), days) \cup BreakoutLevels(days)
        \cup UNION {WeeklyLevels(t, t + WeekLength) : t \in {x \in weeks : AtrAt(days, x)}}

(* _merge_material_specs: only keys not known yet are added. *)
MergeLevels(levels, specs) ==
    levels \cup {l \in specs : \A m \in levels : Key(m) # Key(l)}

(* supporting_swing: the last available pivot on the side of the bias. *)
SupportingSwing(pivots, bias, t) ==
    LET kind == CASE bias = "bullish" -> "low" [] bias = "bearish" -> "high" [] OTHER -> "none"
        S == {p \in pivots : p.kind = kind /\ p.available <= t}
    IN  IF S = {} THEN None ELSE (CHOOSE p \in S : \A q \in S : q.available <= p.available).price

-----------------------------------------------------------------------------
(* Sweeps, confirmation, entry *)

(* detect_failed_sweep: the candle pierces a zone and closes back.         *)
FailedSweep(prev, t, levels, bias, swing) ==
    LET eligible == {l \in levels : l.activated <= t - 1}
        long == {l \in eligible : /\ l.role = "support"
                                  /\ h1[prev].close >= l.lower
                                  /\ h1[t].low < l.lower /\ h1[t].close >= l.lower}
        short == {l \in eligible : /\ l.role = "resistance"
                                   /\ h1[prev].close <= l.upper
                                   /\ h1[t].high > l.upper /\ h1[t].close <= l.upper}
        hit == IF bias = "bullish" THEN long ELSE IF bias = "bearish" THEN short ELSE {}
    IN  {[at |-> t, side |-> IF bias = "bullish" THEN "long" ELSE "short",
          keys |-> {Key(l) : l \in hit}, families |-> {Family(l) : l \in hit},
          threshold |-> IF bias = "bullish" THEN h1[t].high ELSE h1[t].low,
          extreme |-> IF bias = "bullish" THEN h1[t].low ELSE h1[t].high,
          swing |-> swing] : x \in IF hit = {} THEN {} ELSE {1}}

Successors(t) == {x \in inv.H1 : x - 1 >= t}
FirstOf(S, n) == {x \in S : Cardinality({y \in S : y < x}) < n}

Beyond(setup, t, price) ==
    IF setup.side = "long" THEN d[t].close < price ELSE d[t].close > price

(* confirm_sweep without the choice of the supporting swing.               *)
Resolve(setup, seen, days, asOf, inactive, Support(_)) ==
    LET window == {x \in FirstOf(Successors(setup.at), 3) : x <= asOf}
        missing == {x \in window : x \notin seen}
        following == IF missing = {} THEN window ELSE {x \in window : x < Min(missing)}
        after == {t \in days : t > setup.at /\ t <= asOf}
        breached(c) == {t \in after : t <= c /\ Beyond(setup, t, setup.swing)}
        lapsed(c) == \A k \in setup.keys : inactive[k] # None /\ inactive[k] <= c
        confirms(c) == IF setup.side = "long" THEN h1[c].close > setup.threshold
                       ELSE h1[c].close < setup.threshold
        decided == {c \in following : lapsed(c) \/ breached(c) # {} \/ confirms(c)}
        end == IF Cardinality(following) = 3 THEN Max(following) ELSE asOf
    IN  IF decided # {} THEN
            LET c == Min(decided) IN
            IF lapsed(c) THEN [to |-> "INVALIDATED", at |-> Max({inactive[k] : k \in setup.keys}), support |-> None]
            ELSE IF breached(c) # {} THEN [to |-> "INVALIDATED", at |-> Min(breached(c)), support |-> None]
            ELSE [to |-> "CONFIRMED", at |-> c, support |-> Support(c)]
        ELSE IF missing # {} THEN [to |-> "CANCELLED_DATA_QUALITY", at |-> Min(missing), support |-> None]
        ELSE IF breached(end) # {} THEN [to |-> "INVALIDATED", at |-> Min(breached(end)), support |-> None]
        ELSE IF Cardinality(following) = 3 THEN [to |-> "EXPIRED", at |-> Max(following), support |-> None]
        ELSE [to |-> "TRIGGER_PENDING", at |-> None, support |-> None]

(* The newest pivot not closed through since it became available: v1 only  *)
(* looks at the days after the sweep, v2 at the whole life of the pivot.   *)
ValidSupport(setup, pivots, days, c) ==
    LET kind == IF setup.side = "long" THEN "low" ELSE "high"
        S == {p \in pivots : /\ p.kind = kind /\ p.available <= c
                             /\ ~\E t \in days : /\ p.available < t /\ t <= c
                                                 /\ Beyond(setup, t, p.price)}
    IN  IF S = {} THEN setup.swing
        ELSE (CHOOSE p \in S : \A q \in S : q.available <= p.available).price

ConfirmSweep(setup, seen, days, asOf, inactive, pivots) ==
    Resolve(setup, seen, days, asOf, inactive,
            LAMBDA c : ValidSupport(setup, pivots, {t \in days : t > setup.at}, c))

ConfirmSweepV2(setup, seen, days, asOf, inactive, pivots) ==
    Resolve(setup, seen, days, asOf, inactive,
            LAMBDA c : ValidSupport(setup, pivots, days, c))

(* nearest_opposing_target: the closest active zone on the other side. *)
\* Mutant of OpposingTarget: ended levels are targets.
OpposingTarget_Ended(price, side, levels, asOf) ==
    LET choices == IF side = "long" THEN {l \in levels : l.role = "resistance" /\ l.lower > price}
                   ELSE {l \in levels : l.role = "support" /\ l.upper < price}
        Distance(l) == IF side = "long" THEN l.lower - price ELSE price - l.upper
    IN  {l \in choices : \A m \in choices : Distance(l) <= Distance(m)}

OpposingTarget(price, side, levels, asOf) ==
    LET live == {l \in levels : /\ l.state = "active" /\ l.activated <= asOf
                                /\ (l.expires = None \/ l.expires > asOf)}
        choices == IF side = "long" THEN {l \in live : l.role = "resistance" /\ l.lower > price}
                   ELSE {l \in live : l.role = "support" /\ l.upper < price}
        Distance(l) == IF side = "long" THEN l.lower - price ELSE price - l.upper
        Rank(l) == CASE Family(l) = "WEEKLY" -> 0 [] Family(l) = "SWING" -> 1 [] OTHER -> 2
        Nearer(l, m) == \/ Distance(l) < Distance(m)
                        \/ Distance(l) = Distance(m) /\ Rank(l) < Rank(m)
                        \/ /\ Distance(l) = Distance(m) /\ Rank(l) = Rank(m)
                           /\ l.activated <= m.activated
    IN  {l \in choices : \A m \in choices : Nearer(l, m)}

(* _latest_pre_entry_leg: the last hour of a leg completed strictly before *)
(* the entry open.                                                         *)
ConversionLeg(from, entry) == MaxOr({t \in 1..LastHour : from <= t /\ t < entry}, None)

(* The time a CAD conversion holds from: the entry itself without a leg,   *)
(* none when a leg has no hour yet.                                        *)
CadConversion(entry) ==
    LET legs == {ConversionLeg(from, entry) : from \in inv.fx}
    IN  IF None \in legs THEN None ELSE MaxOr(legs, entry)

(* _conversion_leg and _cad_conversion: v2 walks the route over the hours  *)
(* of the loaded snapshots and keeps the later completion.                 *)
ConversionLegV2(from, entry) ==
    FoldLeft(LAMBDA last, t : IF from <= t /\ t < entry THEN t ELSE last, None,
             [t \in 1..LastHour |-> t])
CadConversionV2(entry) ==
    LET Later(at, from) ==
            LET leg == ConversionLegV2(from, entry) IN
            IF at = None \/ leg = None THEN None ELSE IF leg > at \/ at = entry THEN leg ELSE at
    IN  FoldLeft(Later, entry, Sorted(inv.fx))

(* entry_eligibility at the open of the H1 candle completing at t.  Bid is *)
(* the open, ask the open plus the spread.                                 *)
EntryEligibility(setup, t, levels, conversion) ==
    LET entry == t - 1
        bid == h1[t].open
        ask == h1[t].open + h1[t].spread
        fill == IF setup.side = "long" THEN ask ELSE bid
        stop == IF setup.side = "long" THEN setup.extreme - h1[t].spread
                ELSE setup.extreme + h1[t].spread
        gapped == IF setup.side = "long" THEN bid <= stop ELSE ask >= stop
        targets == OpposingTarget(fill, setup.side, levels, entry)
        Reward(l) == IF setup.side = "long" THEN l.lower - fill ELSE fill - l.upper
        risk == IF setup.side = "long" THEN fill - stop ELSE stop - fill
        Out(decision) == [decision |-> decision, target |-> <<>>, conversion |-> None]
    IN  IF conversion = None \/ conversion > entry THEN Out("CANCELLED_DATA_QUALITY")
        ELSE IF entry \in OffSession THEN Out("BLOCKED_SESSION")
        ELSE IF h1[t].spread > SpreadCeiling THEN Out("BLOCKED_SPREAD")
        ELSE IF gapped THEN Out("MISSED_FILL")
        ELSE IF targets = {} THEN Out("NO_TARGET")
        ELSE LET l == CHOOSE x \in targets : TRUE IN
             IF 2 * Reward(l) < 3 * risk THEN Out("INSUFFICIENT_REWARD")
             ELSE [decision |-> "ENTRY_PENDING", target |-> Key(l), conversion |-> conversion]

(* books_for_setup: the combined book and one per attributed family. *)
Books(setup) == {"ANY"} \cup setup.families

(* partition_boundary_censorship: the three confirmation candles and the   *)
(* entry candle must all complete inside development.                      *)

Censored(setup) ==
    LET S == FirstOf(Successors(setup.at), 4)
    IN  Cardinality(S) < 4 \/ Max(S) >= DevEnd

(* derive_expected_entry_timestamp: the first sealed open at or after the  *)
(* confirmation, given by the completion of that candle.                   *)
EntryCandle(confirmedAt) == MinOr(Successors(confirmedAt), None)

-----------------------------------------------------------------------------
(* Rows shared by both detectors *)

Global(det, setup) == {x \in det.trans : x.setup = setup.at /\ x.book = ""}
ConfirmedAt(det, setup) == {x.at : x \in {y \in Global(det, setup) : y.to = "CONFIRMED"}}

Transition(setup, res) ==
    [setup |-> setup.at, book |-> "", to |-> res.to, at |-> res.at, support |-> res.support]

(* EntryEligibilityEvaluation, eligibility_fields_match_decision: the      *)
(* target and the conversion are stored with an entry and only with one.   *)
FieldsMatchDecision(x) ==
    /\ x.target # <<>> <=> x.decision = "ENTRY_PENDING"
    /\ x.conversion # None <=> x.decision = "ENTRY_PENDING"

\* Mutant of Evaluations: only the combined book.
Evaluations_Combined(setup, entry, res) ==
    {[setup |-> setup.at, book |-> b, decision |-> res.decision, entry |-> entry,
      target |-> res.target, conversion |-> res.conversion] : b \in {"ANY"}}

Evaluations(setup, entry, res) ==
    {[setup |-> setup.at, book |-> b, decision |-> res.decision, entry |-> entry,
      target |-> res.target, conversion |-> res.conversion] : b \in Books(setup)}

Inactive(det, setup) == [k \in setup.keys |-> (CHOOSE l \in det.levels : Key(l) = k).at]

(* _evaluate_entry of v1: the stored levels activated by the entry open.   *)
EvaluateEntryV1(det, setup, t) ==
    Evaluations(setup, t - 1,
                EntryEligibility(setup, t, {l \in det.levels : l.activated <= t - 1},
                                 CadConversion(t - 1)))

(* Entries due at the open of candle t, judged before t is admitted. *)
TakeEntries(det, t) ==
    LET due == {s \in det.pending : \E c \in ConfirmedAt(det, s) : EntryCandle(c) = t}
    IN  [det EXCEPT
            !.evals = @ \cup UNION {EvaluateEntryV1(det, s, t) : s \in due},
            !.pending = @ \ due]

Analysis(det, t, created) ==
    [at |-> t, result |-> IF created THEN "CANDIDATE_CREATED"
                          ELSE IF Active(det.levels) # {} THEN "LEVEL_ACTIVE" ELSE "NO_SETUP"]

Register(det, found) ==
    [det EXCEPT !.setups = @ \cup found,
                !.consumed = @ \cup UNION {s.keys : s \in found},
                !.pending = @ \cup {s \in found : ~Censored(s)}]

NoReport == [included |-> {}]
NoCoverage == [checks |-> None]

Blank == [levels |-> {}, setups |-> {}, pending |-> {}, trans |-> {}, evals |-> {},
          analyses |-> {}, consumed |-> {}, weeks |-> {}, days |-> {},
          bias |-> "neutral", swing |-> None, prev |-> None,
          ready |-> FALSE, stopped |-> FALSE, refused |-> FALSE, status |-> "none",
          report |-> NoReport, coverage |-> NoCoverage]

-----------------------------------------------------------------------------
(* Detector v1 *)

DevelopmentH1 == {t \in inv.H1 : DevStart <= t /\ t < DevEnd}

(* research_confirmation_entry_boundary (the insert trigger on every       *)
(* transition of a confirmed setup): the sealed entry successor must be a  *)
(* conflict-free candle.                                                   *)
EntryBoundaryHolds(det, setup) ==
    \A c \in ConfirmedAt(det, setup) : gap # <<"H1", EntryCandle(c)>>

(* _persist_data_incomplete_remainder: pending setups are cancelled and    *)
(* every remaining hour is DATA_INCOMPLETE; the walk ends.  When the       *)
(* conflicting candle is the entry candle of a confirmed setup, the        *)
(* trigger rejects the cancellation and the run is rolled back.            *)
DataIncomplete(det, t) ==
    LET open == {s \in det.pending : Global(det, s) = {}}
        waiting == {s \in det.pending : ConfirmedAt(det, s) # {}}
        cancel == [to |-> "CANCELLED_DATA_QUALITY", at |-> t, support |-> None]
        none == [decision |-> "CANCELLED_DATA_QUALITY", target |-> <<>>, conversion |-> None]
    IN  [det EXCEPT
            !.trans = @ \cup {Transition(s, cancel) : s \in open},
            !.evals = @ \cup UNION {UNION {Evaluations(s, EntryCandle(c) - 1, none) :
                                              c \in ConfirmedAt(det, s)} : s \in waiting},
            !.analyses = @ \cup {[at |-> x, result |-> "DATA_INCOMPLETE"] :
                                    x \in {y \in DevelopmentH1 : y >= t}},
            !.refused = @ \/ \E s \in waiting : ~EntryBoundaryHolds(det, s),
            !.stopped = TRUE]

(* What _instrument_detector knows before the first development hour.      *)

BeginV1(rows) ==
    LET days == {t \in inv.D : t < DevStart}
        weeks == {t \in inv.W : t < DevStart}
        hours == {t \in inv.H1 : t < DevStart}
        bias == IF days = {} THEN "neutral" ELSE d[Max(days)].bias
        start == [rows EXCEPT !.days = days, !.weeks = weeks,
                     !.levels = MergeLevels({}, MaterialLevels(weeks, days)),
                     !.bias = bias, !.swing = SupportingSwing(Pivots(days), bias, DevStart),
                     !.prev = IF hours = {} THEN None ELSE Max(hours),
                     !.pending = {}, !.ready = FALSE, !.stopped = FALSE,
                     !.consumed = UNION {s.keys : s \in rows.setups}]
    IN  IF gap[2] # None /\ gap[2] < DevStart
        THEN DataIncomplete([start EXCEPT !.levels = {}], Min(DevelopmentH1)) ELSE start

(* Admission of the weekly and daily candles that complete with this hour, *)
(* then levels, bias and supporting swing.                                 *)
AdmitStructure(det, t) ==
    LET days == det.days \cup (inv.D \cap {t})
        weeks == det.weeks \cup (inv.W \cap {t})
        changed == t \in inv.D \cup inv.W
        bias == IF ~changed \/ days = {} THEN det.bias ELSE d[Max(days)].bias
        merged == IF changed THEN MergeLevels(det.levels, MaterialLevels(weeks, days))
                  ELSE det.levels
    IN  [det EXCEPT !.days = days, !.weeks = weeks, !.bias = bias,
             !.swing = IF changed THEN SupportingSwing(Pivots(days), bias, t) ELSE @,
             !.levels = IF changed \/ ~det.ready THEN PersistMaterialLevels(merged, days, t) ELSE @,
             !.ready = TRUE]

(* _derive_history: the evidence of a row ends at an hour of the inventory *)
(* and rests on no conflicting candle.                                     *)
HistoryUsable(at) == at \in inv.H1 /\ (gap = NoGap \/ gap[2] >= at)

(* persist_confirmation: only a cancellation is stored without usable      *)
(* evidence; any other outcome refuses the whole run.                      *)
ConfirmationStored(res) == res.to = "CANCELLED_DATA_QUALITY" \/ HistoryUsable(res.at)

ConfirmPending(det, t) ==
    LET seen == {x \in inv.H1 : x <= t}
        Res(s) == ConfirmSweep(s, seen, det.days, t, Inactive(det, s), Pivots(det.days))
        moved == {s \in det.pending : Global(det, s) = {} /\ Res(s).to # "TRIGGER_PENDING"}
    IN  [det EXCEPT
            !.trans = @ \cup {Transition(s, Res(s)) : s \in moved},
            !.refused = @ \/ \E s \in moved : ~ConfirmationStored(Res(s)),
            !.pending = @ \ {s \in moved : Res(s).to # "CONFIRMED"}]

(* Detection, then the analysis row of this hour.  A stored setup of the   *)
(* hour (a replay) is taken as found and not followed again.               *)

DetectV1(det, t) ==
    LET stored == {s \in det.setups : s.at = t}
        free == {l \in Active(det.levels) : Key(l) \notin det.consumed}
        found == IF stored # {} \/ det.prev = None \/ det.swing = None \/ det.bias = "neutral"
                 THEN {} ELSE FailedSweep(det.prev, t, free, det.bias, det.swing)
        next == Register(det, found)
    IN  [next EXCEPT !.analyses = @ \cup {Analysis(next, t, stored \cup found # {})},
                     !.prev = t]

(* One development hour.  A conflicting daily or weekly candle that no     *)
(* hour completes with is met by persist_analysis of the next hour, whose  *)
(* required window is not usable: the run is refused.                      *)
StepV1(det, t) ==
    IF det.stopped \/ det.refused \/ t \notin DevelopmentH1 THEN det
    ELSE IF ~HistoryUsable(t) THEN [det EXCEPT !.refused = TRUE]
    ELSE IF gap = <<"H1", t>> THEN DataIncomplete(det, t)
    ELSE LET entered == TakeEntries(det, t) IN
         IF gap \in {<<"W", t>>, <<"D", t>>} THEN DataIncomplete(entered, t)
         ELSE DetectV1(ConfirmPending(AdmitStructure(entered, t), t), t)

-----------------------------------------------------------------------------
(* Detector v2 *)

(* load_instrument_snapshot refuses a window with a conflicting candle. *)
BeginV2 == [Blank EXCEPT !.refused = (gap # NoGap)]

NextSealedWeek(t) == MinOr({x \in inv.W : x > t}, None)

(* The levels the candles completing at t create.  The incremental windows *)
(* of IncrementalDailyState hold the last candles only.                    *)
\* Mutant of NewLevels: breakouts are not looked for.
NewLevels_NoBreakouts(det, t) ==
    LET days == det.days \cup (inv.D \cap {t})
        window == {x \in days : Cardinality({y \in days : y > x}) <= 2 * PivotWing}
    IN  (IF t \in inv.D THEN SwingLevels({p \in Pivots(window) : p.available = t}, days) ELSE {})
        \cup (IF t \in inv.W THEN WeeklyLevels(t, NextSealedWeek(t)) ELSE {})

NewLevels(det, t) ==
    LET days == det.days \cup (inv.D \cap {t})
        window == {x \in days : Cardinality({y \in days : y > x}) <= 2 * PivotWing}
        recent == {x \in days : Cardinality({y \in days : y > x}) <= BreakoutWindow}
        atr == AtrAt(days, t)
    IN  (IF t \in inv.D /\ atr
         THEN {l \in SwingLevels({p \in Pivots(window) : p.available = t}, days) : TRUE}
              \cup {l \in BreakoutLevels(recent) : l.activated = t}
         ELSE {})
        \cup (IF t \in inv.W /\ atr THEN WeeklyLevels(t, NextSealedWeek(t)) ELSE {})

(* One pass of _update_lifecycle with the daily candle of this batch. *)
LifecyclePass(levels, days, t) ==
    LET daily == t \in inv.D
        Sessions(l) == Cardinality({x \in days : l.activated < x /\ x <= t})
        Judge(l) ==
            LET sup == SupersededAt(l, levels) IN
            IF l.state # "active" \/ l.activated > t THEN <<"active", None>>
            ELSE IF sup # None /\ sup <= t THEN <<"superseded", sup>>
            ELSE IF l.expires # None /\ l.expires <= t THEN <<"expired", l.expires>>
            ELSE IF ~daily THEN <<"active", None>>
            ELSE IF l.sessions # None /\ Sessions(l) >= l.sessions THEN <<"expired", t>>
            ELSE IF Family(l) # "BREAKOUT" /\ Crossed(l, t) THEN <<"superseded_by_flip", t>>
            ELSE IF Broken(l, t) THEN <<"invalidated", t>>
            ELSE <<"active", None>>
    IN  {IF Judge(l)[1] = "active" THEN l
         ELSE [l EXCEPT !.state = Judge(l)[1], !.at = Judge(l)[2]] : l \in levels}
        \cup {FlipLevel(l, t) : l \in {m \in levels : Judge(m)[1] = "superseded_by_flip"}}

UpdateLifecycle(det, t) ==
    LET days == det.days \cup (inv.D \cap {t})
        merged == MergeLevels(det.levels, NewLevels(det, t))
        bias == IF t \in inv.D THEN d[t].bias ELSE det.bias
    IN  IF t \notin inv.D \cup inv.W THEN det
        ELSE [det EXCEPT !.days = days, !.bias = bias,
                 !.levels = LifecyclePass(LifecyclePass(merged, days, t), days, t),
                 !.swing = IF t \in inv.D THEN SupportingSwing(Pivots(days), bias, t) ELSE @]

ConfirmPendingV2(det, t) ==
    LET seen == {x \in inv.H1 : x <= t}
        Res(s) == ConfirmSweepV2(s, seen, det.days, t, Inactive(det, s), Pivots(det.days))
        moved == {s \in det.pending : Global(det, s) = {} /\ Res(s).to # "TRIGGER_PENDING"}
    IN  [det EXCEPT
            !.trans = @ \cup {Transition(s, Res(s)) : s \in moved},
            !.pending = @ \ {s \in moved : Res(s).to # "CONFIRMED"}]

(* _censorship *)
CensoredV2(setup) ==
    LET successors == FirstOf(Successors(setup.at), 4)
    IN  ~(Cardinality(successors) = 4 /\ Max(successors) < DevEnd)

DetectV2(det, t) ==
    LET dev == DevStart <= t /\ t < DevEnd
        free == {l \in Active(det.levels) : l.activated <= t - 1 /\ Key(l) \notin det.consumed}
        found == IF ~dev \/ det.prev = None \/ det.swing = None \/ det.bias = "neutral"
                 THEN {} ELSE FailedSweep(det.prev, t, free, det.bias, det.swing)
        next == [det EXCEPT !.setups = @ \cup found,
                            !.consumed = @ \cup UNION {s.keys : s \in found},
                            !.pending = @ \cup {s \in found : ~CensoredV2(s)}]
    IN  [next EXCEPT !.analyses = @ \cup
             {IF dev THEN Analysis(next, t, found # {}) ELSE [at |-> t, result |-> "NO_SETUP"]},
                     !.prev = t]

(* _evaluate_entry: the event carries the confirmed supporting swing. *)
EvaluateEntryV2(det, setup, t) ==
    LET support == CHOOSE p \in {x.support : x \in Global(det, setup)} : TRUE
        known == {l \in det.levels : l.activated <= t - 1}
    IN  EntryEligibility([setup EXCEPT !.swing = support], t, known, CadConversionV2(t - 1))

(* Confirmed setups whose first sealed successor is this hour; a confirmed *)
(* setup without a successor refuses the projection.                       *)
TakeEntriesV2(det, t) ==
    LET confirmed == {s \in det.pending : ConfirmedAt(det, s) # {}}
        successor(s) == EntryCandle(Max(ConfirmedAt(det, s)))
        due == {s \in confirmed : successor(s) = t}
    IN  IF \E s \in confirmed : successor(s) = None THEN [det EXCEPT !.refused = TRUE]
        ELSE [det EXCEPT
                !.evals = @ \cup UNION {Evaluations(s, t - 1, EvaluateEntryV2(det, s, t)) : s \in due},
                !.pending = @ \ due]

(* One completion batch: entry, H1, W, D, lifecycle, confirmation, sweep. *)
StepV2(det, t) ==
    LET hour == t \in inv.H1
        entered == IF hour THEN TakeEntriesV2(det, t) ELSE det
        updated == UpdateLifecycle(entered, t)
    IN  IF det.refused \/ entered.refused THEN entered
        ELSE IF hour THEN DetectV2(ConfirmPendingV2(updated, t), t) ELSE updated

-----------------------------------------------------------------------------
(* The counts *)

(* _maximum_horizon_end / maximum_exit_open: the first hourly open after   *)
(* HorizonSessions daily completions past the entry.                       *)
HorizonEnd(entry) ==
    LET days == FirstOf({t \in inv.D : t > entry}, HorizonSessions)
    IN  IF Cardinality(days) < HorizonSessions THEN None
        ELSE LET opens == {x - 1 : x \in Successors(Max(days))} IN MinOr(opens, None)

Included(s, confirmedAt) ==
    LET end == HorizonEnd(EntryCandle(confirmedAt) - 1) IN end # None /\ end < DevEnd

Cancelled(det) ==
    \/ \E x \in det.trans : x.to = "CANCELLED_DATA_QUALITY"
    \/ \E x \in det.evals : x.decision = "CANCELLED_DATA_QUALITY"
    \/ \E x \in det.analyses : x.result = "DATA_INCOMPLETE"

ExactCoverage(det) == {x.at : x \in det.analyses} = DevelopmentH1

(* _assert_complete_setup_lifecycle *)
LifecycleComplete(det) ==
    \A s \in det.setups :
        /\ Global(det, s) = {} <=> Censored(s)
        /\ ConfirmedAt(det, s) # {} =>
               {x.book : x \in {e \in det.evals : e.setup = s.at}} = Books(s)

Unstorable(det) == \E x \in det.evals : ~FieldsMatchDecision(x)

(* run_s1_detector: an unresolved setup or missing analysis refuses the    *)
(* run and rolls it back; a complete one is SUCCEEDED or DATA_INCOMPLETE.  *)
FinishV1(det) ==
    IF \/ det.refused \/ Unstorable(det) \/ (~det.stopped /\ det.pending # {}) \/ ~ExactCoverage(det)
       \/ ~Cancelled(det) /\ ~LifecycleComplete(det)
    THEN [Blank EXCEPT !.refused = TRUE]
    ELSE [det EXCEPT !.status = IF Cancelled(det) THEN "DATA_INCOMPLETE" ELSE "SUCCEEDED"]

(* _validate_detector_coverage: run_s1 counts a SUCCEEDED detector run     *)
(* whose analyses are complete and whose censored setups have no outcome.  *)
CoverageVerifies(det) ==
    /\ det.status = "SUCCEEDED" /\ ExactCoverage(det) /\ ~Cancelled(det)
    /\ \A s \in det.setups : Censored(s) => Global(det, s) = {}

Outcome(det, to) == {s.at : s \in {x \in det.setups : \E y \in Global(det, x) : y.to = to}}
IncludedSetups(det) ==
    {s.at : s \in {x \in det.setups : \E c \in ConfirmedAt(det, x) : Included(x, c)}}

(* The counts of run_s1: a confirmed setup whose longest horizon leaves    *)
(* development is purged, the others are counted with their decisions.     *)

SignalCounts(det) ==
    LET kept == IncludedSetups(det) IN
    [sweeps |-> Cardinality(det.setups),
     censored |-> Cardinality({s \in det.setups : Censored(s)}),
     included |-> kept,
     purged |-> Outcome(det, "CONFIRMED") \ kept,
     invalidated |-> Outcome(det, "INVALIDATED"), expired |-> Outcome(det, "EXPIRED"),
     eligible |-> {<<x.setup, x.book>> : x \in {e \in det.evals : e.setup \in kept /\ e.decision = "ENTRY_PENDING"}}]

(* The last state of every level activated in development, and the levels  *)
(* its sweeps consumed.                                                    *)
LevelCounts(det) ==
    LET levels == {l \in det.levels : l.activated < DevEnd}
        Ended(states) == Cardinality({l \in levels : l.state \in states /\ l.at < DevEnd})
    IN  [active |-> Cardinality(levels) - Ended({"invalidated", "expired", "superseded", "superseded_by_flip"}),
         invalidated |-> Ended({"invalidated"}), expired |-> Ended({"expired"}),
         superseded |-> Ended({"superseded", "superseded_by_flip"}),
         consumed |-> Cardinality(UNION {s.keys : s \in det.setups})]

(* _maximum_concurrency: entries open and horizons close in the order of   *)
(* their times, a horizon that ends at an entry first.                     *)
MaximumConcurrency(entries) ==
    LET times == {x.entry : x \in entries} \cup {HorizonEnd(x.entry) : x \in entries}
        Change(acc, t) ==
            LET closed == acc.active - Cardinality({x \in entries : HorizonEnd(x.entry) = t})
                active == closed + Cardinality({x \in entries : x.entry = t})
            IN  [active |-> active, peak |-> Max({acc.peak, active})]
    IN  FoldLeft(Change, [active |-> 0, peak |-> 0], Sorted(times)).peak

(* The coverage of the S1 report: every decision that reached the spread   *)
(* check, the M1 windows proposed for the entries, and their concurrency.  *)
S1Coverage(det) ==
    LET evals == {x \in det.evals : x.setup \in IncludedSetups(det)}
        Decided(decisions) == Cardinality({x \in evals : x.decision \in decisions})
        entries == {x \in evals : x.decision = "ENTRY_PENDING"}
        checks == Cardinality(evals) -
                      Decided({"CANCELLED_DATA_QUALITY", "BLOCKED_SESSION", "MISSED_FILL"})
    IN  [checks |-> checks, passed |-> checks - Decided({"BLOCKED_SPREAD"}),
         windows |-> Cardinality({x.entry : x \in entries}),
         peak |-> MaximumConcurrency(entries), levels |-> LevelCounts(det)]

(* The included setups have levels and one evaluation per book of theirs.  *)
BooksEvaluated(det) ==
    \A s \in {x \in det.setups : x.at \in IncludedSetups(det)} :
        /\ s.families # {}
        /\ {x.book : x \in {e \in det.evals : e.setup = s.at}} = Books(s)

(* run_s1 refuses when the setups without outcome are not the censored     *)
(* ones or an included setup lacks the evaluation of a book.               *)
RunS1(det) ==
    IF /\ CoverageVerifies(det) /\ BooksEvaluated(det)
       /\ \A s \in det.setups : Global(det, s) = {} <=> Censored(s)
    THEN [det EXCEPT !.report = SignalCounts(det), !.coverage = S1Coverage(det)] ELSE det

(* _projection_report: the same events counted from the projection; the    *)
(* decisions are those of all confirmed setups, purged ones included.      *)
ProjectionReport(det) ==
    [SignalCounts(det) EXCEPT
        !.eligible = {<<x.setup, x.book>> : x \in {e \in det.evals : e.decision = "ENTRY_PENDING"}}]

(* persist_projection: every evaluation is stored with the transition of   *)
(* its book out of the confirmed state (v1 stores the two together; only   *)
(* the rows of v2 are read back).                                          *)
EntryTransitions(det) ==
    {[setup |-> x.setup, book |-> x.book, to |-> x.decision, at |-> x.entry, support |-> None] :
        x \in det.evals}

(* project_v2_s1 and persist_projection: a pending setup, an hour without  *)
(* analysis or any cancellation refuses the whole projection; otherwise    *)
(* all rows are stored in one transaction.                                 *)
FinishV2(det) ==
    IF det.refused \/ Unstorable(det) \/ det.pending # {} \/ Cancelled(det) \/ {x.at : x \in det.analyses} # inv.H1
    THEN [Blank EXCEPT !.refused = TRUE]
    ELSE [det EXCEPT !.status = "SUCCEEDED", !.report = ProjectionReport(det),
                     !.trans = @ \cup EntryTransitions(det)]

(* _stored_evidence reads the rows of v2 back for the acceptance of the    *)
(* outcome: of a setup its outcomes, its books and its attributions.       *)
(* Hashes of contents that the rows still carry are taken to agree.        *)
StoredSetup(det, s) ==
    [status |-> {x.to : x \in Global(det, s)},
     books |-> {x.book : x \in {y \in det.evals : y.setup = s.at}},
     attributed |-> {k \in s.keys : \E l \in det.levels : Key(l) = k}]

StoredEvidence(det) ==
    LET Tally(S, Of(_)) == [v \in {Of(x) : x \in S} |-> Cardinality({x \in S : Of(x) = v})]
        Repeated(S, Of(_)) == Cardinality(S) - Cardinality({Of(x) : x \in S})
    IN  [analyses |-> {x.at : x \in det.analyses},
         misattributed |-> Cardinality({s \in det.setups : StoredSetup(det, s).attributed # s.keys}),
         duplicates |-> [analysis |-> Repeated(det.analyses, LAMBDA x : x.at),
                         level |-> Repeated(det.levels, Key),
                         setup |-> Repeated(det.setups, LAMBDA s : <<s.side, s.at>>),
                         transition |-> Repeated(det.trans, LAMBDA x : <<x.setup, x.book>>),
                         evaluation |-> Repeated(det.evals, LAMBDA x : <<x.setup, x.book>>)],
         unconfirmed |-> Cardinality(det.setups) - Cardinality({x.setup : x \in {y \in det.trans : y.book = ""}}),
         status |-> Tally(det.setups, LAMBDA s : StoredSetup(det, s).status),
         membership |-> Tally(det.setups, LAMBDA s : StoredSetup(det, s).books),
         direction |-> Tally(det.setups, LAMBDA s : s.side),
         decisions |-> Tally(det.evals, LAMBDA x : x.decision)]

-----------------------------------------------------------------------------
(* The stream *)

NoBar == [none |-> TRUE]
Batches == {t \in 1..LastHour : t \in inv.H1 \cup inv.D \cup inv.W}
Warm(t) == t < DevStart

(* v2 reads the warm-up candles through the same batches as the rest.      *)
WarmV2(i) ==
    IF i.refused THEN i
    ELSE FoldLeft(LAMBDA acc, t : StepV2(acc, t), i, Sorted({t \in Batches : Warm(t)}))

Init ==
    /\ inv \in Inventories
    /\ gap \in {g \in Gaps : g = NoGap \/ g[2] \in inv[g[1]]}
    /\ h1 = [t \in 1..LastHour |-> IF Warm(t) THEN WarmH1[t] ELSE NoBar]
    /\ d = [t \in 1..LastHour |-> IF Warm(t) /\ t \in DOMAIN inv.warm THEN inv.warm[t] ELSE NoBar]
    /\ w = [t \in 1..LastHour |-> IF Warm(t) /\ t \in DOMAIN WarmW THEN WarmW[t] ELSE NoBar]
    /\ now = DevStart - 1
    /\ v1 = BeginV1(Blank)
    /\ v2 = WarmV2(BeginV2)
    /\ phase = "stream"
    /\ first = Blank

Loud == Cardinality({t \in DevStart..now : h1[t] \notin {NoBar, Quiet}})
Pending == {t \in Batches : t > now}

(* The candles of the next completion batch become known. *)
Reveal ==
    /\ phase = "stream" /\ Pending # {}
    /\ now' = Min(Pending)
    /\ \E b \in IF now' \in inv.H1 THEN IF Loud < Noise THEN inv.hours ELSE {Quiet} ELSE {NoBar} :
        h1' = [h1 EXCEPT ![now'] = b]
    /\ \E b \in IF now' \in inv.D THEN inv.days ELSE {NoBar} : d' = [d EXCEPT ![now'] = b]
    /\ \E b \in IF now' \in inv.W THEN WBars ELSE {NoBar} : w' = [w EXCEPT ![now'] = b]
    /\ phase' = "batch"
    /\ UNCHANGED <<inv, gap, v1, v2, first>>

(* Both detectors process the batch. *)
Detect ==
    /\ phase = "batch"
    /\ v1' = StepV1(v1, now)
    /\ v2' = StepV2(v2, now)
    /\ phase' = "stream"
    /\ UNCHANGED <<inv, gap, h1, d, w, now, first>>

(* The end of the inventory: run_s1_detector, then run_s1, and             *)
(* project_v2_s1 return.                                                   *)
Count ==
    /\ phase = "stream" /\ Pending = {}
    /\ v1' = RunS1(FinishV1(v1))
    /\ v2' = FinishV2(v2)
    /\ phase' = "counted"
    /\ UNCHANGED <<inv, gap, h1, d, w, now, first>>

(* assert_existing_entry_boundaries: the migration that installs the       *)
(* trigger demands of the rows already stored that they lie at the sealed  *)
(* successor of their confirmation, on a conflict-free candle.             *)
ExistingBoundariesHold(det) ==
    \A x \in det.evals : \E s \in det.setups : \E c \in ConfirmedAt(det, s) :
        /\ s.at = x.setup /\ x.entry + 1 = EntryCandle(c)
        /\ gap # <<"H1", EntryCandle(c)>>

(* A row stored twice under one key with different content.                *)
Forked(det) ==
    \/ \E x, y \in det.setups : x # y /\ x.at = y.at /\ x.side = y.side
    \/ \E x, y \in det.trans : x # y /\ x.setup = y.setup /\ x.book = y.book
    \/ \E x, y \in det.evals : x # y /\ x.setup = y.setup /\ x.book = y.book
    \/ \E x, y \in det.analyses : x # y /\ x.at = y.at

(* run_s1_detector run again over its own rows, hour by hour.  (A second   *)
(* v2 projection is refused by the pristine check and changes nothing.)    *)
Rerun ==
    /\ phase = "counted" /\ ~v1.refused
    /\ first' = v1
    /\ v1' = BeginV1(v1)
    /\ now' = DevStart - 1
    /\ phase' = "rerun"
    /\ UNCHANGED <<inv, gap, h1, d, w, v2>>

RerunHour ==
    /\ phase = "rerun" /\ DevelopmentH1 \cap Pending # {}
    /\ now' = Min(DevelopmentH1 \cap Pending)
    /\ v1' = StepV1(v1, now')
    /\ UNCHANGED <<inv, gap, h1, d, w, v2, phase, first>>

RerunEnd ==
    /\ phase = "rerun" /\ DevelopmentH1 \cap Pending = {}
    /\ v1' = IF Forked(v1) THEN [Blank EXCEPT !.refused = TRUE] ELSE RunS1(FinishV1(v1))
    /\ phase' = "replayed"
    /\ UNCHANGED <<inv, gap, h1, d, w, now, v2, first>>

Done ==
    /\ phase = "replayed" \/ (phase = "counted" /\ v1.refused)
    /\ UNCHANGED vars

Next == Reveal \/ Detect \/ Count \/ Rerun \/ RerunHour \/ RerunEnd \/ Done

Spec == Init /\ [][Next]_vars

-----------------------------------------------------------------------------
(* Properties *)

Levels == [kind : {"weekly-low", "weekly-high", "swing-low", "swing-high",
                   "breakout-high", "breakout-low"},
           role : {"support", "resistance"}, price : Int, lower : Int, upper : Int,
           activated : 1..LastHour, source : 1..LastHour, flips : Seq(1..LastHour),
           expires : Nat, sessions : Nat, at : 0..LastHour,
           state : {"active", "superseded", "superseded_by_flip", "expired", "invalidated"}]

(* Levels, transitions and evaluations of both detectors keep their types. *)
TypeOK ==
    /\ phase \in {"stream", "batch", "counted", "rerun", "replayed"}
    /\ now \in 0..LastHour
    /\ \A det \in {v1, v2} :
        /\ det.levels \subseteq Levels
        /\ det.pending \subseteq det.setups
        /\ det.status \in {"none", "SUCCEEDED", "DATA_INCOMPLETE"}
        /\ \A x \in det.trans : x.at \in 1..LastHour
        /\ \A x \in {y \in det.trans : y.book = ""} :
              x.to \in {"CONFIRMED", "INVALIDATED", "EXPIRED", "CANCELLED_DATA_QUALITY"}
        /\ \A x \in det.evals : x.entry \in 1..LastHour

(* Every daily and weekly candle completes together with an hour, and the  *)
(* sealed weeks follow the calendar.                                       *)
Aligned ==
    /\ inv.D \cup inv.W \subseteq inv.H1
    /\ \A t \in inv.W : NextSealedWeek(t) \in {None, t + WeekLength}
Clean == gap = NoGap /\ Aligned

View(det) ==
    [setups |-> det.setups, pending |-> det.pending, consumed |-> det.consumed,
     trans |-> {[x EXCEPT !.support = None] : x \in det.trans}, evals |-> det.evals,
     active |-> {<<Key(l), l.role>> : l \in Active(det.levels)},
     analyses |-> {x \in det.analyses : DevStart <= x.at /\ x.at < DevEnd}]

(* The v2 detector is a faster v1 (failed_break_detector_v2.py): over a    *)
(* clean aligned inventory both hold, after every completion, the same     *)
(* setups, transitions (up to the supporting swing v2 corrects), entry     *)
(* evaluations, active levels and analyses, and they count the same events.*)
DetectorsAgree ==
    Clean =>
        /\ phase = "stream" /\ now >= DevStart => View(v1) = View(v2)
        /\ phase = "counted" =>
            /\ v1.status = "SUCCEEDED" <=> v2.status = "SUCCEEDED"
            /\ v2.status = "SUCCEEDED" =>
                   v1.report = [v2.report EXCEPT !.eligible = {x \in @ : x[1] \in v2.report.included}]

(* Whatever the order in which hourly, daily and weekly candles complete,  *)
(* the incremental level state of v2 equals the one recomputed from the    *)
(* whole sealed history: no level survives its end or disappears early.    *)
IncrementalIsBatch ==
    phase = "stream" /\ ~v2.refused =>
        LET days == {t \in inv.D : t <= now}
            weeks == {t \in inv.W : t <= now /\ AtrAt(days, t)}
            specs == SwingLevels(Pivots(days), days) \cup BreakoutLevels(days)
                        \cup UNION {WeeklyLevels(t, NextSealedWeek(t)) : t \in weeks}
            batch == PersistMaterialLevels(specs, days, now)
        IN  {<<Key(l), l.role>> : l \in Active(v2.levels)} = {<<Key(l), l.role>> : l \in Active(batch)}

(* _assert_complete_setup_lifecycle: once a detector has finished, every   *)
(* setup is either censored at the partition boundary and untouched, or    *)
(* has exactly one outcome; a confirmed one has one evaluation per book,   *)
(* at the first open after its confirmation, and no other setup has any;   *)
(* the entry boundary could be enforced over the stored rows.              *)
SetupsHaveOneOutcome ==
    phase \in {"counted", "replayed"} =>
        \A det \in {v1, v2} : \A s \in det.setups :
            LET evals == {x \in det.evals : x.setup = s.at} IN
            /\ Cardinality(Global(det, s)) = IF Censored(s) THEN 0 ELSE 1
            /\ {x.book : x \in evals} = IF ConfirmedAt(det, s) = {} THEN {} ELSE Books(s)
            /\ \A x, y \in evals : x.book = y.book => x = y
            /\ \A x \in evals : \A c \in ConfirmedAt(det, s) : x.entry + 1 = EntryCandle(c)
            /\ \A c \in ConfirmedAt(det, s) : c > s.at /\ c \in FirstOf(Successors(s.at), 3)
            /\ ExistingBoundariesHold(det)

(* The coverage agrees with the counts: what passed the spread check was   *)
(* eligible or failed a later check, the peak is that of the open entries  *)
(* at some hour, and every attribution consumed a level of its own.        *)
CoverageExplained(det) ==
    LET c == det.coverage
        kept == {x \in det.evals : x.setup \in det.report.included}
        entries == {x \in kept : x.decision = "ENTRY_PENDING"}
        Open(t) == Cardinality({x \in entries : x.entry <= t /\ t < HorizonEnd(x.entry)})
    IN  /\ c.passed = Cardinality({x \in kept : x.decision \in
                                      {"NO_TARGET", "INSUFFICIENT_REWARD", "ENTRY_PENDING"}})
        /\ Cardinality(entries) = Cardinality(det.report.eligible)
        /\ c.peak = Max({Open(t) : t \in 1..LastHour})
        /\ phase # "rerun" => c.levels.active = Cardinality(Active(det.levels))
        /\ c.levels.consumed = FoldSet(LAMBDA s, n : n + Cardinality(s.keys), 0, det.setups)

(* The reported counts partition the sweeps: each one is censored,         *)
(* invalidated, expired, included or purged, and only included or purged   *)
(* setups are eligible to enter.                                           *)
CountsPartitionSweeps ==
    \A det \in {v1, v2} : det.report # NoReport =>
        LET r == det.report
            parts == <<r.included, r.purged, r.invalidated, r.expired>>
        IN  /\ r.sweeps = r.censored + Cardinality(r.included) + Cardinality(r.purged)
                             + Cardinality(r.invalidated) + Cardinality(r.expired)
            /\ \A i, j \in 1..4 : i # j => parts[i] \cap parts[j] = {}
            /\ {x[1] : x \in r.eligible} \subseteq r.included \cup r.purged
            /\ \A t \in r.included : \E x \in inv.D : t < x /\ x < DevEnd
            /\ det.coverage # NoCoverage => CoverageExplained(det)

(* The evidence read back from the rows of a stored projection repeats no  *)
(* row, attributes every sweep to stored levels and sums to the reported  *)
(* counts: only censored setups have no outcome and only confirmed ones    *)
(* a book, each of its books left the confirmed state once.                *)
EvidenceExplainsReport ==
    v2.report # NoReport =>
        LET r == v2.report
            e == StoredEvidence(v2)
            Of(tally, v) == IF v \in DOMAIN tally THEN tally[v] ELSE 0
        IN  /\ e.analyses = inv.H1
            /\ e.misattributed = 0 /\ \A table \in DOMAIN e.duplicates : e.duplicates[table] = 0
            /\ e.unconfirmed = r.censored /\ Of(e.status, {}) = r.censored
            /\ Of(e.status, {"INVALIDATED"}) = Cardinality(r.invalidated)
            /\ Of(e.status, {"EXPIRED"}) = Cardinality(r.expired)
            /\ Of(e.status, {"CONFIRMED"}) = Cardinality(r.included) + Cardinality(r.purged)
            /\ Of(e.membership, {}) = r.sweeps - Of(e.status, {"CONFIRMED"})
            /\ Of(e.direction, "long") + Of(e.direction, "short") = r.sweeps
            /\ Of(e.decisions, "ENTRY_PENDING") = Cardinality(r.eligible)
            /\ MapThenSumSet(LAMBDA v : e.decisions[v], DOMAIN e.decisions) =
                   Cardinality({x \in v2.trans : x.book # ""})

(* A level is swept once: no two setups of a detector share a level, and   *)
(* an hour yields one setup at most, also when the run is repeated.        *)
LevelConsumedOnce ==
    \A det \in {v1, v2} : \A a, b \in det.setups :
        a # b => a.keys \cap b.keys = {} /\ a.at # b.at

(* expected_analysis_keys: a finished v1 run has one analysis for every    *)
(* development hour; the hours from the first unusable candle on, and only *)
(* they, are DATA_INCOMPLETE; CANDIDATE_CREATED marks the setups' hours.   *)
AnalysesCoverDevelopment ==
    phase \in {"counted", "replayed"} /\ ~v1.refused =>
        /\ {x.at : x \in v1.analyses} = DevelopmentH1
        /\ \A x, y \in v1.analyses : x.at = y.at => x = y
        /\ \A x \in v1.analyses :
            /\ x.result = "DATA_INCOMPLETE" <=> gap # NoGap /\ gap[2] <= x.at
            /\ x.result = "CANDIDATE_CREATED" <=> \E s \in v1.setups : s.at = x.at

(* An admitted entry aims at a level that is still in force at the entry   *)
(* open: no daily candle completed by then has ended it, no newer pivot    *)
(* has replaced it and it has not expired.  v1 is held to it on aligned    *)
(* inventories only, since it never reads a day that no hour completes.    *)
EntriesUseLiveLevels ==
    \A det \in IF Aligned /\ phase # "rerun" THEN {v1, v2} ELSE {v2} :
        \A x \in {e \in det.evals : e.target # <<>>} :
            \E l \in det.levels :
                /\ Key(l) = x.target /\ l.activated <= x.entry
                /\ EvaluateLevel(l, inv.D, x.entry, SupersededAt(l, det.levels))[1] = "active"

(* run_s1_detector may be repeated over its own rows: the second run finds *)
(* the same rows, raises no fork and ends with the same report.            *)
ReplayIsIdempotent ==
    phase = "replayed" =>
        /\ v1.setups = first.setups /\ v1.trans = first.trans /\ v1.evals = first.evals
        /\ v1.analyses = first.analyses
        /\ v1.status = first.status /\ v1.report = first.report
        /\ v1.coverage = first.coverage

(* Neither detector is stopped by its own bookkeeping (an unresolved       *)
(* setup, an entry with no successor, evidence that ends between hours):   *)
(* v2 completes every conflict-free inventory with a conversion route, v1  *)
(* every aligned one, unless the conflicting candle is one that a          *)
(* confirmed setup had to enter on.                                        *)
NeverStuck ==
    /\ gap = NoGap /\ (\A from \in inv.fx : from < DevStart) => ~v2.refused
    /\ Aligned /\ gap[1] # "H1" => ~v1.refused
    /\ Aligned /\ phase = "stream" /\ v1.refused =>
           \E s \in v1.pending : ~EntryBoundaryHolds(v1, s)

(* Both detectors work with the levels in force and no others: the         *)
(* incremental state is the recomputed one, a swept level is consumed, and *)
(* an entry aims at a level that has not ended.                            *)
LevelsStayInForce ==
    /\ TypeOK
    /\ IncrementalIsBatch
    /\ LevelConsumedOnce
    /\ EntriesUseLiveLevels

(* A run ends with everything accounted for, also on gaps, at the boundary *)
(* of development and when it is repeated over its own rows.               *)
SetupsSettle ==
    /\ SetupsHaveOneOutcome
    /\ CountsPartitionSweeps
    /\ EvidenceExplainsReport
    /\ AnalysesCoverDevelopment
    /\ ReplayIsIdempotent
    /\ NeverStuck
=============================================================================
