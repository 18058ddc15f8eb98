------------------------------ MODULE ReturnCalc ------------------------------
(***************************************************************************)
(* One physical event of the exploratory return study: how the adapter     *)
(* (exploratory_return_adapter_v2.py) prepares it from the sealed          *)
(* inventory, and how the calculator (exploratory_returns_v2.py) resolves  *)
(* and prices it.                                                          *)
(*                                                                         *)
(* Time is an hour number; an H1 candle starting at s completes at s + 1.  *)
(* 17:00 New York is every multiple of DayLen.  Prices are integers, the   *)
(* ask is the bid plus the event's spread.  Decimal rounding, the cost     *)
(* grid's rates and the bootstrap are left out: a financing charge is the  *)
(* number of nights it is charged for.                                     *)
(***************************************************************************)
EXTENDS Integers, FiniteSets, FiniteSetsExt

CONSTANTS
    DayLen,          \* hours between two 17:00 New York marks
    RollDays,        \* weekdays (0..6) on which a position is rolled over
    TripleDay,       \* the weekday charged three nights
    HorizonSessions  \* provider-D completions until the horizon

(* What the sealed evidence holds of one event: h1 and d are the instrument's  *)
(* H1 starts and D completions, conv the H1 starts of the CAD conversion pair; *)
(* bar gives bid open, low and high by H1 start, close the D midpoints.        *)
Sign(e) == IF e.dir = "long" THEN 1 ELSE -1
Open(e, s) == IF e.dir = "long" THEN e.bar[s].open ELSE e.bar[s].open + e.spread
EntryPrice(e) == IF e.dir = "long" THEN e.bar[e.entry].open + e.spread ELSE e.bar[e.entry].open

NoTime == -1

(* _horizon: the first H1 start at or after the tenth D completion that     *)
(* follows the entry; NoTime when the inventory ends before it.             *)
Horizon(e) ==
    LET after == {c \in e.d : c > e.entry}
        last == {c \in after : Cardinality({x \in after : x <= c}) = HorizonSessions}
        starts == {s \in e.h1 : \E c \in last : s >= c}
    IN  IF starts = {} THEN NoTime ELSE Min(starts)

Weekday(t) == (t \div DayLen) % 7
IsMark(t) == t % DayLen = 0

RolloverTimes(entry, exit) ==
    {t \in (entry + 1)..exit : IsMark(t) /\ Weekday(t) \in RollDays}
Nights(t) == IF Weekday(t) = TripleDay THEN 3 ELSE 1

(* The last sealed H1 candle completed at or before t, or strictly before it. *)

CompletedBy(starts, t) == {s + 1 : s \in {x \in starts : x + 1 <= t}}
PriorCompletion(starts, t) == Max(CompletedBy(starts, t))
ConversionAt(e, t) == CompletedBy(e.conv, t - 1)

MarkTimes(entry, horizon) == {t \in entry..horizon : IsMark(t)}

-----------------------------------------------------------------------------
(* load_normalized_events: the times at which a price may be needed are    *)
(* fixed from the inventory before any price is read.                      *)
DecisionTimes(e, starts) ==
    {e.entry, Horizon(e)} \cup {s + 1 : s \in starts}
    \cup RolloverTimes(e.entry, Horizon(e)) \cup MarkTimes(e.entry, Horizon(e))

Refused == [status |-> "refused"]

(* _normalize_event *)
Normalized(e) ==
    LET horizon == Horizon(e)
        starts == {s \in e.h1 : s >= e.entry /\ s <= horizon}
        rolls == RolloverTimes(e.entry, horizon)
        marks == MarkTimes(e.entry, horizon)
    IN  [status |-> "loaded", horizon |-> horizon, starts |-> starts,
         sessions |-> {c \in e.d : c > e.entry /\ c <= horizon},
         rolls |-> [t \in rolls |-> PriorCompletion(e.h1, t)],
         marks |-> [t \in marks |-> PriorCompletion(e.h1, t)],
         conversions |-> [t \in DecisionTimes(e, starts) |-> Max(ConversionAt(e, t))]]

LoadEvent(e) ==
    LET horizon == Horizon(e)
        starts == {s \in e.h1 : s >= e.entry /\ s <= horizon}
    IN  IF /\ horizon # NoTime
           /\ e.entry \in starts
           /\ \A t \in DecisionTimes(e, starts) : ConversionAt(e, t) # {}
           /\ \A t \in RolloverTimes(e.entry, horizon) \cup MarkTimes(e.entry, horizon) :
                 CompletedBy(e.h1, t) # {}
        THEN Normalized(e)
        ELSE Refused

-----------------------------------------------------------------------------
(* resolve_event *)

StopTouch(e, s) ==
    IF e.dir = "long" THEN e.bar[s].low <= e.stop ELSE e.bar[s].high + e.spread >= e.stop
TargetTouch(e, s) ==
    IF e.dir = "long" THEN e.bar[s].high >= e.target ELSE e.bar[s].low + e.spread <= e.target
\* Mutant of StopFill.
StopFill_AtStop(e, s) == e.stop

StopFill(e, s) ==
    IF Sign(e) * Open(e, s) < Sign(e) * e.stop THEN Open(e, s) ELSE e.stop

(* _structure_due: a daily candle completed after the entry and by the     *)
(* bar's open closed beyond the supporting swing.                          *)
StructureDue(e, n, s) ==
    \E c \in n.sessions : c <= s /\ Sign(e) * e.close[c] < Sign(e) * e.swing

(* _event_input and the entry checks of resolve_event. *)
EventInput(e, n) ==
    /\ Cardinality(n.sessions) >= HorizonSessions
    /\ n.horizon = Horizon(e)
    /\ e.entry < n.horizon
    /\ Sign(e) * e.stop < Sign(e) * EntryPrice(e)
    /\ Sign(e) * EntryPrice(e) < Sign(e) * e.target
    /\ Sign(e) * Open(e, e.entry) > Sign(e) * e.stop

(* A scheduled exit at a bar's open comes first, then the stop, then the target. *)
ResolveEvent(e, n) ==
    LET AtOpen(s) == s # e.entry /\ (StructureDue(e, n, s) \/ s = n.horizon)
        last == Min({s \in n.starts : AtOpen(s) \/ StopTouch(e, s) \/ TargetTouch(e, s)})
        Exit(terminal, at, price) ==
            [status |-> "resolved", bar |-> last, terminal |-> terminal, at |-> at, price |-> price]
    IN  IF ~EventInput(e, n) THEN [status |-> "unresolved"]
        ELSE IF AtOpen(last)
             THEN Exit(IF StructureDue(e, n, last) THEN "DAILY_STRUCTURE" ELSE "HORIZON",
                       last, Open(e, last))
        ELSE IF StopTouch(e, last) THEN Exit("STOP", last + 1, StopFill(e, last))
        ELSE Exit("TARGET", last + 1, e.target)

(* _governed_rollovers_through: the preload is checked against the whole   *)
(* horizon, the charge is for the nights held.                             *)

RolloversMatch(e, n, r) == DOMAIN n.rolls = RolloverTimes(e.entry, n.horizon)
Financing(e, n, r) ==
    MapThenSumSet(Nights, {t \in DOMAIN n.rolls : t <= r.at})

(* daily_equity_series: a position open at a 17:00 mark needs that mark.   *)
MarksUsed(e, r) == MarkTimes(e.entry, r.at - 1)

(* calculate_synthetic_cohort: resolve, then the cost grid, then equity.   *)
Calculate(e, n) ==
    LET r == ResolveEvent(e, n)
    IN  IF r.status # "resolved" THEN r
        ELSE IF /\ r.at \in DOMAIN n.conversions
                /\ e.entry < r.at /\ r.at <= n.horizon
                /\ RolloversMatch(e, n, r)
                /\ MarksUsed(e, r) \subseteq DOMAIN n.marks
        THEN [status |-> "priced", event |-> e, exit |-> r, nights |-> Financing(e, n, r),
              used |-> {<<t, n.marks[t]>> : t \in MarksUsed(e, r)}
                       \cup {<<t, n.rolls[t]>> : t \in {x \in DOMAIN n.rolls : x <= r.at}}
                       \cup {<<r.at, n.conversions[r.at]>>}]
        ELSE [status |-> "unpriced", event |-> e, exit |-> r]

-----------------------------------------------------------------------------
(* The times fixed in advance hold the end of every hour, but not the start  *)
(* of one that follows a gap, unless it is a mark or the horizon: a daily     *)
(* close that ends the position there finds no conversion.                    *)
Unforeseen(e, r) ==
    /\ r.terminal = "DAILY_STRUCTURE"
    /\ r.at # Horizon(e) /\ r.at - 1 \notin e.h1 /\ ~IsMark(r.at)

(* What a position really filled inside a bar could have earned: the ticks  *)
(* start at the open and visit the low and the high in either order.        *)
TickExits(e, s) ==
    LET open == Sign(e) * Open(e, s)
    IN  IF open <= Sign(e) * e.stop \/ open >= Sign(e) * e.target THEN {Open(e, s)}
        ELSE (IF StopTouch(e, s) THEN {e.stop} ELSE {})
             \cup (IF TargetTouch(e, s) THEN {e.target} ELSE {})
=============================================================================
