--------------------------- MODULE ValidationReplay ---------------------------
(***************************************************************************)
(* What the validation computes from the acquired candles, with no state:  *)
(* the retrospective execution of a setup (validation_execution.py), the   *)
(* rows of one day and the exposure of a daily forecast                    *)
(* (validation_batch.py).                                                  *)
(*                                                                         *)
(* Time is an interval number from 1 and day d is DayLength intervals; the *)
(* development period is days 0 to EndDay - 1.  Market[c] is what content  *)
(* c of the acquired chunks says: the evaluated decisions, the intervals   *)
(* present, those that touch a stop or a target, those whose opening       *)
(* cannot be filled, rollovers, conversion rates and results.  Hashes are  *)
(* equality with what they digest.                                         *)
(***************************************************************************)
EXTENDS Integers, Sequences, SequencesExt, FiniteSetsExt, Functions

CONSTANTS
    Strategies,  \* the directional strategies, the blocked ones included
    BLOCKED,     \* strategies whose mandatory evidence does not exist
    OVERLAYS,    \* the paired risk views, a sequence
    Pairs,       \* the instruments, a sequence
    Scenarios,   \* of execution
    DayLength, EndDay,
    Market       \* what each content of the chunks says

None == 0
Chains == Strategies \X Range(Pairs)
End == EndDay * DayLength + 1
NoneActive == [sc \in Scenarios |-> None]

-----------------------------------------------------------------------------
(* Execution of one setup.                                                 *)

\* Amounts count in shares of the full risk of a trade.
Full == 2
NoFit == 0 - 1

Result(state, reason) == [state |-> state, reason |-> reason, entered |-> None,
                          exited |-> None, net |-> 0]
unavailable(reason) == Result("unavailable", reason)

conversion(m, t) == t \in m.conv
crosses_rollover(m, entry, end) == \E t \in m.rolls : entry <= t /\ t <= end

EntryAt(setup, sc) == IF sc = "extra_interval_latency" THEN setup.entry + 1 ELSE setup.entry

\* The interval at which the walk from the entry stops: a gap, a rollover, a
\* touched stop or target, or the time stop.
LastInterval(m, setup, entry) ==
    Min({t \in entry..(setup.exit - 1) :
           \/ t \notin m.series \/ crosses_rollover(m, entry, t + 1)
           \/ t \in m.hits \/ t + 1 >= setup.exit})

Exit(m, setup, entry) ==
    LET t == LastInterval(m, setup, entry)
    IN IF t \notin m.series THEN unavailable("outcome_interval_gap")
       ELSE IF crosses_rollover(m, entry, t + 1) THEN unavailable("rollover_unavailable")
       ELSE IF ~conversion(m, t + 1) THEN unavailable("exit_conversion_unavailable")
       ELSE [state |-> "modeled", reason |-> IF t \in m.hits THEN "hit" ELSE "time_stop",
             entered |-> entry, exited |-> t + 1, net |-> Full * setup.net]

simulate(m, setup, sc) ==
    LET entry == EntryAt(setup, sc)
    IN IF entry > setup.entry /\ (entry > setup.expires \/ entry >= setup.exit)
       THEN unavailable("extra_latency_expired")
       ELSE IF setup.exit > End THEN unavailable("sealed_outcome_horizon")
       ELSE IF ~((setup.signal + 1)..(entry - 1) \subseteq m.series)
       THEN unavailable("pre_entry_interval_gap")
       ELSE IF entry \notin m.series THEN unavailable("next_interval_missing")
       ELSE IF entry \in m.unfillable THEN unavailable("entry_gap_outside_geometry")
       ELSE IF ~conversion(m, setup.available) THEN unavailable("decision_conversion_unavailable")
       ELSE Exit(m, setup, entry)

-----------------------------------------------------------------------------
(* The rows of a day.                                                      *)

opportunities(day) == [i \in 1..DayLength |-> day * DayLength + i]

NoSetup(reason) == [reason |-> reason]
IsSetup(decision) == "entry" \in DOMAIN decision

selection(m, chain, at) ==
    IF chain[1] \in BLOCKED THEN NoSetup("blocked")
    ELSE IF <<chain, at>> \in DOMAIN m.setups THEN m.setups[<<chain, at>>]
    ELSE NoSetup("no_qualified_pullback")

\* The paired risk of an overlay: a multiplier of at most the full risk.
Risk(overlay, decision) ==
    IF overlay = "macro" THEN [multiplier |-> NoFit, reason |-> "blocked"]
    ELSE IF ~IsSetup(decision) THEN [multiplier |-> NoFit, reason |-> "baseline_has_no_setup"]
    ELSE [multiplier |-> decision.multiplier, reason |-> IF decision.multiplier = NoFit THEN "no_fit" ELSE "capped"]

row_reason(decision) ==
    Result(IF decision.reason = "no_qualified_pullback" THEN "no_setup" ELSE "unavailable",
           decision.reason)

Occupied == Result("occupied", "prior_position_active")
IsActive(active, sc, at) == active[sc] # None /\ at < active[sc]

RowResult(m, decision, active, at, sc) ==
    IF IsActive(active, sc, at) THEN Occupied
    ELSE IF ~IsSetup(decision) THEN row_reason(decision)
    ELSE simulate(m, decision, sc)

\* An unavailable result still reserves the setup's own horizon.
Reserved(active, decision, at, results) ==
    [sc \in Scenarios |->
       IF IsActive(active, sc, at) \/ ~IsSetup(decision) THEN active[sc]
       ELSE IF results[sc].state = "modeled" THEN results[sc].exited ELSE decision.exit]

RowStep(m, chain, acc, at) ==
    LET decision == selection(m, chain, at)
        results == [sc \in Scenarios |-> RowResult(m, decision, acc.active, at, sc)]
    IN [rows |-> Append(acc.rows, [at |-> at, chain |-> chain, decision |-> decision,
                                   scenarios |-> results,
                                   overlays |-> [v \in Range(OVERLAYS) |-> Risk(v, decision)],
                                   stratum |-> IF IsSetup(decision) THEN decision.stratum ELSE "unavailable"]),
        active |-> Reserved(acc.active, decision, at, results)]

DayRows(m, chain, times, active) ==
    FoldLeft(LAMBDA acc, at : RowStep(m, chain, acc, at), [rows |-> <<>>, active |-> active], times)

day_rows(m, chain, day, active) == DayRows(m, chain, opportunities(day), active)

\* The reference: one pass over the whole period, with no checkpoint in it.
WholePeriod(m, chain) == DayRows(m, chain, [i \in 1..(End - 1) |-> i], NoneActive).rows

=============================================================================
