------------------------------ MODULE Portfolio ------------------------------
(***************************************************************************)
(* The paper portfolio of prospective (contract 4) recommendations:        *)
(* forecasts/portfolio.py, forecasts/lifecycle.py, the record-keeping of   *)
(* forecasts/paper.py, generate_all_recommendations and the PostgreSQL     *)
(* triggers of migrations 0019 to 0024 that can abort a transaction.       *)
(*                                                                         *)
(* A batch job generates one recommendation per instrument, each committed *)
(* and then sized on its own, and assesses them together at the end, if    *)
(* none failed.  Hourly jobs reconcile one instrument: they assess what a  *)
(* failed batch left behind and close the decisions that are over.  The    *)
(* owner selects from an open cohort.  Paper trading enters and resolves.  *)
(*                                                                         *)
(* Assessment, selection and reconciliation hold the PortfolioGuard row    *)
(* from their first read to the commit, so each is one step; a             *)
(* reconciliation however reads its cutoff before it asks for the guard.   *)
(* Paper trading locks only the recommendation, one per transaction.  db   *)
(* holds what these transactions write; an operator on db returns the rows *)
(* after it, with err set when the code or a trigger raises: the           *)
(* transaction then leaves no trace.                                       *)
(***************************************************************************)
EXTENDS Integers, Sequences, FiniteSets, FiniteSetsExt

CONSTANTS
  MaxRecs,       \* bound: how many recommendations are ever made
  Instruments,   \* instrument ids, in display order
  Base, Quote,   \* base and quote currency of an instrument
  Action,        \* "buy", "sell" or "abstain", the model's output
  Risk,          \* projected_risk_cad of a recommendation's position size
  AggregateCap,  \* AGGREGATE_RISK_CAP_CAD
  DirectionCap,  \* CURRENCY_DIRECTION_RISK_CAP_CAD
  Window,        \* the 24 hours an owner has, in ticks
  Horizon,       \* from a target's first recommendation to its maturity
  Outcomes,      \* bound: the ends of a paper trade that are explored
  LockWait,      \* bound: ticks a reconciliation waits for the guard
  PolicyAt,      \* PortfolioPolicyActivation.effective_at
  MaxBatches,    \* bound: how many batches start
  LastBatch,     \* bound: the last tick at which one starts
  MaxTime,       \* bound: the last tick
  Crowd,         \* bound: with so many recommendations the time is cut ...
  CrowdTime      \* bound: ... to this last tick

ASSUME ConstantsAssumption ==
  /\ MaxRecs \in Nat
  /\ Instruments \subseteq Nat
  /\ DOMAIN Base = Instruments /\ DOMAIN Quote = Instruments
  /\ \A i \in Instruments : Base[i] # Quote[i]
  /\ Action \in [1..MaxRecs -> {"buy", "sell", "abstain"}]
  /\ Risk \in [1..MaxRecs -> Nat]
  /\ AggregateCap \in Nat /\ DirectionCap \in Nat
  /\ Window \in Nat \ {0} /\ Horizon \in Nat \ {0}
  /\ Outcomes \subseteq {"target_hit", "invalidated", "expired_after_entry",
                     "expired_not_activated", "expired_unobserved",
                     "missing_data"}
  /\ LockWait \in Nat
  /\ PolicyAt \in Nat /\ MaxBatches \in Nat /\ LastBatch \in Nat /\ MaxTime \in Nat
  /\ Crowd \in Nat /\ CrowdTime \in 1..MaxTime

\* Recommendation ids, in order of creation.
Recs == 1..MaxRecs

VARIABLES
  now,      \* the clock, from 1
  genAt,    \* Recommendation.generated_at, 0 before it exists
  inst,     \* Recommendation.instrument, 0 before it exists
  target,   \* target_occurrence, named by the first recommendation for it
  sizedAt,  \* PositionSizeAdvice.sized_at, 0 without one
  seenAt,   \* when an H1 candle that reaches the entry level was stored, or 0
  entryAt,  \* PaperTradeEntry.entered_at, 0 without one
  result,   \* PaperTradeResult: its outcome, or "none", and resolved_at
  db,       \* lifecycle events and refusals, cohorts with their selections
            \* and closures, latest admission events
  batch     \* the recommendation batch job

vars == <<now, genAt, inst, target, sizedAt, seenAt, entryAt, result, db, batch>>

facts == <<genAt, inst, target, sizedAt, seenAt, entryAt, result>>

-----------------------------------------------------------------------------
(* The lifecycle of a recommendation (forecasts/lifecycle.py)              *)

TRANSITIONS ==
  [none |-> {"abstained", "awaiting_portfolio_assessment"},
   abstained |-> {},
   awaiting_portfolio_assessment |->
     {"portfolio_ineligible", "awaiting_owner_decision", "cancelled"},
   portfolio_ineligible |-> {},
   awaiting_owner_decision |->
     {"admitted_awaiting_entry", "closed_unselected", "cancelled"},
   admitted_awaiting_entry |->
     {"entered", "admission_revoked", "expired_not_activated",
      "expired_unobserved", "missing_data", "cancelled"},
   entered |-> {"target_hit", "invalidated", "expired_after_entry",
                "missing_data"},
   closed_unselected |-> {}, admission_revoked |-> {}, cancelled |-> {},
   target_hit |-> {}, invalidated |-> {}, expired_after_entry |-> {},
   expired_not_activated |-> {}, expired_unobserved |-> {},
   missing_data |-> {}]

States == DOMAIN TRANSITIONS

\* project_lifecycle: the latest event with occurred_at <= asOf.
Projected(d, r, asOf) ==
  LET seen == {k \in DOMAIN d.chain[r] : d.chain[r][k].at <= asOf}
  IN IF seen = {} THEN "none" ELSE d.chain[r][Max(seen)].state

\* The latest event, whatever its time.
Current(d, r) ==
  IF d.chain[r] = << >> THEN "none" ELSE d.chain[r][Len(d.chain[r])].state

\* transition refuses a state the table does not allow, and an event older
\* than the recommendation or than its latest event.
Legal(d, r, s, at) ==
  /\ s \in TRANSITIONS[Current(d, r)]
  /\ at >= genAt[r]
  /\ d.chain[r] # << >> => at >= d.chain[r][Len(d.chain[r])].at

\* initialize: the first event of a recommendation.
InitialState(r) ==
  IF Action[r] = "abstain" THEN "abstained" ELSE "awaiting_portfolio_assessment"

\* An error ends the transaction: the first one is kept.
Raise(d, e) == IF d.err = "none" THEN [d EXCEPT !.err = e] ELSE d

\* transition, for every recommendation of S: a repeated call for a state
\* that is recorded already returns the recorded event.
Transition(d, S, s, at) ==
  LET new == {r \in S : \A k \in DOMAIN d.chain[r] : d.chain[r][k].state # s}
  IN IF \E r \in new : ~Legal(d, r, s, at)
     THEN Raise(d, "illegal_lifecycle_transition")
     ELSE [d EXCEPT !.chain =
            [r \in Recs |->
              IF r \in new THEN Append(d.chain[r], [state |-> s, at |-> at])
                           ELSE d.chain[r]]]

-----------------------------------------------------------------------------
(* Capacity                                                                *)

\* Mutant of Legs: only the base currency counts.
LegsOfBase(r) ==
  {<<Base[inst[r]], IF Action[r] = "buy" THEN 1 ELSE -1>>}

\* decompose_pair
Legs(r) ==
  LET i == inst[r]
  IN IF Action[r] = "buy" THEN {<<Base[i], 1>>, <<Quote[i], -1>>}
                        ELSE {<<Base[i], -1>>, <<Quote[i], 1>>}

\* The units of risk of the recommendations of S.
RiskUnits(S) == UNION {{r} \X (1..Risk[r]) : r \in S}

TotalRisk(S) == Cardinality(RiskUnits(S))

\* _capacity_usage and the two caps of _fits.
Fits(S) ==
  /\ TotalRisk(S) <= AggregateCap
  /\ \A leg \in UNION {Legs(r) : r \in S} :
       TotalRisk({r \in S : leg \in Legs(r)}) <= DirectionCap

\* _active_admitted: admitted, and still awaiting entry or entered.
Active(d) ==
  {r \in Recs : /\ d.adm[r] = "admitted"
                /\ Projected(d, r, now) \in {"admitted_awaiting_entry",
                                             "entered"}}

-----------------------------------------------------------------------------
(* Cohorts                                                                 *)

Maturity(r) == genAt[target[r]] + Horizon

\* owner_decision_deadline
Deadline(r) == Min({genAt[r] + Window, Maturity(r)})

Closed(c) == c.closure # "none"

\* cohort_has_triggered
Triggered(c, asOf) == \E r \in c.members : seenAt[r] \in 1..asOf

\* phase3_closure_evidence: a cohort is superseded only by a newer one with
\* another target for one of its instruments.
Supersedes(newer, c) ==
  /\ newer.gen > c.gen
  /\ \E r \in newer.members, q \in c.members :
       inst[r] = inst[q] /\ target[r] # target[q]

\* close_cohort, for every cohort of C: a closure is recorded once, and the
\* members that await the owner as of the cutoff are closed unselected.
CloseCohorts(d, C, why, asOf) ==
  LET closed == [d EXCEPT !.cohorts =
        [k \in DOMAIN d.cohorts |->
          IF k \in C /\ ~Closed(d.cohorts[k])
          THEN [d.cohorts[k] EXCEPT !.closure = why]
          ELSE d.cohorts[k]]]
      pending == {r \in UNION {d.cohorts[k].members : k \in C} :
                    Projected(d, r, asOf) = "awaiting_owner_decision"}
  IN Transition(closed, pending, "closed_unselected", asOf)

\* Mutant of SelectionError: prices are not looked at.
SelectionErrorOfTime(c) ==
  IF now >= c.deadline \/ now < c.gen \/ Closed(c) \/ c.sels # << >>
  THEN "decision_window_closed" ELSE "none"

\* phase3_selection_time, on every PortfolioSelection that is inserted.
SelectionError(c) ==
  IF now >= c.deadline \/ now < c.gen \/ Closed(c) \/ c.sels # << >>
  THEN "decision_window_closed"
  ELSE IF Triggered(c, now) THEN "decision_price_triggered" ELSE "none"

\* A selection of cohort k, and the admission events it makes.
WithSelection(d, k, ids, mode) ==
  LET c == d.cohorts[k]
      previous == IF c.sels = << >> THEN {} ELSE c.sels[Len(c.sels)].ids
      selected == [c EXCEPT !.sels =
                     Append(c.sels, [ids |-> ids, mode |-> mode, at |-> now])]
      admitted == [r \in Recs |-> IF r \in ids THEN "admitted"
                                  ELSE IF r \in previous THEN "revoked"
                                  ELSE d.adm[r]]
      d1 == [d EXCEPT !.cohorts = [d.cohorts EXCEPT ![k] = selected]]
  IN [d1 EXCEPT !.adm = admitted]

\* The lifecycle of the members follows a selection of ids, and the cohort is
\* closed.
SettleCohort(d, k, ids) ==
  LET d1 == Transition(d, {r \in ids : Projected(d, r, now) =
                                         "awaiting_owner_decision"},
                       "admitted_awaiting_entry", now)
      d2 == Transition(d1, {r \in d.cohorts[k].members \ ids :
                              Projected(d1, r, now) = "admitted_awaiting_entry"},
                       "admission_revoked", now)
  IN CloseCohorts(d2, {k}, "selection_recorded", now)

\* _record_selection for cohort k, with the capacity trigger at commit.
RecordSelection(d, k, ids, mode) ==
  LET error == SelectionError(d.cohorts[k])
      d1 == SettleCohort(WithSelection(d, k, ids, mode), k, ids)
  IN IF error # "none" THEN Raise(d, error)
     ELSE IF Fits(Active(d1)) THEN d1
     ELSE Raise(d1, "current_capacity_exceeded")

-----------------------------------------------------------------------------
(* assess_recommendation_batch                                             *)

\* Why a recommendation cannot join a cohort generated at g.
Refusal(d, r, g) ==
  IF genAt[r] < PolicyAt THEN "policy_not_effective"
  ELSE IF g >= Deadline(r) THEN "decision_window_expired"
  ELSE IF sizedAt[r] = 0 THEN "missing_versioned_sizing"
  ELSE IF \E k \in DOMAIN d.cohorts : /\ ~Closed(d.cohorts[k])
                                      /\ \E q \in d.cohorts[k].members :
                                           target[q] = target[r]
  THEN "existing_open_target_decision"
  ELSE "none"

\* A new cohort closes the older open ones that share an instrument with it.
Superseded(d, new) ==
  {k \in DOMAIN d.cohorts :
     /\ ~Closed(d.cohorts[k])
     /\ d.cohorts[k].gen < new.gen
     /\ \E r \in new.members, q \in d.cohorts[k].members :
          inst[r] = inst[q]}

\* phase3_member_evidence
MemberError(c) ==
  IF \E r \in c.members : sizedAt[r] > c.gen \/ genAt[r] > c.gen
  THEN "membership_evidence_mismatch" ELSE "none"

\* The cohort of the members generated at g, with the capacity it starts from.
NewCohort(d, members, g) ==
  [members |-> members, gen |-> g, base |-> Active(d) \ members, sels |-> << >>,
   deadline |-> Min({Deadline(r) : r \in members}), closure |-> "none"]

\* The members await the owner and older decisions are superseded.
PutToOwner(d, new) ==
  LET d1 == [d EXCEPT !.cohorts = Append(d.cohorts, new)]
      d2 == Transition(d1, new.members, "awaiting_owner_decision", now)
  IN CloseCohorts(d2, Superseded(d, new), "new_target_superseded", now)

\* A cohort that fits whole is selected at once.
OpenCohort(d, members, g) ==
  LET new == NewCohort(d, members, g)
      d1 == PutToOwner(d, new)
  IN IF MemberError(new) # "none" THEN Raise(d, MemberError(new))
     ELSE IF \E k \in Superseded(d, new) : ~Supersedes(new, d.cohorts[k])
     THEN Raise(d, "material_new_target_required")
     ELSE IF Fits(new.base \cup members)
     THEN RecordSelection(d1, Len(d1.cohorts), members, "automatic")
     ELSE d1

Assess(d, S, g) ==
  LET waiting == {r \in S : Projected(d, r, now) =
                              "awaiting_portfolio_assessment"}
      refused == {r \in waiting : Refusal(d, r, g) # "none"}
      d0 == Transition(d, refused, "portfolio_ineligible", now)
      d1 == [d0 EXCEPT !.refusal =
              [r \in Recs |-> IF r \in refused THEN Refusal(d, r, g)
                                              ELSE d.refusal[r]]]
  IN IF waiting = refused THEN d1 ELSE OpenCohort(d1, waiting \ refused, g)

-----------------------------------------------------------------------------
IdleBatch(count) ==
  [phase |-> "idle", count |-> count, at |-> 0, todo |-> {}, cur |-> 0,
   made |-> {}, failed |-> FALSE]

Init ==
  /\ now = 1
  /\ genAt = [r \in Recs |-> 0]
  /\ inst = [r \in Recs |-> 0]
  /\ target = [r \in Recs |-> r]
  /\ sizedAt = [r \in Recs |-> 0]
  /\ seenAt = [r \in Recs |-> 0]
  /\ entryAt = [r \in Recs |-> 0]
  /\ result = [r \in Recs |-> [outcome |-> "none", at |-> 0]]
  /\ db = [chain |-> [r \in Recs |-> << >>],
           refusal |-> [r \in Recs |-> "none"],
           cohorts |-> << >>,
           adm |-> [r \in Recs |-> "none"],
           err |-> "none"]
  /\ batch = IdleBatch(0)

Generated == {r \in Recs : genAt[r] # 0}

\* A guarded transaction that is one step: it commits or leaves no trace.
Commit(d) == db' = IF d.err = "none" THEN d ELSE db

\* The last tick of an instance with n recommendations.
LastTick(n) == IF n >= Crowd THEN CrowdTime ELSE MaxTime

Tick ==
  /\ now < LastTick(Cardinality(Generated))
  /\ now' = now + 1
  /\ UNCHANGED <<facts, db, batch>>

\* A complete H1 candle that reaches r's entry level is ingested (the one that
\* makes an instance crowded stays away from its level, a bound).
EntryLevelReached(r) ==
  /\ r \in Generated
  /\ Action[r] # "abstain"
  /\ seenAt[r] = 0 /\ result[r].outcome = "none"
  /\ now > genAt[r] /\ now <= Maturity(r)
  /\ r < Crowd
  /\ seenAt' = [seenAt EXCEPT ![r] = now]
  /\ UNCHANGED <<now, genAt, inst, target, sizedAt, entryAt, result, db, batch>>

-----------------------------------------------------------------------------
(* The batch job: generate_all_recommendations                             *)

BatchStart ==
  /\ batch.phase = "idle"
  /\ batch.count < MaxBatches /\ now <= LastBatch
  /\ batch' = [phase |-> "running", count |-> batch.count + 1, at |-> now, todo |-> Instruments,
               cur |-> 0, made |-> {}, failed |-> FALSE]
  /\ UNCHANGED <<now, facts, db>>

\* The instrument whose turn it is.
BatchTurn(i) ==
  /\ batch.phase = "running" /\ batch.cur = 0
  /\ i \in batch.todo /\ \A j \in batch.todo : i <= j

Turned(i) == [batch EXCEPT !.todo = batch.todo \ {i}]

Latest(i) ==
  {r \in Generated : inst[r] = i
     /\ \A q \in Generated : inst[q] = i => q <= r}

\* generate_recommendation commits a recommendation with its first lifecycle
\* event; its target is a new one, or that of the instrument's latest.
Generate(i, r, t) ==
  /\ BatchTurn(i)
  /\ r \notin Generated /\ \A q \in Recs \ Generated : r <= q
  /\ now <= LastTick(Cardinality(Generated) + 1)
  /\ t \in {r} \cup {target[q] : q \in Latest(i)}
  /\ t # r => batch.at < genAt[t] + Horizon
  /\ genAt' = [genAt EXCEPT ![r] = batch.at]
  /\ inst' = [inst EXCEPT ![r] = i]
  /\ target' = [target EXCEPT ![r] = t]
  /\ db' = [db EXCEPT !.chain =
             [db.chain EXCEPT ![r] = <<[state |-> InitialState(r),
                                        at |-> batch.at]>>]]
  /\ batch' = [Turned(i) EXCEPT !.cur = r]
  /\ UNCHANGED <<now, sizedAt, seenAt, entryAt, result>>

\* Unchanged evidence has the key of an existing recommendation: a retry
\* gets that one.
GenerateExisting(i, r) ==
  /\ BatchTurn(i)
  /\ r \in Latest(i)
  /\ batch' = [Turned(i) EXCEPT !.cur = r]
  /\ UNCHANGED <<now, facts, db>>

GenerateFails(i) ==
  /\ BatchTurn(i)
  /\ batch' = [Turned(i) EXCEPT !.failed = TRUE]
  /\ UNCHANGED <<now, facts, db>>

\* size_recommendation, with the batch's time; it locks the recommendation.
SizeRecommendation ==
  LET r == batch.cur
  IN /\ r # 0
     /\ sizedAt' = IF Action[r] # "abstain" /\ sizedAt[r] = 0
                   THEN [sizedAt EXCEPT ![r] = batch.at] ELSE sizedAt
     /\ batch' = [[batch EXCEPT !.made = batch.made \cup {r}] EXCEPT !.cur = 0]
     /\ UNCHANGED <<now, genAt, inst, target, seenAt, entryAt, result, db>>

\* There is no conversion path to CAD, or the cap cannot fund one unit.
SizingFails ==
  /\ batch.cur # 0 /\ sizedAt[batch.cur] = 0
  /\ Action[batch.cur] # "abstain"
  /\ batch' = [[batch EXCEPT !.failed = TRUE] EXCEPT !.cur = 0]
  /\ UNCHANGED <<now, facts, db>>

BatchAssess ==
  /\ batch.phase = "running" /\ batch.todo = {} /\ batch.cur = 0
  /\ ~batch.failed
  /\ Commit(Assess(db, batch.made, batch.at))
  /\ batch' = IdleBatch(batch.count)
  /\ UNCHANGED <<now, facts>>

\* The batch is incomplete, or its worker stops at any point.
BatchEnds ==
  /\ batch.phase = "running"
  /\ batch' = IdleBatch(batch.count)
  /\ UNCHANGED <<now, facts, db>>

-----------------------------------------------------------------------------
(* reconcile_lifecycle                                                     *)

\* The lifecycle state a recorded paper result stands for.
OutcomeState ==
  [target |-> "target_hit", invalidated |-> "invalidated",
   expired |-> "expired_after_entry", not_activated |-> "expired_not_activated"]

\* Mutant of ReconcileRec: what is too late to assess is left alone.
ReconcileRecInTime(d, r, asOf) ==
  IF /\ Projected(d, r, asOf) = "awaiting_portfolio_assessment"
     /\ asOf < genAt[r] + Window
  THEN Assess(d, {r}, asOf) ELSE d

\* One recommendation: a missed assessment is made within 24 hours and
\* cancelled after; recorded entries and results are repeated.
ReconcileRec(d, r, asOf) ==
  LET d1 == IF Projected(d, r, asOf) # "awaiting_portfolio_assessment" THEN d
            ELSE IF asOf >= genAt[r] + Window
            THEN Transition(d, {r}, "cancelled", asOf)
            ELSE Assess(d, {r}, asOf)
      d2 == IF entryAt[r] \in 1..asOf
               /\ Projected(d1, r, asOf) = "admitted_awaiting_entry"
            THEN Transition(d1, {r}, "entered", asOf) ELSE d1
  IN IF result[r].outcome = "none" \/ result[r].at > asOf THEN d2
     ELSE Transition(d2, {r}, OutcomeState[result[r].outcome], asOf)

\* Every open cohort past its deadline or with a trigger is closed.
ReconcileCohorts(d, asOf) ==
  LET open == {k \in DOMAIN d.cohorts : ~Closed(d.cohorts[k])
                                        /\ d.cohorts[k].gen <= asOf}
      late == {k \in open : d.cohorts[k].deadline <= asOf}
      hit == {k \in open \ late : Triggered(d.cohorts[k], asOf)}
  IN CloseCohorts(CloseCohorts(d, late, "decision_deadline", asOf),
                  hit, "entry_trigger_before_selection", asOf)

\* The recommendations of other instruments, and those made later, are left;
\* an error ends the loop.
ReconcileOf(i, d, r, asOf) ==
  IF d.err = "none" /\ r \in Generated /\ inst[r] = i /\ genAt[r] <= asOf
  THEN ReconcileRec(d, r, asOf) ELSE d

\* The instrument's recommendations, newest first, and then the cohorts of
\* all instruments.
Reconciled(i, asOf) ==
  LET after[n \in 0..MaxRecs] ==
        IF n = 0 THEN db ELSE ReconcileOf(i, after[n - 1], MaxRecs + 1 - n, asOf)
  IN ReconcileCohorts(after[MaxRecs], asOf)

\* The cutoff was read up to LockWait ticks before the guard was granted
\* (in a crowded instance, in the same tick).
Wait == IF Cardinality(Generated) >= Crowd THEN 0 ELSE LockWait
Reconcile(i, asOf) ==
  /\ asOf \in (now - Wait)..now
  /\ Commit(Reconciled(i, asOf))
  /\ UNCHANGED <<now, facts, batch>>

-----------------------------------------------------------------------------
(* select_portfolio_cohort: the owner's POST                               *)

\* cohort_is_open
IsOpen(c) ==
  /\ c.sels = << >>
  /\ ~Closed(c) /\ now < c.deadline
  /\ \A r \in c.members :
       Current(db, r) \notin {"expired_unobserved", "cancelled", "missing_data"}
  /\ ~Triggered(c, now)

\* Mutant of MaySelect: only the capacity frozen with the cohort is checked.
MaySelectFromSnapshot(k, ids) ==
  LET c == db.cohorts[k]
  IN IsOpen(c) /\ Fits(c.base \cup ids)

\* What select_portfolio_cohort checks before it records: the cohort is open,
\* and the selection fits the capacity frozen with the cohort as well as
\* what is left of the capacity now.
MaySelect(k, ids) ==
  LET c == db.cohorts[k]
  IN /\ IsOpen(c)
     /\ Fits(c.base \cup ids)
     /\ Fits((Active(db) \ c.members) \cup ids)

Select(k, ids) ==
  /\ ids \subseteq db.cohorts[k].members
  /\ MaySelect(k, ids)
  /\ Commit(RecordSelection(db, k, ids, "owner"))
  /\ UNCHANGED <<now, facts, batch>>

-----------------------------------------------------------------------------
(* resolve_paper_trade                                                     *)

\* What can end a trade in one call, by what the H1 candles and the target's
\* resolution show: an exit is seen at any time, the rest at maturity.
EnteredOutcomes(r) ==
  {"none"} \cup (Outcomes \cap
    ({"target_hit", "invalidated"} \cup
     IF now >= Maturity(r) THEN {"expired_after_entry", "missing_data"} ELSE {}))

PendingOutcomes(r) ==
  IF now < Maturity(r) THEN {}
  ELSE Outcomes \cap
       ({"expired_unobserved"} \cup
        IF seenAt[r] = 0 THEN {"expired_not_activated", "missing_data"} ELSE {})

\* The coverage states (expired_unobserved, missing_data) have no result.
RecordedResult(s) ==
  IF \E o \in DOMAIN OutcomeState : OutcomeState[o] = s
  THEN [outcome |-> CHOOSE o \in DOMAIN OutcomeState : OutcomeState[o] = s,
        at |-> now]
  ELSE [outcome |-> "none", at |-> 0]

\* The guards of resolve_paper_trade.
MayResolve(r) ==
  /\ r \in Generated
  /\ result[r].outcome = "none"
  /\ db.adm[r] = "admitted"
  /\ Projected(db, r, now) \in {"admitted_awaiting_entry", "entered"}

\* Mutant of PaperEnds: the result is recorded, its lifecycle event is not.
PaperEndsSilently(r, d, s) ==
  /\ db' = d
  /\ db'.err = "none"
  /\ result' = [result EXCEPT ![r] = RecordedResult(s)]
  /\ UNCHANGED <<now, genAt, inst, target, sizedAt, seenAt, batch>>

\* The outcome is recorded with its lifecycle event.
PaperEnds(r, d, s) ==
  /\ db' = IF s = "none" THEN d ELSE Transition(d, {r}, s, now)
  /\ db'.err = "none"
  /\ result' = [result EXCEPT ![r] = RecordedResult(s)]
  /\ UNCHANGED <<now, genAt, inst, target, sizedAt, seenAt, batch>>

\* The entry level was reached: the entry is recorded, and what followed it.
PaperEnter(r, s) ==
  /\ MayResolve(r) /\ entryAt[r] = 0
  /\ seenAt[r] # 0
  /\ s \in EnteredOutcomes(r)
  /\ entryAt' = [entryAt EXCEPT ![r] = now]
  /\ PaperEnds(r, Transition(db, {r}, "entered", now), s)

PaperExit(r, s) ==
  /\ MayResolve(r) /\ entryAt[r] # 0
  /\ s \in EnteredOutcomes(r) \ {"none"}
  /\ UNCHANGED entryAt
  /\ PaperEnds(r, db, s)

PaperLapse(r, s) ==
  /\ MayResolve(r) /\ entryAt[r] = 0
  /\ s \in PendingOutcomes(r)
  /\ UNCHANGED entryAt
  /\ PaperEnds(r, db, s)

-----------------------------------------------------------------------------
Batch ==
  \/ BatchStart
  \/ \E i \in Instruments, r \in Recs :
       \/ \E t \in Recs : Generate(i, r, t)
       \/ GenerateExisting(i, r)
  \/ \E i \in Instruments : GenerateFails(i)
  \/ SizeRecommendation
  \/ SizingFails
  \/ BatchAssess
  \/ BatchEnds

Owner == \E k \in DOMAIN db.cohorts : \E ids \in SUBSET db.cohorts[k].members :
           Select(k, ids)

Paper == \E r \in Recs, s \in States :
           PaperEnter(r, s) \/ PaperExit(r, s) \/ PaperLapse(r, s)

Next ==
  \/ Tick
  \/ \E r \in Recs : EntryLevelReached(r)
  \/ Batch
  \/ \E i \in Instruments, asOf \in 1..now : Reconcile(i, asOf)
  \/ Owner
  \/ Paper

Spec == Init /\ [][Next]_vars

-----------------------------------------------------------------------------
(* Properties                                                              *)

Times == 0..MaxTime

Event == [state : States \ {"none"}, at : Times]

Selection == [ids : SUBSET Recs, mode : {"automatic", "owner"}, at : Times]

Refusals ==
  {"none", "policy_not_effective", "decision_window_expired",
   "missing_versioned_sizing", "existing_open_target_decision"}

Errors ==
  {"none", "illegal_lifecycle_transition", "decision_window_closed",
   "decision_price_triggered", "current_capacity_exceeded",
   "membership_evidence_mismatch", "material_new_target_required"}

Cohort ==
  [members : SUBSET Recs, gen : Times, base : SUBSET Recs,
   sels : Seq(Selection), deadline : Nat,
   closure : {"none", "selection_recorded", "new_target_superseded",
              "decision_deadline", "entry_trigger_before_selection"}]

Dbs ==
  [chain : [Recs -> Seq(Event)], refusal : [Recs -> Refusals],
   cohorts : Seq(Cohort), adm : [Recs -> {"none", "admitted", "revoked"}],
   err : Errors]

\* The rows have the shapes of the models in forecasts/models.py.
TypeOK ==
  /\ now \in 1..MaxTime
  /\ genAt \in [Recs -> Times] /\ sizedAt \in [Recs -> Times]
  /\ seenAt \in [Recs -> Times] /\ entryAt \in [Recs -> Times]
  /\ inst \in [Recs -> Instruments \cup {0}] /\ target \in [Recs -> Recs]
  /\ result \in [Recs -> [outcome : DOMAIN OutcomeState \cup {"none"},
                          at : Times]]
  /\ db \in Dbs /\ db.err = "none"

\* The risk of the active admissions in one direction of one currency,
\* counted from the pair and the action of each (what decompose_pair is for).
DirectionRisk(currency, long) ==
  TotalRisk({r \in Active(db) :
    \/ currency = Base[inst[r]] /\ long = (Action[r] = "buy")
    \/ currency = Quote[inst[r]] /\ long = (Action[r] = "sell")})

\* Whatever batches, reconciliations, owner selections and paper trades do,
\* the admissions that carry risk stay within AGGREGATE_RISK_CAP_CAD and,
\* for each currency and direction, CURRENCY_DIRECTION_RISK_CAP_CAD.
ActiveRiskWithinCaps ==
  /\ TotalRisk(Active(db)) <= AggregateCap
  /\ \A i \in Instruments, long \in BOOLEAN :
       /\ DirectionRisk(Base[i], long) <= DirectionCap
       /\ DirectionRisk(Quote[i], long) <= DirectionCap

\* The checks of the code are enough: a selection that passes the checks of
\* select_portfolio_cohort, and a batch that is ready, are never aborted by
\* the capacity, window or supersession triggers of the database.  (A batch
\* may be too late, or its entry level reached: that is a refusal by design.)
BackstopsNeverFire ==
  /\ \A k \in DOMAIN db.cohorts : \A ids \in SUBSET db.cohorts[k].members :
       MaySelect(k, ids) => RecordSelection(db, k, ids, "owner").err = "none"
  /\ batch.phase = "running" /\ batch.todo = {} /\ batch.cur = 0 =>
       Assess(db, batch.made, batch.at).err \in
         {"none", "decision_window_closed", "decision_price_triggered",
          "membership_evidence_mismatch"}

\* No selection, automatic or the owner's, is recorded with hindsight: after
\* the deadline or after a member's entry level was seen to be reached.
NoHindsightSelection ==
  [][\A k \in DOMAIN db'.cohorts :
       LET c == db'.cohorts[k]
       IN /\ c.sels # << >>
          /\ k \in DOMAIN db.cohorts => c.sels # db.cohorts[k].sels
          => now < c.deadline /\ \A r \in c.members : seenAt[r] = 0]_vars

\* A selection ends the decision: it is the only one, the cohort is closed,
\* its members are admitted exactly as selected, and none waits for the owner.
SelectionSettlesCohort ==
  \A k \in DOMAIN db.cohorts :
    LET c == db.cohorts[k]
    IN c.sels # << >> =>
         /\ Len(c.sels) = 1 /\ Closed(c)
         /\ \A r \in c.members :
              /\ (r \in c.sels[1].ids) = (db.adm[r] = "admitted")
              /\ Current(db, r) # "awaiting_owner_decision"

\* assess_recommendation_batch: a cohort is not open next to a later one for
\* one of its instruments that was generated after it.
SupersededCohortsAreClosed ==
  \A k, n \in DOMAIN db.cohorts :
    LET c == db.cohorts[k]
        d == db.cohorts[n]
    IN /\ k < n /\ c.gen < d.gen
       /\ \E r \in c.members, q \in d.members : inst[r] = inst[q]
       => Closed(c)

\* Repeated targets cannot open competing owner decisions.
OneOpenDecisionPerTarget ==
  LET open == UNION {db.cohorts[k].members :
                       k \in {n \in DOMAIN db.cohorts : ~Closed(db.cohorts[n])}}
  IN \A r, q \in open : target[r] = target[q] => r = q

\* transition keeps one legal chain per recommendation: it follows the table
\* from the first event on and its times never decrease.
ChainsAreLegal ==
  \A r \in Generated :
    LET c == db.chain[r]
    IN /\ c[1].state = InitialState(r) /\ c[1].at = genAt[r]
       /\ \A k \in 1..(Len(c) - 1) : /\ c[k + 1].state \in TRANSITIONS[c[k].state]
                                     /\ c[k + 1].at >= c[k].at

\* The canonical chain and the paper facts tell one story: only an admitted
\* member of its cohort's selection is live, an entry belongs to a live or
\* ended trade, and a recorded result is what the chain ends with.
FactsMatchLifecycle ==
  \A r \in Recs :
    /\ Current(db, r) \in {"admitted_awaiting_entry", "entered"} =>
         /\ db.adm[r] = "admitted"
         /\ \E k \in DOMAIN db.cohorts :
              \E n \in DOMAIN db.cohorts[k].sels : r \in db.cohorts[k].sels[n].ids
    /\ Current(db, r) = "entered" => entryAt[r] # 0 /\ result[r].outcome = "none"
    /\ Current(db, r) = "admitted_awaiting_entry" => entryAt[r] = 0
    /\ entryAt[r] # 0 => \E k \in DOMAIN db.chain[r] :
                           db.chain[r][k].state = "entered"
    /\ result[r].outcome # "none" => Current(db, r) = OutcomeState[result[r].outcome]

\* An assessment cannot stay open for ever.  Once no recommendation of the
\* instrument is within its 24 hours, nothing a failed batch, the owner, paper
\* trading or the clock has left behind makes the instrument's reconciliation
\* raise, and it leaves none of them awaiting assessment.
AssessmentEnds ==
  \A i \in Instruments :
    LET recs == {r \in Generated : inst[r] = i}
    IN (\A r \in recs : now >= genAt[r] + Window) =>
         /\ Reconciled(i, now).err = "none"
         /\ \A r \in recs : Current(Reconciled(i, now), r) #
                               "awaiting_portfolio_assessment"

\* The record of every decision is consistent, whatever batches, owner
\* selections, paper trades and reconciliations with stale cutoffs did to it:
\* rows keep their shapes, chains are legal, the paper facts match them, a
\* selection settles its cohort, and open cohorts do not compete.
DecisionsAreConsistent ==
  /\ TypeOK
  /\ ChainsAreLegal
  /\ FactsMatchLifecycle
  /\ SelectionSettlesCohort
  /\ SupersededCohortsAreClosed
  /\ OneOpenDecisionPerTarget
=============================================================================
