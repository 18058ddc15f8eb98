------------------------------ MODULE Targets ------------------------------
(***************************************************************************)
(* Daily targets of one instrument, the mechanical controls issued for     *)
(* them and the outcomes shared by every prediction of a target            *)
(* (forecasts/targets.py, forecasts/services.py under migrations 0019 to   *)
(* 0031), over the daily candles and technical calculations they are       *)
(* built from (market/services.py).                                        *)
(*                                                                         *)
(* Session d is complete at time d * Session.  A fact carries the time its *)
(* writer read from the clock, which is not the time it becomes visible:   *)
(* an ingestion stamps its run before it commits, a reconciliation reads   *)
(* its cutoff before it waits for the instrument's row.  Hashes are        *)
(* equality with what they digest, so a target is known by its reference   *)
(* session and by the technical calculation that gave its neutral band and *)
(* its information cutoff.  The instrument has more history than its       *)
(* indicators need.                                                        *)
(***************************************************************************)
EXTENDS Integers, SequencesExt, FiniteSetsExt, Functions, TLC

CONSTANTS
  Days,          \* the daily sessions whose candles may arrive
  Session,       \* length of a session
  Horizon,       \* sessions from a target's reference to its endpoint
  MacroHorizon,  \* sessions a macro baseline looks ahead
  Price,         \* midpoint close of each session's candle
  Ewma,          \* EWMA(20) at each session
  Bands,         \* neutral band of the first, second, ... calculation
  Probabilities, \* the control's percentages for each direction
  Offers,        \* the predictions the model provider may answer with
  Recs           \* slots for recommendations

VARIABLES
  now,       \* the clock
  candles,   \* finished_at of the run that stored each session's candle
  tech,      \* the technical calculations as of each session
  targets,   \* the targets with their control and their resolutions
  legacy,    \* the tactical baselines issued without a target
  recs,      \* the recommendations
  raised     \* errors raised by the triggers of the tables

market == <<candles, tech>>

\* The rows f with a row for x, if it has none.
Inserted(f, x, row) == [y \in DOMAIN f \cup {x} |-> IF y \in DOMAIN f THEN f[y] ELSE row]

None == 0
NoRes == [outcome |-> "none", at |-> None, end |-> None]
Scored == {"up", "neutral", "down"}
Labels == <<"up", "neutral", "down">>

\* The rows.  A resolution that has no candle has no score.
TargetResolution ==
  {r \in [outcome : Scored \cup {"none", "missing"}, at : Nat, end : Days \cup {None}] :
     (r.outcome \in Scored) <=> (r.end # None)}
ForecastResolution == TargetResolution
RecommendationResolution == TargetResolution
Percentages == {p \in [1..3 -> 0..100] : p[1] + p[2] + p[3] = 100}
\* A target with its control, the control's macro parent and their outcomes.
TargetOccurrence ==
  {x \in [cutoff : Nat, registered : Nat, issued : Nat, res : TargetResolution,
          ctl : ForecastResolution, macro : ForecastResolution] :
     x.cutoff <= x.issued}

Completion(d) == d * Session
Opens(d) == Completion(d - 1)

Endpoint(d) == d + Horizon
Maturity(d) == Completion(Endpoint(d))

classify_change(change, band) ==
  IF change > band THEN "up" ELSE IF change < -band THEN "down" ELSE "neutral"

\* Three times the Brier score, in units of 1/10000.
multiclass_brier(p, outcome) ==
  LET miss(i) == p[i] - (IF Labels[i] = outcome THEN 100 ELSE 0)
  IN MapThenSumSet(LAMBDA i : miss(i) * miss(i), 1..3)

Stored(d) == d \in Days /\ candles[d] # None

-----------------------------------------------------------------------------
(* Candles and technical calculations.                                     *)

\* A run whose finished_at was read at the given time stores the new complete
\* sessions B; the calculation is of the last session held, from all of them.
store_ingestion(B, at) ==
  LET held == {d \in Days : candles[d] # None} \cup B
  IN /\ \A d \in B : candles[d] = None /\ Completion(d) <= at
     /\ candles' = [d \in Days |-> IF d \in B THEN at ELSE candles[d]]
     /\ tech' = IF B = {} THEN tech ELSE [tech EXCEPT ![Max(held)] = Append(@, at)]

NoContract == <<None, None>>
Outcome_contract(at) ==
  LET seen == {d \in Days : Stored(d) /\ Opens(d) < at /\ candles[d] <= at}
      known(d) == {k \in DOMAIN tech[d] : tech[d][k] <= at}
  IN IF seen = {} THEN NoContract
     ELSE LET d == Max(seen)
          IN IF known(d) = {} THEN NoContract ELSE <<d, Max(known(d))>>

Cutoff(t) == Max({candles[t[1]], tech[t[1]][t[2]], Completion(t[1])})

Direction(t) == classify_change(Price[t[1]] - Ewma[t[1]], Bands[t[2]])

-----------------------------------------------------------------------------
(* What the triggers refuse.  They compute endpoint and eligibility in SQL *)
(* and share no code with the services.                                    *)

phase3_endpoint(d) == d + Horizon

phase3_target_insert(t, new) ==
  IF new.registered < new.cutoff \/ new.cutoff < Completion(t[1])
  THEN {"invalid_target_identity"} ELSE {}

phase3_control_evidence(t, new) ==
  IF tech[t[1]][t[2]] > new.cutoff \/ candles[t[1]] > new.cutoff
  THEN {"control_evidence_cutoff_or_instrument"} ELSE {}

phase3_issuance_time(t, registered, at) ==
  IF at < registered \/ at >= Completion(phase3_endpoint(t[1]))
  THEN {"issuance_outside_target_window"} ELSE {}

\* A control is issued for a registered target, a recommendation after its
\* control.
phase3_prediction_insert(kind, earliest, at) ==
  IF at >= earliest THEN {}
  ELSE IF kind = "control" THEN {"control_target_mismatch"}
  ELSE {"exact_prospective_control_required"}

phase3_resolution_insert(t, r) ==
  LET e == phase3_endpoint(t[1])
  IN (IF r.at < targets[t].registered THEN {"resolution_contract_mismatch"} ELSE {})
     \cup
     (IF r.outcome \in Scored
      THEN IF /\ r.end = e /\ Stored(e) /\ candles[e] <= r.at /\ r.at >= Completion(e)
              /\ r.outcome = classify_change(Price[e] - Price[t[1]], Bands[t[2]])
           THEN {} ELSE {"shared_endpoint_mismatch"}
      ELSE IF r.at < Completion(e) THEN {"immature_missing_forbidden"} ELSE {})

phase3_missing_observation(t, r) ==
  LET e == phase3_endpoint(t[1])
  IN IF /\ r.outcome = "missing" /\ Stored(e)
        /\ Completion(e) <= r.at /\ candles[e] <= r.at
     THEN {"available_endpoint_marked_missing"} ELSE {}

phase3_derived_resolution(shared, r) ==
  IF r.outcome # shared.outcome \/ r.end # shared.end \/ r.at < shared.at
  THEN {"derived_resolution_mismatch"} ELSE {}

-----------------------------------------------------------------------------
(* Shared resolution.                                                      *)

eligible_endpoint(t, at) ==
  /\ Maturity(t[1]) <= at
  /\ Stored(Endpoint(t[1]))
  /\ candles[Endpoint(t[1])] <= at
\* Mutant of resolve_target.
resolve_target_Rescores(t, at) ==
  LET e == Endpoint(t[1])
  IN IF targets[t].res.outcome \in Scored THEN targets[t].res
     ELSE IF Maturity(t[1]) > at THEN NoRes
     ELSE IF eligible_endpoint(t, at)
     THEN [outcome |-> classify_change(Price[e] - Price[t[1]], Bands[t[2]]),
           at |-> at, end |-> e]
     ELSE [outcome |-> "missing", at |-> at, end |-> None]

\* The resolution of target t as of the given time, or NoRes before maturity
\* and when the stored one is of a later time.
resolve_target(t, at) ==
  LET e == Endpoint(t[1])
  IN IF targets[t].res # NoRes
     THEN IF targets[t].res.at <= at THEN targets[t].res ELSE NoRes
     ELSE IF Maturity(t[1]) > at THEN NoRes
     ELSE IF eligible_endpoint(t, at)
     THEN [outcome |-> classify_change(Price[e] - Price[t[1]], Bands[t[2]]),
           at |-> at, end |-> e]
     ELSE [outcome |-> "missing", at |-> at, end |-> None]

\* What the model checks of itself before every save of a resolution.
validate_resolution(t, r) ==
  IF r.outcome \in Scored
  THEN LET e == Endpoint(t[1])
       IN /\ r.end = e /\ Stored(e) /\ candles[e] <= r.at /\ r.at >= Completion(e)
          /\ r.outcome = classify_change(Price[e] - Price[t[1]], Bands[t[2]])
  ELSE /\ r.end = None
       /\ r.outcome = "missing" => Maturity(t[1]) <= r.at /\ ~eligible_endpoint(t, r.at)

derive_resolution(shared) == [shared EXCEPT !.at = now]

\* What the triggers say of resolving the targets T as of a time.
ResolutionErrors(T, at) ==
  UNION {LET r == resolve_target(t, at)
         IN phase3_resolution_insert(t, r) \cup phase3_missing_observation(t, r)
            \cup (IF validate_resolution(t, r) THEN {} ELSE {"validate_resolution"}) :
           t \in {u \in T : targets[u].res = NoRes /\ resolve_target(u, at) # NoRes}}

Due(t) == resolve_target(t, now) # NoRes

\* The horizon-th stored candle after session d, whatever sessions are
\* missing in between, or None.
NthLater(d, horizon) ==
  LET later == {e \in Days : e > d /\ Stored(e)}
      nth == {e \in later : Cardinality({x \in later : x <= e}) = horizon}
  IN IF nth = {} THEN None ELSE Max(nth)

resolve_forecast(d, horizon, k, res) ==
  LET e == NthLater(d, horizon)
  IN IF res # NoRes \/ e = None THEN res
     ELSE [outcome |-> classify_change(Price[e] - Price[d], Bands[k]), at |-> now, end |-> e]

-----------------------------------------------------------------------------
(* Operations.                                                             *)

\* Resolve what matured by the cutoff, then register the target of the newest
\* daily evidence and issue its control and macro baseline: one transaction.
\* TRUE when it commits.
NewTarget(t, at) ==
  [cutoff |-> Cutoff(t), registered |-> at, issued |-> at,
   res |-> NoRes, ctl |-> NoRes, macro |-> NoRes]

validate_target(t, x) == x.cutoff <= x.registered /\ Completion(t[1]) <= x.cutoff

TargetErrors(t, at) ==
  IF t \in DOMAIN targets THEN {}
  ELSE LET new == NewTarget(t, at)
       IN (IF validate_target(t, new) THEN {} ELSE {"validate_target"})
          \cup phase3_target_insert(t, new) \cup phase3_control_evidence(t, new)
          \cup phase3_prediction_insert("control", new.registered, new.issued)
          \cup phase3_issuance_time(t, new.registered, new.issued)

TargetsRefused(at) ==
  LET t == Outcome_contract(at)
  IN t = NoContract \/ at >= Maturity(t[1])

reconcile_targets(at) ==
  LET t == Outcome_contract(at)
      bad == ResolutionErrors(DOMAIN targets, at)
             \cup (IF TargetsRefused(at) THEN {} ELSE TargetErrors(t, at))
      open == {u \in DOMAIN targets : targets[u].res = NoRes}
      settled == [u \in DOMAIN targets |->
                    IF u \in open THEN [targets[u] EXCEPT !.res = resolve_target(u, at)]
                    ELSE targets[u]]
  IN /\ raised' = raised \cup bad
     /\ targets' = IF bad # {} \/ TargetsRefused(at) THEN targets
                   ELSE Inserted(settled, t, NewTarget(t, at))

resolve_due_forecasts ==
  LET due == {t \in DOMAIN targets : targets[t].ctl = NoRes /\ Due(t)}
      shared(t) == resolve_target(t, now)
      bad == ResolutionErrors(due, now)
             \cup UNION {phase3_derived_resolution(shared(t), derive_resolution(shared(t))) : t \in due}
  IN /\ raised' = raised \cup bad
     /\ targets' = [t \in DOMAIN targets |->
          LET x == [targets[t] EXCEPT
                      !.macro = resolve_forecast(t[1], MacroHorizon, t[2], @)]
          IN IF t \in due /\ bad = {}
             THEN [x EXCEPT !.res = shared(t), !.ctl = derive_resolution(shared(t))]
             ELSE x]
     /\ legacy' = [t \in DOMAIN legacy |-> resolve_forecast(t[1], Horizon, t[2], legacy[t])]

Open == {r \in DOMAIN recs : recs[r].res = NoRes}
resolve_due_recommendations ==
  LET due == {r \in Open : Due(recs[r].target)}
      of == {recs[r].target : r \in due}
      shared(t) == resolve_target(t, now)
      bad == ResolutionErrors(of, now)
             \cup UNION {phase3_derived_resolution(shared(t), derive_resolution(shared(t))) : t \in of}
  IN /\ raised' = raised \cup bad
     /\ IF bad # {} THEN UNCHANGED <<targets, recs>>
        ELSE /\ targets' = [t \in DOMAIN targets |->
                  IF t \in of THEN [targets[t] EXCEPT !.res = shared(t)] ELSE targets[t]]
             /\ recs' = [r \in DOMAIN recs |->
                  IF r \in due
                  THEN [recs[r] EXCEPT !.res = derive_resolution(shared(recs[r].target))]
                  ELSE recs[r]]

\* A tactical and a macro baseline of the newest candle and calculation,
\* without a target; both are resolved by counting stored candles.
issue_baselines ==
  LET held == {d \in Days : Stored(d)}
      d == Max(held)
      t == <<d, Len(tech[d])>>
  IN /\ held # {} /\ Opens(d) < now /\ tech[d] # <<>>
     /\ t \notin DOMAIN legacy
     /\ legacy' = Inserted(legacy, t, NoRes)

\* The control that a recommendation of the given time must cite: the one of
\* the newest evidence, issued by then and not yet mature.
exact_control(at) ==
  LET t == Outcome_contract(at)
  IN IF /\ t # NoContract /\ t \in DOMAIN targets
        /\ targets[t].issued <= at
        /\ targets[t].cutoff = Cutoff(t)
        /\ at < Maturity(t[1])
     THEN t ELSE NoContract
=============================================================================
