---------------------------- MODULE ProviderSpend ----------------------------
(***************************************************************************)
(* Paid model calls and the budget that gates them: the reservation        *)
(* functions of operations/services.py, and the two flows that use them,   *)
(* generate_recommendation (forecasts/recommendations.py) and              *)
(* interpret_review_member (forecasts/interpretations.py).                 *)
(*                                                                         *)
(* A key is the idempotency key of one request: a recommendation for one   *)
(* evidence snapshot and reference candle, or an interpretation of one     *)
(* review packet.  A run is one execution of a flow for one key.  Several  *)
(* runs of one key may be under way at once: the queue retries an attempt  *)
(* that lost its lease while the abandoned task still runs in its pool,    *)
(* and the owner may start the flow by hand.  Every transaction of a flow  *)
(* is a step, the provider is called between two of them, and the process  *)
(* may die before any step.                                                *)
(*                                                                         *)
(* Money is in whole units.  release_provider_budget has no caller.        *)
(***************************************************************************)
EXTENDS Integers, FiniteSets

CONSTANTS
  Recommendations, \* keys of recommendation requests
  Interpretations, \* keys of interpretation requests
  Runs,            \* bound: executions under way at one time
  Estimate,        \* the estimated cost of a request
  Costs,           \* the actual costs a response may have
  MaxRunCost,      \* the per-run spend cap
  DailyCap,        \* ProviderBudget.daily_cap_usd, per purpose
  MonthlyCap,      \* ProviderBudget.monthly_cap_usd, per purpose
  MaxDay,          \* bound: days
  DaysPerMonth     \* how many of them make a month

Keys == Recommendations \cup Interpretations

ASSUME SpendAssumption ==
  /\ Recommendations \cap Interpretations = {}
  /\ Estimate \in Nat
  /\ Costs \subseteq Nat
  /\ MaxRunCost \in Nat
  /\ DailyCap \in Nat
  /\ MonthlyCap \in Nat
  /\ MaxDay \in Nat \ {0}
  /\ DaysPerMonth \in Nat \ {0}

VARIABLES
  day,    \* the UTC date
  res,    \* the ProviderBudgetReservation of each key
  record, \* the Recommendation or InterpretationAttempt of each key
  run,    \* the executions under way
  calls   \* how often the provider was called for each key

spendVars == <<day, res, record, run, calls>>

Days == 1 .. MaxDay
Month(d) == (d - 1) \div DaysPerMonth
Money == {"reserved", "settled", "uncertain"}
Verdict ==
  {"accepted", "rejected", "cap_exceeded", "provider_failed", "budget_blocked"}

Reservation ==
  [status : {"absent"} \cup Money, actual : Nat, day : Days,
   outcome : {"pending"} \cup Verdict]

NoReservation ==
  [status |-> "absent", actual |-> 0, day |-> 1, outcome |-> "pending"]

Run ==
  [pc : {"lookup", "lock", "call", "answered", "failed", "record"},
   key : Keys, day : Days, cost : Nat, verdict : Verdict]

Idle == [pc |-> "idle"]

SpendInit ==
  /\ day = 1
  /\ res = [k \in Keys |-> NoReservation]
  /\ record = [k \in Keys |-> "none"]
  /\ run = [r \in Runs |-> Idle]
  /\ calls = [k \in Keys |-> 0]

-----------------------------------------------------------------------------
(* The budget.                                                             *)

\* _reservation_amount
Amount(k) ==
  IF res[k].status = "settled" THEN res[k].actual
  ELSE IF res[k].status \in {"reserved", "uncertain"} THEN Estimate ELSE 0

Amounts == [k \in Keys |-> Amount(k)]

\* What amount, a function on keys, makes up over S: every unit of it is counted.
Units(S, amount) == UNION {{k} \X (1 .. amount[k]) : k \in S}
Total(S, amount) == Cardinality(Units(S, amount))

\* The keys of one budget: it belongs to a provider and a purpose.
SamePurpose(k) == IF k \in Recommendations THEN Recommendations ELSE Interpretations

OnDay(k, d) == {j \in SamePurpose(k) : res[j].status # "absent" /\ res[j].day = d}
InMonth(k, d) ==
  {j \in SamePurpose(k) : res[j].status # "absent" /\ Month(res[j].day) = Month(d)}

\* Mutant of FitsCaps: the daily cap is forgotten.
FitsMonthlyCap(k, d) == Total(InMonth(k, d), Amounts) + Estimate <= MonthlyCap

FitsCaps(k, d) ==
  /\ Total(OnDay(k, d), Amounts) + Estimate <= DailyCap
  /\ Total(InMonth(k, d), Amounts) + Estimate <= MonthlyCap

\* record_reservation_outcome never rewrites a recorded outcome.
WithOutcome(row, verdict) ==
  IF row.outcome = "pending" THEN [row EXCEPT !.outcome = verdict] ELSE row

-----------------------------------------------------------------------------
(* The flows.                                                              *)

Moved(row, pc, cost, verdict) ==
  [pc |-> pc, key |-> row.key, day |-> row.day, cost |-> cost, verdict |-> verdict]
MoveTo(r, pc) == run' = [run EXCEPT ![r] = Moved(@, pc, @.cost, @.verdict)]
End(r) == run' = [run EXCEPT ![r] = Idle]
ToRecord(r, verdict) ==
  run' = [run EXCEPT ![r] = Moved(@, "record", @.cost, verdict)]

\* budget_at: the UTC date on which the flow started.
BudgetDate == day

\* A flow starts: a key with a record is returned as it is, and a request
\* whose estimate exceeds the per-run cap is refused.
Begin(r, k) ==
  /\ run[r].pc = "idle"
  /\ record[k] = "none"
  /\ Estimate <= MaxRunCost
  /\ run' = [run EXCEPT ![r] =
       [pc |-> "lookup", key |-> k, day |-> BudgetDate, cost |-> 0, verdict |-> "accepted"]]
  /\ UNCHANGED <<day, res, record, calls>>

\* reserve_provider_budget first looks for the key without a lock.
LookupFindsNothing(r) ==
  /\ run[r].pc = "lookup"
  /\ res[run[r].key].status = "absent"
  /\ MoveTo(r, "lock")
  /\ UNCHANGED <<day, res, record, calls>>

\* The key was reserved before: a recommendation raises, an interpretation
\* goes on to append a failed attempt.
LookupFindsReservation(r) ==
  /\ run[r].pc = "lookup"
  /\ res[run[r].key].status # "absent"
  /\ IF run[r].key \in Recommendations THEN End(r) ELSE ToRecord(r, "provider_failed")
  /\ UNCHANGED <<day, res, record, calls>>

\* Under the budget's row lock.
ReserveRefused(r) ==
  /\ run[r].pc = "lock"
  /\ ~FitsCaps(run[r].key, run[r].day)
  /\ IF run[r].key \in Recommendations THEN End(r) ELSE ToRecord(r, "budget_blocked")
  /\ UNCHANGED <<day, res, record, calls>>

Reserved(d) == [status |-> "reserved", actual |-> 0, day |-> d, outcome |-> "pending"]

Reserve(r) ==
  /\ run[r].pc = "lock"
  /\ FitsCaps(run[r].key, run[r].day)
  /\ res[run[r].key].status = "absent"
  /\ res' = [res EXCEPT ![run[r].key] = Reserved(run[r].day)]
  /\ MoveTo(r, "call")
  /\ UNCHANGED <<day, record, calls>>

CallProvider(k) == calls' = [calls EXCEPT ![k] = @ + 1]

\* The unique key stops a run that looked before another one reserved.
ReserveCollides(r) ==
  /\ run[r].pc = "lock"
  /\ FitsCaps(run[r].key, run[r].day)
  /\ res[run[r].key].status # "absent"
  /\ End(r)
  /\ UNCHANGED <<day, res, record, calls>>

\* What the flow will conclude from an answer, once it is paid for.
VerdictOn(k, cost, valid) ==
  IF cost > MaxRunCost
  THEN IF k \in Recommendations THEN "cap_exceeded" ELSE "rejected"
  ELSE IF valid THEN "accepted" ELSE "rejected"

ProviderAnswers(r, cost, valid) ==
  /\ run[r].pc = "call"
  /\ CallProvider(run[r].key)
  /\ run' = [run EXCEPT ![r] =
       Moved(@, "answered", cost, VerdictOn(run[r].key, cost, valid))]
  /\ UNCHANGED <<day, res, record>>

\* Mutant of ProviderFails: the request is sent again.
ProviderIsRetried(r) ==
  /\ run[r].pc = "call"
  /\ CallProvider(run[r].key)
  /\ UNCHANGED <<day, res, record, run>>

ProviderFails(r) ==
  /\ run[r].pc = "call"
  /\ CallProvider(run[r].key)
  /\ MoveTo(r, "failed")
  /\ UNCHANGED <<day, res, record>>

\* settle_provider_budget and mark_provider_budget_uncertain change a
\* reserved row only.
Accounted(row, status, actual) ==
  IF row.status = "reserved"
  THEN [status |-> status, actual |-> actual, day |-> row.day, outcome |-> row.outcome]
  ELSE row

Settle(r) ==
  /\ run[r].pc = "answered"
  /\ res' = [res EXCEPT ![run[r].key] = Accounted(@, "settled", run[r].cost)]
  /\ MoveTo(r, "record")
  /\ UNCHANGED <<day, record, calls>>

MarkUncertain(r) ==
  /\ run[r].pc = "failed"
  /\ res' = [res EXCEPT ![run[r].key] = Accounted(@, "uncertain", @.actual)]
  /\ ToRecord(r, "provider_failed")
  /\ UNCHANGED <<day, record, calls>>

\* The last transaction of a recommendation: its row with the outcome of the
\* reservation, or the outcome alone.
RecordRecommendation(r) ==
  /\ run[r].pc = "record"
  /\ run[r].key \in Recommendations
  /\ record' = IF run[r].verdict = "accepted"
               THEN [record EXCEPT ![run[r].key] = "accepted"] ELSE record
  /\ res' = [res EXCEPT ![run[r].key] = WithOutcome(@, run[r].verdict)]
  /\ End(r)
  /\ UNCHANGED <<day, calls>>

\* The last transaction of an interpretation appends its attempt, with the
\* interpretation when accepted; (member, method, packet) is unique.
RecordInterpretation(r) ==
  /\ run[r].pc = "record"
  /\ run[r].key \in Interpretations
  /\ record[run[r].key] = "none"
  /\ record' = [record EXCEPT ![run[r].key] = run[r].verdict]
  /\ End(r)
  /\ UNCHANGED <<day, res, calls>>

RecordCollides(r) ==
  /\ run[r].pc = "record"
  /\ run[r].key \in Interpretations
  /\ record[run[r].key] # "none"
  /\ End(r)
  /\ UNCHANGED <<day, res, record, calls>>

\* The process dies; in the middle of a call the provider may have worked.
Die(r) ==
  /\ run[r].pc # "idle"
  /\ End(r)
  /\ UNCHANGED <<day, res, record, calls>>

DieDuringCall(r) ==
  /\ run[r].pc = "call"
  /\ CallProvider(run[r].key)
  /\ End(r)
  /\ UNCHANGED <<day, res, record>>

NextDay ==
  /\ day < MaxDay
  /\ day' = day + 1
  /\ UNCHANGED <<res, record, run, calls>>

Step(r) ==
  \/ \E k \in Keys : Begin(r, k)
  \/ LookupFindsNothing(r) \/ LookupFindsReservation(r)
  \/ ReserveRefused(r) \/ Reserve(r) \/ ReserveCollides(r)
  \/ \E cost \in Costs, valid \in BOOLEAN : ProviderAnswers(r, cost, valid)
  \/ ProviderFails(r) \/ Settle(r) \/ MarkUncertain(r)
  \/ RecordRecommendation(r) \/ RecordInterpretation(r) \/ RecordCollides(r)
  \/ Die(r) \/ DieDuringCall(r)

SpendNext == NextDay \/ \E r \in Runs : Step(r)

SpendSpec == SpendInit /\ [][SpendNext]_spendVars

-----------------------------------------------------------------------------
(* Properties.                                                             *)

\* The variables stay in their types (ProviderBudgetReservation,
\* InterpretationAttempt and the state of a flow).
SpendTypeOK ==
  /\ day \in Days
  /\ res \in [Keys -> Reservation]
  /\ record \in [Keys -> {"none"} \cup Verdict]
  /\ run \in [Runs -> Run \cup {Idle}]
  /\ calls \in [Keys -> Nat]

\* A key is paid for at most once, however many runs of it overlap, are
\* retried or die: the reservation is the permission to call, and exactly
\* the run that created it holds that permission.
ProviderCalledOnce == \A k \in Keys : calls[k] <= 1

InFlight(r) == run[r].pc \in {"call", "answered", "failed"}

\* Only one run at a time is between reserving a key and accounting for it,
\* and the row it will settle is still reserved.
SingleFlight ==
  \A r \in Runs : InFlight(r) =>
    /\ res[run[r].key].status = "reserved"
    /\ \A q \in Runs : InFlight(q) /\ run[q].key = run[r].key => q = r

\* A call that was made and not settled counts in full against the budget
\* (docs/recommendation-contract.md:163, "reserved and uncertain attempts
\* count conservatively"), also when the process died.
UnsettledCallsCount ==
  \A k \in Keys : calls[k] > 0 /\ res[k].status # "settled" => Amount(k) = Estimate

\* What was authorised on one day, or in one month, never exceeds the cap,
\* when each row counts with no more than its estimate: concurrent
\* reservations are serialised on the budget row.
AuthorisedAmounts ==
  [k \in Keys |-> IF Amount(k) < Estimate THEN Amount(k) ELSE Estimate]
AuthorisedWithinCaps ==
  \A k \in Keys, d \in Days :
    /\ Total(OnDay(k, d), AuthorisedAmounts) <= DailyCap
    /\ Total(InMonth(k, d), AuthorisedAmounts) <= MonthlyCap

\* A stored recommendation or interpretation was paid for within the per-run
\* cap, and a stored recommendation has the validated outcome.
StoredResultIsPaid ==
  \A k \in Keys : record[k] = "accepted" =>
    /\ res[k].status = "settled"
    /\ res[k].actual <= MaxRunCost
    /\ k \in Recommendations => res[k].outcome = "accepted"

\* Money that was settled or left uncertain, a recorded outcome and a stored
\* record are never rewritten, and a reservation never disappears.
AccountsAreFinal ==
  [][\A k \in Keys :
       /\ res[k].status \in {"settled", "uncertain"} =>
            res'[k].status = res[k].status /\ res'[k].actual = res[k].actual
       /\ res[k].status # "absent" => res'[k].status # "absent" /\ res'[k].day = res[k].day
       /\ res[k].outcome # "pending" => res'[k].outcome = res[k].outcome
       /\ record[k] # "none" => record'[k] = record[k]]_spendVars
=============================================================================
