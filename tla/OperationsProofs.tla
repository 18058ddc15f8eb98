--------------------------- MODULE OperationsProofs ---------------------------
(* Theorems about the parts of operations, each a system of its own: paid     *)
(* model calls, for every number of requests and runs and for all estimates,  *)
(* costs and caps; the scheduler, for any number of jobs, any interval, day   *)
(* length, change of the zone's offset, catch-up bound, horizon and number of *)
(* times the owner sets a schedule back; the job queue and the outbox, for    *)
(* every number of rows, processes and attempts and for all durations.        *)
EXTENDS JobQueue, ProviderSpend, Scheduler, Outbox, FiniteSetTheorems, TLAPS

-----------------------------------------------------------------------------
(* Provider spend.                                                            *)

\* A key without a reservation was never called for.
AbsentIsUnused == \A k \in Keys : res[k].status = "absent" => calls[k] = 0

\* A run that is about to call has not called yet.
CallIsFirst == \A r \in Runs : run[r].pc = "call" => calls[run[r].key] = 0

\* Holding the reservation is what makes the call unique: CallIsFirst needs
\* SingleFlight when another run of the key has called, and SingleFlight needs
\* the reserved row that Reserve found absent.
FlightInv == AbsentIsUnused /\ SingleFlight /\ CallIsFirst /\ ProviderCalledOnce

\* A run of a recommendation from its reservation to its last transaction.
Holds(r) ==
  /\ run[r].pc \in {"call", "answered", "failed", "record"}
  /\ run[r].key \in Recommendations

\* The outcome of a recommendation's reservation is recorded by one run only.
RecommendationsEndOnce ==
  \A r \in Runs : Holds(r) =>
    /\ res[run[r].key].status # "absent"
    /\ res[run[r].key].outcome = "pending"
    /\ \A q \in Runs : Holds(q) /\ run[q].key = run[r].key => q = r

\* What a run will store was paid for within the per-run cap.
AcceptedIsWithinCap ==
  \A r \in Runs :
    /\ run[r].pc = "answered" /\ run[r].verdict = "accepted" => run[r].cost <= MaxRunCost
    /\ run[r].pc = "record" /\ run[r].verdict = "accepted" =>
         res[run[r].key].status = "settled" /\ res[run[r].key].actual <= MaxRunCost

\* A recommendation is stored or it is not; failures leave no row.
RecommendationRecords ==
  \A k \in Recommendations : record[k] \in {"none", "accepted"}

\* No outcome is recorded before the reservation.
AbsentIsPending == \A k \in Keys : res[k].status = "absent" => res[k].outcome = "pending"

PaidInv ==
  /\ RecommendationsEndOnce /\ AcceptedIsWithinCap
  /\ RecommendationRecords /\ AbsentIsPending /\ StoredResultIsPaid

-----------------------------------------------------------------------------
(* The rows and the runs after each of the writes.                          *)

\* The columns of a reservation have their types.
LEMMA ReservationFields ==
  ASSUME NEW row \in Reservation
  PROVE  /\ row.status \in {"absent"} \cup Money /\ row.actual \in Nat
         /\ row.day \in Days /\ row.outcome \in {"pending"} \cup Verdict
  BY DEF Reservation

\* The state of a run under way has its types, and an idle run is no run.
LEMMA RunFields ==
  ASSUME NEW row \in Run
  PROVE  /\ row.pc \in {"lookup", "lock", "call", "answered", "failed", "record"}
         /\ row.pc # "idle" /\ row.key \in Keys /\ row.day \in Days
         /\ row.cost \in Nat /\ row.verdict \in Verdict
  BY DEF Run

\* A run that is not idle is a run.
LEMMA BusyIsRun ==
  ASSUME SpendTypeOK, NEW r \in Runs, run[r].pc # "idle"
  PROVE  run[r] \in Run /\ run[r].key \in Keys
<1>1. run[r] \in Run \cup {Idle}
  BY DEF SpendTypeOK
<1>2. run[r] # Idle
  BY DEF Idle
<1> QED  BY <1>1, <1>2, RunFields

\* The next state of a run keeps its key.
LEMMA MovedType ==
  ASSUME NEW row \in Run,
         NEW to \in {"lookup", "lock", "call", "answered", "failed", "record"},
         NEW cost \in Nat, NEW verdict \in Verdict
  PROVE  /\ Moved(row, to, cost, verdict) \in Run
         /\ Moved(row, to, cost, verdict).pc = to
         /\ Moved(row, to, cost, verdict).key = row.key
         /\ Moved(row, to, cost, verdict).cost = cost
         /\ Moved(row, to, cost, verdict).verdict = verdict
<1>1. row.key \in Keys /\ row.day \in Days
  BY RunFields
<1>2. Moved(row, to, cost, verdict) \in Run
  BY <1>1 DEF Moved, Run
<1> QED  BY <1>2 DEF Moved

\* A new reservation.
LEMMA ReservedType ==
  ASSUME NEW d \in Days
  PROVE  /\ Reserved(d) \in Reservation
         /\ Reserved(d).status = "reserved" /\ Reserved(d).outcome = "pending"
  BY DEF Reserved, Reservation, Money

\* Settling or marking changes a reserved row, and only its status and amount.
LEMMA AccountedType ==
  ASSUME NEW row \in Reservation, NEW s \in {"settled", "uncertain"}, NEW a \in Nat
  PROVE  /\ Accounted(row, s, a) \in Reservation
         /\ row.status # "reserved" => Accounted(row, s, a) = row
         /\ row.status = "reserved" =>
              Accounted(row, s, a).status = s /\ Accounted(row, s, a).actual = a
         /\ Accounted(row, s, a).day = row.day
         /\ Accounted(row, s, a).outcome = row.outcome
<1>1. row.day \in Days /\ row.outcome \in {"pending"} \cup Verdict
  BY ReservationFields
<1>2. CASE row.status = "reserved"
  <2>1. Accounted(row, s, a) =
          [status |-> s, actual |-> a, day |-> row.day, outcome |-> row.outcome]
    BY <1>2 DEF Accounted
  <2>2. Accounted(row, s, a) \in Reservation
    BY <1>1, <2>1 DEF Reservation, Money
  <2> QED  BY <1>2, <2>1, <2>2
<1>3. CASE row.status # "reserved"
  BY <1>3 DEF Accounted
<1> QED  BY <1>2, <1>3

\* Recording an outcome changes a pending outcome only.
LEMMA WithOutcomeType ==
  ASSUME NEW row \in Reservation, NEW v \in Verdict
  PROVE  /\ WithOutcome(row, v) \in Reservation
         /\ WithOutcome(row, v).status = row.status
         /\ WithOutcome(row, v).actual = row.actual
         /\ WithOutcome(row, v).day = row.day
         /\ WithOutcome(row, v).outcome = IF row.outcome = "pending" THEN v ELSE row.outcome
<1>1. CASE row.outcome = "pending"
  <2>1. WithOutcome(row, v) = [row EXCEPT !.outcome = v]
    BY <1>1 DEF WithOutcome
  <2> QED  BY <1>1, <2>1 DEF Reservation
<1>2. CASE row.outcome # "pending"
  BY <1>2 DEF WithOutcome
<1> QED  BY <1>1, <1>2

\* A verdict accepts only what is within the per-run cap.
LEMMA VerdictType ==
  ASSUME NEW k \in Keys, NEW cost \in Nat, NEW valid \in BOOLEAN
  PROVE  /\ VerdictOn(k, cost, valid) \in Verdict
         /\ VerdictOn(k, cost, valid) = "accepted" => cost <= MaxRunCost
  BY SpendAssumption DEF VerdictOn, Verdict

\* A run moves on with its key, and no other run changes.
Moves(r, to, cost, verdict) == run' = [run EXCEPT ![r] = Moved(@, to, cost, verdict)]
Pcs == {"lookup", "lock", "call", "answered", "failed", "record"}

LEMMA RunMoves ==
  ASSUME SpendTypeOK, NEW r \in Runs, run[r].pc # "idle",
         NEW to \in Pcs, NEW cost \in Nat, NEW verdict \in Verdict, Moves(r, to, cost, verdict)
  PROVE  /\ run' \in [Runs -> Run \cup {Idle}]
         /\ run'[r].pc = to /\ run'[r].key = run[r].key
         /\ run'[r].cost = cost /\ run'[r].verdict = verdict
         /\ \A q \in Runs \ {r} : run'[q] = run[q]
<1> DEFINE new == Moved(run[r], to, cost, verdict)
<1>1. run[r] \in Run
  BY BusyIsRun
<1>2. new \in Run
  BY <1>1, MovedType DEF Pcs
<1>3. new.pc = to /\ new.key = run[r].key /\ new.cost = cost /\ new.verdict = verdict
  BY DEF Moved
<1>4. run' = [run EXCEPT ![r] = new] /\ run \in [Runs -> Run \cup {Idle}]
  BY DEF Moves, SpendTypeOK
<1> HIDE DEF new
<1>5. run' \in [Runs -> Run \cup {Idle}]
  BY <1>2, <1>4
<1>6. run'[r] = new /\ \A q \in Runs \ {r} : run'[q] = run[q]
  BY <1>4
<1> QED  BY <1>3, <1>5, <1>6

\* A run that only moves on keeps its cost and its verdict.
LEMMA MoveToMoves ==
  ASSUME SpendTypeOK, NEW r \in Runs, run[r].pc # "idle", NEW to \in Pcs, MoveTo(r, to)
  PROVE  /\ run' \in [Runs -> Run \cup {Idle}]
         /\ run'[r].pc = to /\ run'[r].key = run[r].key
         /\ run'[r].cost = run[r].cost /\ run'[r].verdict = run[r].verdict
         /\ \A q \in Runs \ {r} : run'[q] = run[q]
<1>1. run[r].cost \in Nat /\ run[r].verdict \in Verdict
  BY BusyIsRun DEF Run
<1>2. Moves(r, to, run[r].cost, run[r].verdict)
  BY DEF Moves, MoveTo
<1> QED  BY <1>1, <1>2, RunMoves

\* A run ends, and no other run changes.
LEMMA RunEnds ==
  ASSUME SpendTypeOK, NEW r \in Runs, End(r)
  PROVE  /\ run' \in [Runs -> Run \cup {Idle}]
         /\ run'[r] = Idle
         /\ \A q \in Runs \ {r} : run'[q] = run[q]
  BY DEF End, SpendTypeOK

-----------------------------------------------------------------------------
(* Types.                                                                  *)

\* Nothing is reserved and nothing runs.
LEMMA InitSpendTypeOK == SpendInit => SpendTypeOK
<1>1. NoReservation \in Reservation
  BY SpendAssumption DEF NoReservation, Reservation, Days
<1> QED  BY <1>1, SpendAssumption DEF SpendInit, SpendTypeOK, Days

\* Every step of a run, and midnight, keep the types.
LEMMA NextSpendTypeOK == SpendTypeOK /\ [SpendNext]_spendVars => SpendTypeOK'
<1> SUFFICES ASSUME SpendTypeOK, [SpendNext]_spendVars PROVE SpendTypeOK'
  OBVIOUS
<1>0. /\ \A k \in Keys : res[k] \in Reservation
      /\ \A r \in Runs : run[r].pc # "idle" =>
           /\ run[r] \in Run /\ run[r].key \in Keys /\ run[r].day \in Days
           /\ run[r].cost \in Nat /\ run[r].verdict \in Verdict
  BY BusyIsRun, RunFields DEF SpendTypeOK
<1>1. ASSUME NEW r \in Runs, NEW new \in Run \cup {Idle}, run' = [run EXCEPT ![r] = new]
      PROVE  run' \in [Runs -> Run \cup {Idle}]
  BY <1>1 DEF SpendTypeOK
<1>2. ASSUME NEW r \in Runs, NEW k \in Keys, Begin(r, k) PROVE SpendTypeOK'
  <2> DEFINE new == [pc |-> "lookup", key |-> k, day |-> BudgetDate, cost |-> 0,
                     verdict |-> "accepted"]
  <2>1. new \in Run
    BY DEF SpendTypeOK, Run, BudgetDate, Verdict
  <2>2. run' = [run EXCEPT ![r] = new]
    BY <1>2 DEF Begin
  <2> HIDE DEF new
  <2> QED  BY <1>1, <1>2, <2>1, <2>2 DEF Begin, SpendTypeOK
<1>3. ASSUME NEW r \in Runs,
             \/ LookupFindsNothing(r) \/ LookupFindsReservation(r)
             \/ ReserveRefused(r) \/ ReserveCollides(r) \/ RecordCollides(r) \/ Die(r)
      PROVE  SpendTypeOK'
  <2>1. run[r].pc # "idle"
    BY <1>3 DEF LookupFindsNothing, LookupFindsReservation, ReserveRefused, ReserveCollides,
                RecordCollides, Die
  <2>2. \/ End(r) \/ MoveTo(r, "lock")
        \/ ToRecord(r, "provider_failed") \/ ToRecord(r, "budget_blocked")
    BY <1>3 DEF LookupFindsNothing, LookupFindsReservation, ReserveRefused, ReserveCollides,
                RecordCollides, Die
  <2>3. run' \in [Runs -> Run \cup {Idle}]
    <3>1. CASE End(r)
      BY <3>1, RunEnds
    <3>2. CASE MoveTo(r, "lock")
      BY <1>0, <2>1, <3>2, MoveToMoves DEF Pcs
    <3>3. ASSUME NEW v \in Verdict, ToRecord(r, v) PROVE run' \in [Runs -> Run \cup {Idle}]
      BY <1>0, <2>1, <3>3, RunMoves DEF ToRecord, Verdict, Moves, Pcs
    <3> QED  BY <2>2, <3>1, <3>2, <3>3 DEF Verdict
  <2> QED
    BY <1>3, <2>3 DEF LookupFindsNothing, LookupFindsReservation, ReserveRefused,
                      ReserveCollides, RecordCollides, Die, SpendTypeOK
<1>4. ASSUME NEW r \in Runs, Reserve(r) PROVE SpendTypeOK'
  <2>1. run[r].pc # "idle" /\ MoveTo(r, "call")
    BY <1>4 DEF Reserve
  <2>2. run' \in [Runs -> Run \cup {Idle}]
    BY <1>0, <2>1, MoveToMoves DEF Pcs
  <2>3. res' \in [Keys -> Reservation]
    BY <1>0, <1>4, <2>1, ReservedType DEF Reserve, SpendTypeOK
  <2> QED  BY <1>4, <2>2, <2>3 DEF Reserve, SpendTypeOK
<1>5. ASSUME NEW r \in Runs, NEW cost \in Costs, NEW valid \in BOOLEAN,
             ProviderAnswers(r, cost, valid)
      PROVE  SpendTypeOK'
  <2>1. run[r].pc # "idle" /\ cost \in Nat
    BY <1>5, SpendAssumption DEF ProviderAnswers
  <2>2. VerdictOn(run[r].key, cost, valid) \in Verdict
    BY <1>0, <2>1, VerdictType
  <2>3. run' \in [Runs -> Run \cup {Idle}]
    BY <1>5, <2>1, <2>2, RunMoves DEF ProviderAnswers, Moves, Pcs
  <2>4. calls' \in [Keys -> Nat]
    BY <1>0, <1>5, <2>1 DEF ProviderAnswers, CallProvider, SpendTypeOK
  <2> QED  BY <1>5, <2>3, <2>4 DEF ProviderAnswers, SpendTypeOK
<1>6. ASSUME NEW r \in Runs, ProviderFails(r) \/ DieDuringCall(r) PROVE SpendTypeOK'
  <2>1. run[r].pc # "idle" /\ (End(r) \/ MoveTo(r, "failed"))
    BY <1>6 DEF ProviderFails, DieDuringCall
  <2>2. run' \in [Runs -> Run \cup {Idle}]
    <3>1. CASE End(r)
      BY <3>1, RunEnds
    <3>2. CASE MoveTo(r, "failed")
      BY <1>0, <2>1, <3>2, MoveToMoves DEF Pcs
    <3> QED  BY <2>1, <3>1, <3>2
  <2>3. calls' \in [Keys -> Nat]
    BY <1>0, <1>6, <2>1 DEF ProviderFails, DieDuringCall, CallProvider, SpendTypeOK
  <2> QED  BY <1>6, <2>2, <2>3 DEF ProviderFails, DieDuringCall, SpendTypeOK
<1>7. ASSUME NEW r \in Runs, Settle(r) \/ MarkUncertain(r) PROVE SpendTypeOK'
  <2>1. run[r].pc # "idle" /\ (MoveTo(r, "record") \/ ToRecord(r, "provider_failed"))
    BY <1>7 DEF Settle, MarkUncertain
  <2>2. run' \in [Runs -> Run \cup {Idle}]
    <3>1. CASE MoveTo(r, "record")
      BY <1>0, <2>1, <3>1, MoveToMoves DEF Pcs
    <3>2. CASE ToRecord(r, "provider_failed")
      BY <1>0, <2>1, <3>2, RunMoves DEF ToRecord, Verdict, Moves, Pcs
    <3> QED  BY <2>1, <3>1, <3>2
  <2>3. ASSUME NEW s \in {"settled", "uncertain"}, NEW a \in Nat,
               res' = [res EXCEPT ![run[r].key] = Accounted(@, s, a)]
        PROVE  res' \in [Keys -> Reservation]
    <3>1. Accounted(res[run[r].key], s, a) \in Reservation
      BY <1>0, <2>1, AccountedType
    <3> QED  BY <2>3, <3>1 DEF SpendTypeOK
  <2>4. CASE Settle(r)
    BY <1>0, <2>1, <2>2, <2>3, <2>4 DEF Settle, SpendTypeOK
  <2>5. CASE MarkUncertain(r)
    <3>1. res[run[r].key].actual \in Nat
      BY <1>0, <2>1, ReservationFields
    <3> QED  BY <2>2, <2>3, <2>5, <3>1 DEF MarkUncertain, SpendTypeOK
  <2> QED  BY <1>7, <2>4, <2>5
<1>8. ASSUME NEW r \in Runs, RecordRecommendation(r) PROVE SpendTypeOK'
  <2>1. run[r].pc # "idle"
    BY <1>8 DEF RecordRecommendation
  <2>2. run' \in [Runs -> Run \cup {Idle}]
    BY <1>1, <1>8 DEF RecordRecommendation, End
  <2>3. res' \in [Keys -> Reservation]
    BY <1>0, <1>8, <2>1, WithOutcomeType DEF RecordRecommendation, SpendTypeOK
  <2>4. record' \in [Keys -> {"none"} \cup Verdict]
    BY <1>8 DEF RecordRecommendation, SpendTypeOK, Verdict
  <2> QED  BY <1>8, <2>2, <2>3, <2>4 DEF RecordRecommendation, SpendTypeOK
<1>9. ASSUME NEW r \in Runs, RecordInterpretation(r) PROVE SpendTypeOK'
  <2>1. run[r].pc # "idle"
    BY <1>9 DEF RecordInterpretation
  <2>2. run' \in [Runs -> Run \cup {Idle}]
    BY <1>1, <1>9 DEF RecordInterpretation, End
  <2>3. record' \in [Keys -> {"none"} \cup Verdict]
    BY <1>0, <1>9, <2>1 DEF RecordInterpretation, SpendTypeOK
  <2> QED  BY <1>9, <2>2, <2>3 DEF RecordInterpretation, SpendTypeOK
<1>10. CASE NextDay
  BY <1>10, SpendAssumption DEF NextDay, SpendTypeOK, Days
<1>11. CASE UNCHANGED spendVars
  BY <1>11 DEF spendVars, SpendTypeOK
<1> QED
  BY <1>2, <1>3, <1>4, <1>5, <1>6, <1>7, <1>8, <1>9, <1>10, <1>11 DEF SpendNext, Step

\* Type correctness of the accounts, the records and the runs.
THEOREM SpendTypeCorrect == SpendSpec => []SpendTypeOK
  BY InitSpendTypeOK, NextSpendTypeOK, PTL DEF SpendSpec

-----------------------------------------------------------------------------
(* One call per key.                                                       *)

\* Steps of a run that leave the reservations and the calls alone and do not
\* take it between its reservation and its accounting.
LEMMA RunOnlyKeepsFlight ==
  ASSUME SpendTypeOK, FlightInv, NEW r \in Runs, UNCHANGED <<res, calls>>,
         \A q \in Runs \ {r} : run'[q] = run[q],
         run'[r].pc \notin {"call", "answered", "failed"}
  PROVE  FlightInv'
<1>1. \A q \in Runs : InFlight(q)' => InFlight(q) /\ run'[q] = run[q]
  BY DEF InFlight
<1>2. SingleFlight'
  BY <1>1 DEF FlightInv, SingleFlight
<1>3. CallIsFirst'
  BY <1>1 DEF FlightInv, CallIsFirst, InFlight
<1> QED  BY <1>2, <1>3 DEF FlightInv, AbsentIsUnused, ProviderCalledOnce

\* The one call a reservation permits.
LEMMA CallKeepsFlight ==
  ASSUME SpendTypeOK, FlightInv, NEW r \in Runs, run[r].pc = "call",
         CallProvider(run[r].key), res' = res,
         \A q \in Runs \ {r} : run'[q] = run[q],
         \/ run'[r].pc \in {"answered", "failed"} /\ run'[r].key = run[r].key
         \/ run'[r] = Idle
  PROVE  FlightInv'
<1> DEFINE k == run[r].key
<1>1. /\ k \in Keys /\ InFlight(r) /\ res[k].status = "reserved" /\ calls[k] = 0
      /\ calls \in [Keys -> Nat]
  BY BusyIsRun DEF InFlight, FlightInv, SingleFlight, CallIsFirst, SpendTypeOK
<1>2. /\ calls'[k] = 1
      /\ \A j \in Keys \ {k} : calls'[j] = calls[j]
  BY <1>1 DEF CallProvider
<1>3. \A q \in Runs \ {r} : InFlight(q)' => InFlight(q) /\ run[q].key # k /\ run'[q] = run[q]
                                          /\ run[q].key \in Keys
  BY <1>1, BusyIsRun DEF InFlight, FlightInv, SingleFlight
<1>4. InFlight(r)' => run'[r].key = k
  BY DEF InFlight, Idle
<1>5. SingleFlight'
  BY <1>1, <1>3, <1>4 DEF FlightInv, SingleFlight
<1>6. CallIsFirst'
  <2>1. run'[r].pc # "call"
    BY DEF Idle
  <2> QED  BY <1>2, <1>3, <2>1 DEF FlightInv, CallIsFirst, InFlight
<1>7. AbsentIsUnused' /\ ProviderCalledOnce'
  BY <1>1, <1>2 DEF FlightInv, AbsentIsUnused, ProviderCalledOnce
<1> QED  BY <1>5, <1>6, <1>7 DEF FlightInv

\* Of the runs that found no reservation the unique key lets one go on.
LEMMA ReserveKeepsFlight ==
  ASSUME SpendTypeOK, FlightInv, NEW r \in Runs, Reserve(r)
  PROVE  FlightInv'
<1> DEFINE k == run[r].key
<1>1. /\ k \in Keys /\ run[r].day \in Days /\ run[r].cost \in Nat /\ run[r].verdict \in Verdict
      /\ run[r].pc # "idle" /\ res[k].status = "absent" /\ calls' = calls
      /\ res \in [Keys -> Reservation]
  BY BusyIsRun, RunFields DEF Reserve, SpendTypeOK
<1>2. /\ res'[k].status = "reserved" /\ \A j \in Keys \ {k} : res'[j] = res[j]
  BY <1>1, ReservedType DEF Reserve
<1>3. /\ run'[r].key = k /\ \A q \in Runs \ {r} : run'[q] = run[q]
  BY <1>1, MoveToMoves DEF Reserve, Pcs
<1>4. \A q \in Runs \ {r} : InFlight(q)' =>
        InFlight(q) /\ run'[q] = run[q] /\ run[q].key # k /\ run[q].key \in Keys
  BY <1>1, <1>3, BusyIsRun DEF InFlight, FlightInv, SingleFlight
<1>5. SingleFlight'
  BY <1>2, <1>3, <1>4 DEF FlightInv, SingleFlight
<1>6. CallIsFirst'
  <2>1. calls[k] = 0
    BY <1>1 DEF FlightInv, AbsentIsUnused
  <2> QED  BY <1>1, <1>3, <1>4, <2>1 DEF FlightInv, CallIsFirst, InFlight
<1> QED
  BY <1>1, <1>2, <1>5, <1>6 DEF FlightInv, AbsentIsUnused, ProviderCalledOnce

\* Accounting ends the flight of the run that holds the reservation.
LEMMA AccountKeepsFlight ==
  ASSUME SpendTypeOK, FlightInv, NEW r \in Runs, InFlight(r),
         NEW s \in {"settled", "uncertain"}, NEW a \in Nat,
         res' = [res EXCEPT ![run[r].key] = Accounted(@, s, a)], calls' = calls,
         run'[r].pc = "record", \A q \in Runs \ {r} : run'[q] = run[q]
  PROVE  FlightInv'
<1> DEFINE k == run[r].key
<1>1. /\ k \in Keys /\ res[k].status = "reserved" /\ res \in [Keys -> Reservation]
      /\ res[k] \in Reservation
  BY BusyIsRun DEF InFlight, FlightInv, SingleFlight, SpendTypeOK
<1>2. /\ res'[k].status = s /\ \A j \in Keys \ {k} : res'[j] = res[j]
  BY <1>1, AccountedType
<1>3. \A q \in Runs : InFlight(q)' =>
        q # r /\ InFlight(q) /\ run'[q] = run[q] /\ run[q].key # k /\ run[q].key \in Keys
  BY BusyIsRun DEF InFlight, FlightInv, SingleFlight
<1>4. SingleFlight'
  BY <1>2, <1>3 DEF FlightInv, SingleFlight
<1>5. CallIsFirst'
  BY <1>3 DEF FlightInv, CallIsFirst, InFlight
<1> QED
  BY <1>2, <1>4, <1>5 DEF FlightInv, AbsentIsUnused, ProviderCalledOnce

\* Nothing was reserved, nothing called.
LEMMA InitFlightInv == SpendInit => FlightInv
  BY DEF SpendInit, FlightInv, AbsentIsUnused, SingleFlight, CallIsFirst, ProviderCalledOnce,
         InFlight, Idle, NoReservation

\* No step of any run, however it overlaps with others, calls for a key twice.
LEMMA NextFlightInv == SpendTypeOK /\ FlightInv /\ [SpendNext]_spendVars => FlightInv'
<1> SUFFICES ASSUME SpendTypeOK, FlightInv, [SpendNext]_spendVars PROVE FlightInv'
  OBVIOUS
<1>0. /\ \A k \in Keys : res[k] \in Reservation
      /\ \A r \in Runs : run[r].pc # "idle" =>
           /\ run[r] \in Run /\ run[r].key \in Keys
           /\ run[r].cost \in Nat /\ run[r].verdict \in Verdict
  BY BusyIsRun, RunFields DEF SpendTypeOK
<1>1. ASSUME NEW r \in Runs, NEW k \in Keys, Begin(r, k) PROVE FlightInv'
  <2>1. /\ run'[r].pc = "lookup" /\ \A q \in Runs \ {r} : run'[q] = run[q]
        /\ UNCHANGED <<res, calls>>
    BY <1>1 DEF Begin, SpendTypeOK
  <2> QED  BY <2>1, RunOnlyKeepsFlight
<1>2. ASSUME NEW r \in Runs,
             \/ LookupFindsNothing(r) \/ LookupFindsReservation(r)
             \/ ReserveRefused(r) \/ ReserveCollides(r) \/ RecordCollides(r) \/ Die(r)
             \/ RecordInterpretation(r)
      PROVE  FlightInv'
  <2>1. run[r].pc # "idle" /\ UNCHANGED <<res, calls>>
    BY <1>2 DEF LookupFindsNothing, LookupFindsReservation, ReserveRefused, ReserveCollides,
                RecordCollides, Die, RecordInterpretation
  <2>2. \/ End(r) \/ MoveTo(r, "lock")
        \/ ToRecord(r, "provider_failed") \/ ToRecord(r, "budget_blocked")
    BY <1>2 DEF LookupFindsNothing, LookupFindsReservation, ReserveRefused, ReserveCollides,
                RecordCollides, Die, RecordInterpretation
  <2>3. /\ run'[r].pc \in {"idle", "lock", "record"}
        /\ \A q \in Runs \ {r} : run'[q] = run[q]
    <3>1. CASE End(r)
      BY <3>1, RunEnds DEF Idle
    <3>2. CASE MoveTo(r, "lock")
      BY <1>0, <2>1, <3>2, MoveToMoves DEF Pcs
    <3>3. ASSUME NEW v \in Verdict, ToRecord(r, v)
          PROVE  run'[r].pc = "record" /\ \A q \in Runs \ {r} : run'[q] = run[q]
      BY <1>0, <2>1, <3>3, RunMoves DEF ToRecord, Verdict, Moves, Pcs
    <3> QED  BY <2>2, <3>1, <3>2, <3>3 DEF Verdict
  <2> QED  BY <2>1, <2>3, RunOnlyKeepsFlight
<1>3. ASSUME NEW r \in Runs, NEW cost \in Costs, NEW valid \in BOOLEAN,
             ProviderAnswers(r, cost, valid)
      PROVE  FlightInv'
  <2>1. run[r].pc = "call" /\ cost \in Nat /\ run[r].key \in Keys
    BY <1>0, <1>3, SpendAssumption DEF ProviderAnswers
  <2>2. VerdictOn(run[r].key, cost, valid) \in Verdict
    BY <2>1, VerdictType
  <2>3. /\ run'[r].pc = "answered" /\ run'[r].key = run[r].key
        /\ \A q \in Runs \ {r} : run'[q] = run[q]
    BY <1>3, <2>1, <2>2, RunMoves DEF ProviderAnswers, Moves, Pcs
  <2> QED  BY <1>3, <2>1, <2>3, CallKeepsFlight DEF ProviderAnswers
<1>4. ASSUME NEW r \in Runs, ProviderFails(r) PROVE FlightInv'
  <2>1. run[r].pc = "call" /\ MoveTo(r, "failed") /\ CallProvider(run[r].key) /\ res' = res
    BY <1>4 DEF ProviderFails
  <2>2. /\ run'[r].pc = "failed" /\ run'[r].key = run[r].key
        /\ \A q \in Runs \ {r} : run'[q] = run[q]
    BY <1>0, <2>1, MoveToMoves DEF Pcs
  <2> QED  BY <2>1, <2>2, CallKeepsFlight
<1>5. ASSUME NEW r \in Runs, DieDuringCall(r) PROVE FlightInv'
  <2>1. run[r].pc = "call" /\ End(r) /\ CallProvider(run[r].key) /\ res' = res
    BY <1>5 DEF DieDuringCall
  <2> QED  BY <2>1, RunEnds, CallKeepsFlight
<1>6. ASSUME NEW r \in Runs, Settle(r) PROVE FlightInv'
  <2>1. run[r].pc = "answered" /\ MoveTo(r, "record") /\ calls' = calls
    BY <1>6 DEF Settle
  <2>2. run'[r].pc = "record" /\ \A q \in Runs \ {r} : run'[q] = run[q]
    BY <1>0, <2>1, MoveToMoves DEF Pcs
  <2> QED  BY <1>0, <1>6, <2>1, <2>2, AccountKeepsFlight DEF Settle, InFlight
<1>7. ASSUME NEW r \in Runs, MarkUncertain(r) PROVE FlightInv'
  <2>1. run[r].pc = "failed" /\ ToRecord(r, "provider_failed") /\ calls' = calls
    BY <1>7 DEF MarkUncertain
  <2>2. run'[r].pc = "record" /\ \A q \in Runs \ {r} : run'[q] = run[q]
    BY <1>0, <2>1, RunMoves DEF ToRecord, Verdict, Moves, Pcs
  <2>3. res[run[r].key].actual \in Nat
    BY <1>0, <2>1, ReservationFields
  <2> QED  BY <1>7, <2>1, <2>2, <2>3, AccountKeepsFlight DEF MarkUncertain, InFlight
<1>8. ASSUME NEW r \in Runs, RecordRecommendation(r) PROVE FlightInv'
  <2>1. /\ run[r].pc = "record" /\ End(r) /\ calls' = calls
        /\ res' = [res EXCEPT ![run[r].key] = WithOutcome(@, run[r].verdict)]
    BY <1>8 DEF RecordRecommendation
  <2>2. \A k \in Keys : res'[k].status = res[k].status
    BY <1>0, <2>1, WithOutcomeType DEF SpendTypeOK
  <2>3. \A q \in Runs : InFlight(q)' => InFlight(q) /\ run'[q] = run[q] /\ run[q].key \in Keys
    BY <1>0, <2>1, RunEnds DEF InFlight, Idle
  <2>4. SingleFlight'
    BY <2>2, <2>3 DEF FlightInv, SingleFlight
  <2>5. CallIsFirst'
    BY <2>1, <2>3 DEF FlightInv, CallIsFirst, InFlight
  <2> QED
    BY <2>1, <2>2, <2>4, <2>5 DEF FlightInv, AbsentIsUnused, ProviderCalledOnce
<1>9. CASE NextDay \/ UNCHANGED spendVars
  BY <1>9 DEF NextDay, spendVars, FlightInv, AbsentIsUnused, SingleFlight, CallIsFirst,
              ProviderCalledOnce, InFlight
<1> QED
  BY <1>1, <1>2, <1>3, <1>4, <1>5, <1>6, <1>7, <1>8, <1>9, ReserveKeepsFlight
     DEF SpendNext, Step

\* The reservations and the flights agree in every reachable state.
LEMMA FlightInvHolds == SpendSpec => [](SpendTypeOK /\ FlightInv)
  BY InitSpendTypeOK, NextSpendTypeOK, InitFlightInv, NextFlightInv, PTL DEF SpendSpec

\* A key is paid for at most once, with any number of overlapping, retried
\* and dying runs of it.
THEOREM CalledOnce == SpendSpec => []ProviderCalledOnce
<1>1. FlightInv => ProviderCalledOnce
  BY DEF FlightInv
<1> QED  BY <1>1, FlightInvHolds, PTL

\* One run at a time is between reserving a key and accounting for it.
THEOREM OneFlight == SpendSpec => []SingleFlight
<1>1. FlightInv => SingleFlight
  BY DEF FlightInv
<1> QED  BY <1>1, FlightInvHolds, PTL

\* What was called and not settled counts with its full estimate.
THEOREM UnsettledCounts == SpendSpec => []UnsettledCallsCount
<1>1. SpendTypeOK /\ FlightInv => UnsettledCallsCount
  BY ReservationFields
     DEF FlightInv, AbsentIsUnused, UnsettledCallsCount, Amount, SpendTypeOK, Money
<1> QED  BY <1>1, FlightInvHolds, PTL

-----------------------------------------------------------------------------
(* What is stored was paid for.                                            *)

\* Steps that leave the reservations and the records alone and bring no run
\* nearer to its last transaction than its answer allows.
LEMMA RunOnlyKeepsPaid ==
  ASSUME SpendTypeOK, PaidInv, NEW r \in Runs, UNCHANGED <<res, record>>,
         \A q \in Runs \ {r} : run'[q] = run[q],
         Holds(r)' => Holds(r) /\ run'[r].key = run[r].key,
         run'[r].pc = "answered" /\ run'[r].verdict = "accepted" => run'[r].cost <= MaxRunCost,
         run'[r].pc = "record" => run'[r].verdict # "accepted"
  PROVE  PaidInv'
<1>1. \A q \in Runs : Holds(q)' => Holds(q) /\ run'[q].key = run[q].key
  BY DEF Holds
<1>2. RecommendationsEndOnce'
  BY <1>1 DEF PaidInv, RecommendationsEndOnce
<1>3. AcceptedIsWithinCap'
  BY DEF PaidInv, AcceptedIsWithinCap
<1> QED
  BY <1>2, <1>3 DEF PaidInv, RecommendationRecords, AbsentIsPending, StoredResultIsPaid

\* A new reservation has a pending outcome, and no run held its key.
LEMMA ReserveKeepsPaid ==
  ASSUME SpendTypeOK, PaidInv, NEW r \in Runs, Reserve(r)
  PROVE  PaidInv'
<1> DEFINE k == run[r].key
<1>1. /\ k \in Keys /\ run[r].day \in Days /\ run[r].cost \in Nat /\ run[r].verdict \in Verdict
      /\ run[r].pc # "idle" /\ res[k].status = "absent" /\ record' = record
      /\ res \in [Keys -> Reservation]
  BY BusyIsRun, RunFields DEF Reserve, SpendTypeOK
<1>2. /\ res'[k].status = "reserved" /\ res'[k].outcome = "pending"
      /\ \A j \in Keys \ {k} : res'[j] = res[j]
  BY <1>1, ReservedType DEF Reserve
<1>3. /\ run'[r].pc = "call" /\ run'[r].key = k /\ \A q \in Runs \ {r} : run'[q] = run[q]
  BY <1>1, MoveToMoves DEF Reserve, Pcs
<1>4. \A q \in Runs \ {r} : Holds(q)' =>
        Holds(q) /\ run'[q] = run[q] /\ run[q].key # k /\ run[q].key \in Keys
  BY <1>1, <1>3, BusyIsRun DEF Holds, PaidInv, RecommendationsEndOnce
<1>5. RecommendationsEndOnce'
  BY <1>2, <1>3, <1>4 DEF PaidInv, RecommendationsEndOnce
<1>6. AcceptedIsWithinCap'
  <2>1. \A q \in Runs : run'[q].pc \in {"answered", "record"} =>
          q # r /\ run'[q] = run[q] /\ run[q].key \in Keys
    BY <1>3, BusyIsRun
  <2>2. \A q \in Runs : run[q].pc = "record" /\ run[q].verdict = "accepted" => run[q].key # k
    BY <1>1 DEF PaidInv, AcceptedIsWithinCap
  <2> QED  BY <1>2, <2>1, <2>2 DEF PaidInv, AcceptedIsWithinCap
<1>7. AbsentIsPending' /\ StoredResultIsPaid' /\ RecommendationRecords'
  BY <1>1, <1>2
     DEF PaidInv, AbsentIsPending, StoredResultIsPaid, RecommendationRecords
<1> QED  BY <1>5, <1>6, <1>7 DEF PaidInv

\* Accounting changes the row of its own key, which was only reserved: what
\* any other run or record relies on was settled before.
LEMMA AccountKeepsPaid ==
  ASSUME SpendTypeOK, FlightInv, PaidInv, NEW r \in Runs, InFlight(r),
         NEW s \in {"settled", "uncertain"}, NEW a \in Nat,
         res' = [res EXCEPT ![run[r].key] = Accounted(@, s, a)], record' = record,
         run'[r].pc = "record", run'[r].key = run[r].key,
         run'[r].verdict = "accepted" => s = "settled" /\ a <= MaxRunCost,
         \A q \in Runs \ {r} : run'[q] = run[q]
  PROVE  PaidInv'
<1> DEFINE k == run[r].key
<1>1. /\ k \in Keys /\ res[k].status = "reserved" /\ res \in [Keys -> Reservation]
      /\ res[k] \in Reservation
  BY BusyIsRun DEF InFlight, FlightInv, SingleFlight, SpendTypeOK
<1>2. /\ res'[k].status = s /\ res'[k].actual = a /\ res'[k].outcome = res[k].outcome
      /\ \A j \in Keys \ {k} : res'[j] = res[j]
  BY <1>1, AccountedType
<1>3. \A q \in Runs : Holds(q)' => Holds(q) /\ run'[q].key = run[q].key /\ run[q].key \in Keys
  BY BusyIsRun DEF Holds, InFlight
<1>4. RecommendationsEndOnce'
  BY <1>1, <1>2, <1>3 DEF PaidInv, RecommendationsEndOnce
<1>5. AcceptedIsWithinCap'
  <2>1. \A q \in Runs \ {r} : run[q].pc = "record" /\ run[q].verdict = "accepted" =>
          run[q].key # k /\ run[q].key \in Keys
    BY <1>1, BusyIsRun DEF PaidInv, AcceptedIsWithinCap
  <2> QED  BY <1>2, <2>1 DEF PaidInv, AcceptedIsWithinCap
<1>6. AbsentIsPending' /\ StoredResultIsPaid' /\ RecommendationRecords'
  BY <1>1, <1>2
     DEF PaidInv, AbsentIsPending, StoredResultIsPaid, RecommendationRecords
<1> QED  BY <1>4, <1>5, <1>6 DEF PaidInv

\* The last transaction of a recommendation writes the outcome that was
\* pending and, with the outcome accepted, the row that was paid for.
LEMMA RecordKeepsPaid ==
  ASSUME SpendTypeOK, PaidInv, NEW r \in Runs, RecordRecommendation(r)
  PROVE  PaidInv'
<1> DEFINE k == run[r].key
           v == run[r].verdict
<1>1. /\ k \in Keys /\ v \in Verdict /\ run[r].pc = "record" /\ k \in Recommendations
      /\ Holds(r) /\ End(r) /\ res \in [Keys -> Reservation] /\ res[k] \in Reservation
      /\ record \in [Keys -> {"none"} \cup Verdict]
  BY BusyIsRun, RunFields DEF RecordRecommendation, Holds, SpendTypeOK
<1>2. /\ res[k].status # "absent" /\ res[k].outcome = "pending"
      /\ v = "accepted" => res[k].status = "settled" /\ res[k].actual <= MaxRunCost
  BY <1>1 DEF PaidInv, RecommendationsEndOnce, AcceptedIsWithinCap
<1>3. /\ res'[k].status = res[k].status /\ res'[k].actual = res[k].actual
      /\ res'[k].outcome = v /\ \A j \in Keys \ {k} : res'[j] = res[j]
  BY <1>1, <1>2, WithOutcomeType DEF RecordRecommendation
<1>4. run'[r] = Idle /\ \A q \in Runs \ {r} : run'[q] = run[q]
  BY <1>1, RunEnds
<1>5. \A q \in Runs : Holds(q)' =>
        q # r /\ Holds(q) /\ run'[q] = run[q] /\ run[q].key # k /\ run[q].key \in Keys
  BY <1>1, <1>4, BusyIsRun DEF Holds, Idle, PaidInv, RecommendationsEndOnce
<1>6. RecommendationsEndOnce'
  BY <1>3, <1>5 DEF PaidInv, RecommendationsEndOnce
<1>7. AcceptedIsWithinCap'
  <2>1. \A q \in Runs : run'[q].pc \in {"answered", "record"} =>
          run'[q] = run[q] /\ run[q].key \in Keys
    BY <1>4, BusyIsRun DEF Idle
  <2> QED  BY <1>3, <2>1 DEF PaidInv, AcceptedIsWithinCap
<1>8. AbsentIsPending'
  BY <1>2, <1>3 DEF PaidInv, AbsentIsPending
<1>9. /\ \A j \in Keys \ {k} : record'[j] = record[j]
      /\ IF v = "accepted" THEN record'[k] = "accepted" ELSE record'[k] = record[k]
  BY <1>1 DEF RecordRecommendation
<1>10. RecommendationRecords'
  BY <1>9 DEF PaidInv, RecommendationRecords, Keys
<1>11. StoredResultIsPaid'
  <2>1. record[k] = "accepted" => res[k].outcome = "accepted"
    BY <1>1 DEF PaidInv, StoredResultIsPaid
  <2> QED  BY <1>2, <1>3, <1>9, <2>1 DEF PaidInv, StoredResultIsPaid
<1> QED  BY <1>6, <1>7, <1>8, <1>10, <1>11 DEF PaidInv

\* An interpretation is stored with the verdict of its paid answer.
LEMMA AppendKeepsPaid ==
  ASSUME SpendTypeOK, PaidInv, NEW r \in Runs, RecordInterpretation(r)
  PROVE  PaidInv'
<1> DEFINE k == run[r].key
<1>1. /\ k \in Keys /\ run[r].pc = "record" /\ k \in Interpretations /\ End(r) /\ res' = res
      /\ k \notin Recommendations
      /\ record' = [record EXCEPT ![k] = run[r].verdict]
      /\ record \in [Keys -> {"none"} \cup Verdict]
  BY BusyIsRun, SpendAssumption DEF RecordInterpretation, SpendTypeOK
<1>2. run'[r] = Idle /\ \A q \in Runs \ {r} : run'[q] = run[q]
  BY <1>1, RunEnds
<1>3. RecommendationsEndOnce'
  BY <1>1, <1>2 DEF PaidInv, RecommendationsEndOnce, Holds, Idle
<1>4. AcceptedIsWithinCap'
  BY <1>1, <1>2 DEF PaidInv, AcceptedIsWithinCap, Idle
<1>5. RecommendationRecords' /\ AbsentIsPending'
  BY <1>1 DEF PaidInv, RecommendationRecords, AbsentIsPending, Keys
<1>6. StoredResultIsPaid'
  BY <1>1 DEF PaidInv, StoredResultIsPaid, AcceptedIsWithinCap
<1> QED  BY <1>3, <1>4, <1>5, <1>6 DEF PaidInv

\* Nothing is stored.
LEMMA InitPaidInv == SpendInit => PaidInv
  BY DEF SpendInit, PaidInv, RecommendationsEndOnce, AcceptedIsWithinCap, RecommendationRecords,
         AbsentIsPending, StoredResultIsPaid, Holds, Idle, NoReservation, Keys

\* Every step stores only what was paid for.
LEMMA NextPaidInv == SpendTypeOK /\ FlightInv /\ PaidInv /\ [SpendNext]_spendVars => PaidInv'
<1> SUFFICES ASSUME SpendTypeOK, FlightInv, PaidInv, [SpendNext]_spendVars PROVE PaidInv'
  OBVIOUS
<1>0. /\ \A k \in Keys : res[k] \in Reservation
      /\ \A r \in Runs : run[r].pc # "idle" =>
           /\ run[r] \in Run /\ run[r].key \in Keys
           /\ run[r].cost \in Nat /\ run[r].verdict \in Verdict
  BY BusyIsRun, RunFields DEF SpendTypeOK
<1>1. ASSUME NEW r \in Runs, NEW k \in Keys, Begin(r, k) PROVE PaidInv'
  <2>1. /\ run'[r].pc = "lookup" /\ \A q \in Runs \ {r} : run'[q] = run[q]
        /\ UNCHANGED <<res, record>>
    BY <1>1 DEF Begin, SpendTypeOK
  <2> QED  BY <2>1, RunOnlyKeepsPaid DEF Holds
<1>2. ASSUME NEW r \in Runs,
             \/ LookupFindsNothing(r) \/ ReserveCollides(r) \/ RecordCollides(r)
             \/ Die(r) \/ DieDuringCall(r)
      PROVE  PaidInv'
  <2>1. run[r].pc # "idle" /\ UNCHANGED <<res, record>> /\ (End(r) \/ MoveTo(r, "lock"))
    BY <1>2 DEF LookupFindsNothing, ReserveCollides, RecordCollides, Die, DieDuringCall
  <2>2. /\ run'[r].pc \in {"idle", "lock"}
        /\ \A q \in Runs \ {r} : run'[q] = run[q]
    <3>1. CASE End(r)
      BY <3>1, RunEnds DEF Idle
    <3>2. CASE MoveTo(r, "lock")
      BY <1>0, <2>1, <3>2, MoveToMoves DEF Pcs
    <3> QED  BY <2>1, <3>1, <3>2
  <2> QED  BY <2>1, <2>2, RunOnlyKeepsPaid DEF Holds
<1>3. ASSUME NEW r \in Runs, LookupFindsReservation(r) \/ ReserveRefused(r) PROVE PaidInv'
  <2>1. /\ run[r].pc # "idle" /\ UNCHANGED <<res, record>>
        /\ \/ End(r)
           \/ /\ run[r].key \notin Recommendations
              /\ ToRecord(r, "provider_failed") \/ ToRecord(r, "budget_blocked")
    BY <1>3 DEF LookupFindsReservation, ReserveRefused
  <2>2. CASE End(r)
    <3>1. run'[r].pc = "idle" /\ \A q \in Runs \ {r} : run'[q] = run[q]
      BY <2>2, RunEnds DEF Idle
    <3> QED  BY <2>1, <3>1, RunOnlyKeepsPaid DEF Holds
  <2>3. ASSUME run[r].key \notin Recommendations,
               ToRecord(r, "provider_failed") \/ ToRecord(r, "budget_blocked")
        PROVE  PaidInv'
    <3>0. run[r].pc # "idle"
      BY <2>1
    <3>1. CASE ToRecord(r, "provider_failed")
      <4>1. /\ run'[r].pc = "record" /\ run'[r].key = run[r].key
            /\ run'[r].verdict = "provider_failed"
            /\ \A q \in Runs \ {r} : run'[q] = run[q]
        BY <1>0, <3>0, <3>1, RunMoves DEF ToRecord, Verdict, Moves, Pcs
      <4> QED  BY <2>1, <2>3, <4>1, RunOnlyKeepsPaid DEF Holds
    <3>2. CASE ToRecord(r, "budget_blocked")
      <4>1. /\ run'[r].pc = "record" /\ run'[r].key = run[r].key
            /\ run'[r].verdict = "budget_blocked"
            /\ \A q \in Runs \ {r} : run'[q] = run[q]
        BY <1>0, <3>0, <3>2, RunMoves DEF ToRecord, Verdict, Moves, Pcs
      <4> QED  BY <2>1, <2>3, <4>1, RunOnlyKeepsPaid DEF Holds
    <3> QED  BY <2>3, <3>1, <3>2
  <2> QED  BY <2>1, <2>2, <2>3
<1>4. ASSUME NEW r \in Runs, NEW cost \in Costs, NEW valid \in BOOLEAN,
             ProviderAnswers(r, cost, valid)
      PROVE  PaidInv'
  <2>1. /\ run[r].pc = "call" /\ cost \in Nat /\ run[r].key \in Keys
        /\ UNCHANGED <<res, record>>
    BY <1>0, <1>4, SpendAssumption DEF ProviderAnswers
  <2>2. /\ VerdictOn(run[r].key, cost, valid) \in Verdict
        /\ VerdictOn(run[r].key, cost, valid) = "accepted" => cost <= MaxRunCost
    BY <2>1, VerdictType
  <2>3. /\ run'[r].pc = "answered" /\ run'[r].key = run[r].key /\ run'[r].cost = cost
        /\ run'[r].verdict = VerdictOn(run[r].key, cost, valid)
        /\ \A q \in Runs \ {r} : run'[q] = run[q]
    <3> DEFINE v == VerdictOn(run[r].key, cost, valid)
    <3>1. Moves(r, "answered", cost, v)
      BY <1>4 DEF ProviderAnswers, Moves
    <3> HIDE DEF v
    <3>2. v \in Verdict
      BY <2>2 DEF v
    <3>3. /\ run'[r].pc = "answered" /\ run'[r].key = run[r].key /\ run'[r].cost = cost
          /\ run'[r].verdict = v /\ \A q \in Runs \ {r} : run'[q] = run[q]
      BY <1>0, <2>1, <3>1, <3>2, RunMoves DEF Pcs
    <3> QED  BY <3>3 DEF v
  <2>4. Holds(r)' => Holds(r) /\ run'[r].key = run[r].key
    BY <2>1, <2>3 DEF Holds
  <2> QED  BY <2>1, <2>2, <2>3, <2>4, RunOnlyKeepsPaid
<1>5. ASSUME NEW r \in Runs, ProviderFails(r) PROVE PaidInv'
  <2>1. run[r].pc = "call" /\ MoveTo(r, "failed") /\ UNCHANGED <<res, record>>
    BY <1>5 DEF ProviderFails
  <2>2. /\ run'[r].pc = "failed" /\ run'[r].key = run[r].key
        /\ \A q \in Runs \ {r} : run'[q] = run[q]
    BY <1>0, <2>1, MoveToMoves DEF Pcs
  <2>3. Holds(r)' => Holds(r) /\ run'[r].key = run[r].key
    BY <2>1, <2>2 DEF Holds
  <2> QED  BY <2>1, <2>2, <2>3, RunOnlyKeepsPaid
<1>6. ASSUME NEW r \in Runs, Settle(r) PROVE PaidInv'
  <2>1. run[r].pc = "answered" /\ MoveTo(r, "record") /\ record' = record
    BY <1>6 DEF Settle
  <2>2. /\ run'[r].pc = "record" /\ run'[r].key = run[r].key
        /\ run'[r].verdict = run[r].verdict
        /\ \A q \in Runs \ {r} : run'[q] = run[q]
    BY <1>0, <2>1, MoveToMoves DEF Pcs
  <2>3. run[r].verdict = "accepted" => run[r].cost <= MaxRunCost
    BY <2>1 DEF PaidInv, AcceptedIsWithinCap
  <2>4. run[r].cost \in Nat /\ InFlight(r)
    BY <1>0, <2>1 DEF InFlight
  <2> QED  BY <1>6, <2>1, <2>2, <2>3, <2>4, AccountKeepsPaid DEF Settle
<1>7. ASSUME NEW r \in Runs, MarkUncertain(r) PROVE PaidInv'
  <2>1. run[r].pc = "failed" /\ ToRecord(r, "provider_failed") /\ record' = record
    BY <1>7 DEF MarkUncertain
  <2>2. /\ run'[r].pc = "record" /\ run'[r].key = run[r].key
        /\ run'[r].verdict = "provider_failed"
        /\ \A q \in Runs \ {r} : run'[q] = run[q]
    BY <1>0, <2>1, RunMoves DEF ToRecord, Verdict, Moves, Pcs
  <2>3. res[run[r].key].actual \in Nat /\ InFlight(r)
    BY <1>0, <2>1, ReservationFields DEF InFlight
  <2> QED  BY <1>7, <2>1, <2>2, <2>3, AccountKeepsPaid DEF MarkUncertain
<1>8. CASE NextDay \/ UNCHANGED spendVars
  BY <1>8 DEF NextDay, spendVars, PaidInv, RecommendationsEndOnce, AcceptedIsWithinCap,
              RecommendationRecords, AbsentIsPending, StoredResultIsPaid, Holds
<1> QED
  BY <1>1, <1>2, <1>3, <1>4, <1>5, <1>6, <1>7, <1>8,
     ReserveKeepsPaid, RecordKeepsPaid, AppendKeepsPaid DEF SpendNext, Step

\* The records and the accounts agree in every reachable state.
LEMMA PaidInvHolds == SpendSpec => [](SpendTypeOK /\ FlightInv /\ PaidInv)
  BY InitPaidInv, NextPaidInv, FlightInvHolds, PTL DEF SpendSpec

\* Whatever a key's runs did to each other, a stored result was settled
\* within the per-run cap.
THEOREM StoredIsPaid == SpendSpec => []StoredResultIsPaid
<1>1. PaidInv => StoredResultIsPaid
  BY DEF PaidInv
<1> QED  BY <1>1, PaidInvHolds, PTL

-----------------------------------------------------------------------------
(* Accounts and records are written once.                                  *)

\* What one step may do to the account and the record of a key.
AccountKept(k) ==
  /\ res[k].status \in {"settled", "uncertain"} =>
       res'[k].status = res[k].status /\ res'[k].actual = res[k].actual
  /\ res[k].status # "absent" => res'[k].status # "absent" /\ res'[k].day = res[k].day
  /\ res[k].outcome # "pending" => res'[k].outcome = res[k].outcome
  /\ record[k] # "none" => record'[k] = record[k]

\* No step rewrites money, an outcome or a record.
LEMMA StepKeepsAccounts ==
  ASSUME SpendTypeOK, FlightInv, PaidInv, [SpendNext]_spendVars, NEW k \in Keys
  PROVE  AccountKept(k)
<1>0. /\ \A j \in Keys : res[j] \in Reservation
      /\ \A r \in Runs : run[r].pc # "idle" =>
           /\ run[r] \in Run /\ run[r].key \in Keys /\ run[r].day \in Days
           /\ run[r].cost \in Nat /\ run[r].verdict \in Verdict
      /\ res \in [Keys -> Reservation] /\ record \in [Keys -> {"none"} \cup Verdict]
  BY BusyIsRun, RunFields DEF SpendTypeOK
<1>1. ASSUME UNCHANGED <<res, record>> PROVE AccountKept(k)
  BY <1>1 DEF AccountKept
<1>2. ASSUME NEW r \in Runs, Reserve(r) PROVE AccountKept(k)
  <2>1. /\ run[r].key \in Keys /\ res[run[r].key].status = "absent"
        /\ res' = [res EXCEPT ![run[r].key] = Reserved(run[r].day)] /\ record' = record
    BY <1>0, <1>2 DEF Reserve
  <2>2. CASE k # run[r].key
    BY <1>0, <2>1, <2>2 DEF AccountKept
  <2>3. CASE k = run[r].key
    BY <1>0, <2>1, <2>3 DEF AccountKept, Reserved, PaidInv, AbsentIsPending
  <2> QED  BY <2>2, <2>3
<1>3. ASSUME NEW r \in Runs, NEW s \in {"settled", "uncertain"}, NEW a \in Nat,
             run[r].key \in Keys,
             res' = [res EXCEPT ![run[r].key] = Accounted(@, s, a)], record' = record
      PROVE  AccountKept(k)
  <2>1. CASE k # run[r].key
    BY <1>0, <1>3, <2>1 DEF AccountKept
  <2>2. CASE k = run[r].key
    <3>1. res'[k] = Accounted(res[k], s, a)
      BY <1>0, <1>3, <2>2
    <3> QED  BY <1>0, <1>3, <3>1, AccountedType DEF AccountKept
  <2> QED  BY <2>1, <2>2
<1>4. ASSUME NEW r \in Runs, Settle(r) PROVE AccountKept(k)
  BY <1>0, <1>3, <1>4 DEF Settle
<1>5. ASSUME NEW r \in Runs, MarkUncertain(r) PROVE AccountKept(k)
  <2>1. res[run[r].key].actual \in Nat /\ run[r].key \in Keys
    BY <1>0, <1>5, ReservationFields DEF MarkUncertain
  <2> QED  BY <1>3, <1>5, <2>1 DEF MarkUncertain
<1>6. ASSUME NEW r \in Runs, RecordRecommendation(r) PROVE AccountKept(k)
  <2>1. /\ run[r].key \in Recommendations /\ run[r].key \in Keys /\ run[r].verdict \in Verdict
        /\ res' = [res EXCEPT ![run[r].key] = WithOutcome(@, run[r].verdict)]
        /\ record' = record \/ record' = [record EXCEPT ![run[r].key] = "accepted"]
    BY <1>0, <1>6 DEF RecordRecommendation
  <2>2. CASE k # run[r].key
    BY <1>0, <2>1, <2>2 DEF AccountKept
  <2>3. CASE k = run[r].key
    <3>1. res'[k] = WithOutcome(res[k], run[r].verdict)
      BY <1>0, <2>1, <2>3
    <3>2. record[k] # "none" => record'[k] = record[k]
      BY <1>0, <2>1, <2>3 DEF PaidInv, RecommendationRecords
    <3> QED  BY <1>0, <2>1, <3>1, <3>2, WithOutcomeType DEF AccountKept
  <2> QED  BY <2>2, <2>3
<1>7. ASSUME NEW r \in Runs, RecordInterpretation(r) PROVE AccountKept(k)
  BY <1>0, <1>7 DEF RecordInterpretation, AccountKept
<1>8. ASSUME NEW r \in Runs,
             \/ \E j \in Keys : Begin(r, j)
             \/ LookupFindsNothing(r) \/ LookupFindsReservation(r)
             \/ ReserveRefused(r) \/ ReserveCollides(r) \/ RecordCollides(r)
             \/ \E cost \in Costs, valid \in BOOLEAN : ProviderAnswers(r, cost, valid)
             \/ ProviderFails(r) \/ Die(r) \/ DieDuringCall(r)
      PROVE  AccountKept(k)
  <2>1. UNCHANGED <<res, record>>
    BY <1>8 DEF Begin, LookupFindsNothing, LookupFindsReservation, ReserveRefused,
                ReserveCollides, RecordCollides, ProviderAnswers, ProviderFails, Die,
                DieDuringCall
  <2> QED  BY <1>1, <2>1
<1>9. CASE NextDay \/ UNCHANGED spendVars
  BY <1>1, <1>9 DEF NextDay, spendVars
<1> QED
  BY <1>2, <1>4, <1>5, <1>6, <1>7, <1>8, <1>9 DEF SpendNext, Step

\* Money that was settled or left uncertain, a recorded outcome and a stored
\* record are never rewritten, by any run in any order.
THEOREM FinalAccounts == SpendSpec => AccountsAreFinal
<1>1. SpendTypeOK /\ FlightInv /\ PaidInv /\ [SpendNext]_spendVars => [\A k \in Keys : AccountKept(k)]_spendVars
  BY StepKeepsAccounts
<1> QED  BY <1>1, PaidInvHolds, PTL DEF SpendSpec, AccountsAreFinal, AccountKept

-----------------------------------------------------------------------------
(* The caps.                                                               *)

\* An amount has as many units as it says.
LEMMA UnitsOfOne ==
  ASSUME NEW k, NEW n \in Nat
  PROVE  IsFiniteSet({k} \X (1 .. n)) /\ Cardinality({k} \X (1 .. n)) = n
<1>1. IsFiniteSet({k}) /\ Cardinality({k}) = 1
  BY FS_Singleton
<1>2. IsFiniteSet(1 .. n) /\ Cardinality(1 .. n) = n
  BY FS_Interval
<1>3. /\ IsFiniteSet({k} \X (1 .. n))
      /\ Cardinality({k} \X (1 .. n)) = Cardinality({k}) * Cardinality(1 .. n)
  BY <1>1, <1>2, FS_Product
<1> QED  BY <1>1, <1>2, <1>3

\* A total over fewer keys, of amounts that are not greater, is not greater.
LEMMA TotalIsMonotone ==
  ASSUME NEW S, NEW T, S \subseteq T, NEW f, NEW g,
         \A k \in S : f[k] \in Nat /\ g[k] \in Nat /\ f[k] <= g[k],
         IsFiniteSet(Units(T, g))
  PROVE  /\ IsFiniteSet(Units(S, f))
         /\ Total(S, f) \in Nat /\ Total(T, g) \in Nat /\ Total(S, f) <= Total(T, g)
<1>1. \A k \in S : 1 .. f[k] \subseteq 1 .. g[k]
  OBVIOUS
<1>2. Units(S, f) \subseteq Units(T, g)
  BY <1>1 DEF Units
<1> QED  BY <1>2, FS_Subset, FS_CardinalityType DEF Total

\* One key more adds at most its amount.
LEMMA TotalGrowsBy ==
  ASSUME NEW S, NEW k, NEW T, T \subseteq S \cup {k}, NEW f, NEW g,
         \A j \in T \ {k} : f[j] \in Nat /\ g[j] \in Nat /\ f[j] <= g[j],
         f[k] \in Nat, IsFiniteSet(Units(S, g))
  PROVE  /\ IsFiniteSet(Units(T, f))
         /\ Total(T, f) \in Nat /\ Total(S, g) \in Nat /\ Total(T, f) <= Total(S, g) + f[k]
<1> DEFINE U == Units(S, g)
           V == {k} \X (1 .. f[k])
<1>1. IsFiniteSet(V) /\ Cardinality(V) = f[k]
  BY UnitsOfOne
<1>2. /\ IsFiniteSet(U \cup V)
      /\ Cardinality(U \cup V) = Cardinality(U) + Cardinality(V) - Cardinality(U \cap V)
  BY <1>1, FS_Union
<1>3. Cardinality(U) \in Nat /\ Cardinality(U \cap V) \in Nat
  BY <1>1, FS_CardinalityType, FS_Intersection
<1>4. \A j \in T \ {k} : j \in S /\ 1 .. f[j] \subseteq 1 .. g[j]
  OBVIOUS
<1>5. Units(T, f) \subseteq U \cup V
  BY <1>4 DEF Units
<1>6. IsFiniteSet(Units(T, f)) /\ Cardinality(Units(T, f)) <= Cardinality(U \cup V)
  BY <1>2, <1>5, FS_Subset
<1>7. Cardinality(Units(T, f)) \in Nat /\ Cardinality(U \cup V) \in Nat
  BY <1>2, <1>6, FS_CardinalityType
<1> QED  BY <1>1, <1>2, <1>3, <1>6, <1>7 DEF Total

ReservedKeys == {k \in Keys : res[k].status # "absent"}

\* The accounts are finite; without that a total means nothing.
CapInv == IsFiniteSet(Units(ReservedKeys, Amounts)) /\ AuthorisedWithinCaps

\* Every amount is a number, and what is authorised is at most the amount and
\* at most the estimate.
LEMMA AmountTypes ==
  ASSUME SpendTypeOK, NEW k \in Keys
  PROVE  /\ Amounts[k] \in Nat /\ AuthorisedAmounts[k] \in Nat
         /\ AuthorisedAmounts[k] <= Amounts[k] /\ AuthorisedAmounts[k] <= Estimate
         /\ res[k].status \in {"reserved", "uncertain"} => AuthorisedAmounts[k] = Estimate
<1>1. res[k] \in Reservation
  BY DEF SpendTypeOK
<1>2. res[k].actual \in Nat /\ Estimate \in Nat
  BY <1>1, ReservationFields, SpendAssumption
<1>3. Amounts[k] = Amount(k)
  BY DEF Amounts
<1>4. AuthorisedAmounts[k] = IF Amount(k) < Estimate THEN Amount(k) ELSE Estimate
  BY DEF AuthorisedAmounts
<1>5. Amount(k) \in Nat /\ (res[k].status \in {"reserved", "uncertain"} => Amount(k) = Estimate)
  BY <1>2 DEF Amount
<1> QED  BY <1>2, <1>3, <1>4, <1>5

\* Steps after which no reservation is new or moved, and what is authorised has
\* not grown, keep within the caps; the amount of one key may have changed.
LEMMA NothingAuthorised ==
  ASSUME SpendTypeOK, SpendTypeOK', CapInv, NEW k \in Keys,
         \A j \in Keys : /\ res'[j].status # "absent" =>
                              res[j].status # "absent" /\ res'[j].day = res[j].day
                         /\ AuthorisedAmounts'[j] <= AuthorisedAmounts[j]
                         /\ j # k => Amounts'[j] = Amounts[j]
  PROVE  CapInv'
<1>1. /\ \A j \in Keys : Amounts[j] \in Nat /\ AuthorisedAmounts[j] \in Nat
                         /\ AuthorisedAmounts[j] <= Amounts[j]
      /\ \A j \in Keys : Amounts'[j] \in Nat /\ AuthorisedAmounts'[j] \in Nat
  <2>1. \A j \in Keys : Amounts[j] \in Nat /\ AuthorisedAmounts[j] \in Nat
                         /\ AuthorisedAmounts[j] <= Amounts[j]
    BY AmountTypes
  <2>2. ASSUME NEW j \in Keys PROVE Amounts'[j] \in Nat /\ AuthorisedAmounts'[j] \in Nat
    <3>1. res'[j] \in Reservation
      BY DEF SpendTypeOK
    <3>2. res'[j].actual \in Nat /\ Estimate \in Nat
      BY <3>1, ReservationFields, SpendAssumption
    <3>3. Amount(j)' \in Nat
      BY <3>2 DEF Amount
    <3> QED  BY <3>2, <3>3 DEF Amounts, AuthorisedAmounts
  <2> QED  BY <2>1, <2>2
<1>2. ReservedKeys' \subseteq ReservedKeys \cup {k} /\ ReservedKeys' \subseteq Keys
  BY DEF ReservedKeys
<1>3. IsFiniteSet(Units(ReservedKeys, Amounts))'
  <2> DEFINE T == ReservedKeys'
             f == Amounts'
  <2>1. \A j \in T \ {k} : f[j] \in Nat /\ Amounts[j] \in Nat /\ f[j] <= Amounts[j]
    BY <1>1, <1>2
  <2>2. f[k] \in Nat /\ T \subseteq ReservedKeys \cup {k} /\ IsFiniteSet(Units(ReservedKeys, Amounts))
    BY <1>1, <1>2 DEF CapInv
  <2> HIDE DEF T, f
  <2>3. IsFiniteSet(Units(T, f))
    BY <2>1, <2>2, TotalGrowsBy
  <2> QED  BY <2>3 DEF Units, T, f
<1>4. ASSUME NEW S, NEW T \in SUBSET S, S \subseteq ReservedKeys
      PROVE  /\ Total(T, AuthorisedAmounts') \in Nat /\ Total(S, AuthorisedAmounts) \in Nat
             /\ Total(T, AuthorisedAmounts') <= Total(S, AuthorisedAmounts)
  <2> DEFINE f == AuthorisedAmounts'
  <2>1. /\ S \subseteq Keys
        /\ \A j \in T : f[j] \in Nat /\ AuthorisedAmounts[j] \in Nat /\ f[j] <= AuthorisedAmounts[j]
    BY <1>1, <1>4 DEF ReservedKeys
  <2>2. IsFiniteSet(Units(S, AuthorisedAmounts))
    BY <1>1, <1>4, <2>1, TotalIsMonotone DEF CapInv
  <2> HIDE DEF f
  <2>3. /\ Total(T, f) \in Nat /\ Total(S, AuthorisedAmounts) \in Nat
        /\ Total(T, f) <= Total(S, AuthorisedAmounts)
    BY <2>1, <2>2, TotalIsMonotone
  <2> QED  BY <2>3 DEF f
<1>5. \A j \in Keys, d \in Days :
        /\ OnDay(j, d)' \subseteq OnDay(j, d) /\ OnDay(j, d) \subseteq ReservedKeys
        /\ InMonth(j, d)' \subseteq InMonth(j, d) /\ InMonth(j, d) \subseteq ReservedKeys
  BY DEF OnDay, InMonth, SamePurpose, ReservedKeys, Keys
<1>6. AuthorisedWithinCaps'
  <2> SUFFICES ASSUME NEW j \in Keys, NEW d \in Days
               PROVE  /\ Total(OnDay(j, d)', AuthorisedAmounts') <= DailyCap
                      /\ Total(InMonth(j, d)', AuthorisedAmounts') <= MonthlyCap
    BY DEF AuthorisedWithinCaps, Total, Units
  <2>1. /\ Total(OnDay(j, d), AuthorisedAmounts) <= DailyCap
        /\ Total(InMonth(j, d), AuthorisedAmounts) <= MonthlyCap
    BY DEF CapInv, AuthorisedWithinCaps
  <2>2. DailyCap \in Nat /\ MonthlyCap \in Nat
    BY SpendAssumption
  <2> DEFINE a == Total(OnDay(j, d)', AuthorisedAmounts')
             b == Total(OnDay(j, d), AuthorisedAmounts)
             m == Total(InMonth(j, d)', AuthorisedAmounts')
             n == Total(InMonth(j, d), AuthorisedAmounts)
  <2>3. a \in Nat /\ b \in Nat /\ a <= b
    BY <1>4, <1>5
  <2>4. m \in Nat /\ n \in Nat /\ m <= n
    BY <1>4, <1>5
  <2> HIDE DEF a, b, m, n
  <2>5. a <= DailyCap /\ m <= MonthlyCap
    BY <2>1, <2>2, <2>3, <2>4 DEF b, n
  <2> QED  BY <2>5 DEF a, m
<1> QED  BY <1>3, <1>6 DEF CapInv

\* A reservation was checked against both caps under the lock of the budget's
\* row, and adds the estimate to the day and the month it is for.
LEMMA ReserveFits ==
  ASSUME SpendTypeOK, SpendTypeOK', CapInv, NEW r \in Runs, Reserve(r)
  PROVE  CapInv'
<1>0. PICK k, at : k = run[r].key /\ at = run[r].day
  OBVIOUS
<1>1. /\ k \in Keys /\ at \in Days /\ res[k].status = "absent" /\ FitsCaps(k, at)
      /\ res \in [Keys -> Reservation]
  BY <1>0, BusyIsRun, RunFields DEF Reserve, SpendTypeOK
<1>2. /\ res'[k] = Reserved(at) /\ res'[k].status = "reserved" /\ res'[k].day = at
      /\ \A j \in Keys \ {k} : res'[j] = res[j]
  BY <1>0, <1>1 DEF Reserve, Reserved
<1>3. /\ \A j \in Keys \ {k} : Amounts'[j] = Amounts[j]
                               /\ AuthorisedAmounts'[j] = AuthorisedAmounts[j]
      /\ Amounts'[k] = Estimate /\ AuthorisedAmounts'[k] = Estimate
  <2>1. \A j \in Keys \ {k} : Amount(j)' = Amount(j)
    BY <1>2 DEF Amount
  <2>2. Amount(k)' = Estimate
    BY <1>2 DEF Amount
  <2> QED  BY <1>1, <2>1, <2>2, SpendAssumption DEF Amounts, AuthorisedAmounts
<1>4. \A j \in Keys : Amounts[j] \in Nat /\ AuthorisedAmounts[j] \in Nat
                      /\ AuthorisedAmounts[j] <= Amounts[j]
  BY AmountTypes
<1>5. Estimate \in Nat /\ DailyCap \in Nat /\ MonthlyCap \in Nat
  BY SpendAssumption
<1>6. ReservedKeys' \subseteq ReservedKeys \cup {k} /\ ReservedKeys' \subseteq Keys
  BY <1>1, <1>2 DEF ReservedKeys
<1>7. IsFiniteSet(Units(ReservedKeys, Amounts))'
  <2> DEFINE T == ReservedKeys'
             f == Amounts'
  <2>1. \A j \in T \ {k} : f[j] \in Nat /\ Amounts[j] \in Nat /\ f[j] <= Amounts[j]
    BY <1>3, <1>4, <1>6
  <2>2. f[k] \in Nat /\ T \subseteq ReservedKeys \cup {k} /\ IsFiniteSet(Units(ReservedKeys, Amounts))
    BY <1>3, <1>5, <1>6 DEF CapInv
  <2> HIDE DEF T, f
  <2>3. IsFiniteSet(Units(T, f))
    BY <2>1, <2>2, TotalGrowsBy
  <2> QED  BY <2>3 DEF Units, T, f
<1>8. ASSUME NEW S \in SUBSET ReservedKeys, NEW T \in SUBSET Keys, NEW cap \in Nat,
             T \subseteq S \cup {k}, Total(S, AuthorisedAmounts) <= cap,
             k \in T => Total(S, Amounts) + Estimate <= cap
      PROVE  Total(T, AuthorisedAmounts') <= cap
  <2> DEFINE f == AuthorisedAmounts'
  <2>1. S \subseteq Keys
    BY <1>8 DEF ReservedKeys
  <2>2. \A j \in S : /\ AuthorisedAmounts[j] \in Nat /\ Amounts[j] \in Nat
                     /\ AuthorisedAmounts[j] <= Amounts[j] /\ Amounts[j] <= Amounts[j]
    BY <1>4, <2>1
  <2>3. IsFiniteSet(Units(S, Amounts)) /\ IsFiniteSet(Units(S, AuthorisedAmounts))
    BY <1>8, <2>2, TotalIsMonotone DEF CapInv
  <2>4. \A j \in T \ {k} : /\ f[j] \in Nat /\ Amounts[j] \in Nat /\ AuthorisedAmounts[j] \in Nat
                           /\ f[j] <= Amounts[j] /\ f[j] <= AuthorisedAmounts[j]
    BY <1>3, <1>4, <2>1
  <2>5. f[k] = Estimate
    BY <1>3
  <2> HIDE DEF f
  <2>6. CASE k \in T
    <3>0. /\ T \subseteq S \cup {k} /\ f[k] \in Nat
          /\ \A j \in T \ {k} : f[j] \in Nat /\ Amounts[j] \in Nat /\ f[j] <= Amounts[j]
      BY <1>5, <1>8, <2>4, <2>5
    <3>1. /\ Total(T, f) \in Nat /\ Total(S, Amounts) \in Nat
          /\ Total(T, f) <= Total(S, Amounts) + f[k]
      BY <2>3, <3>0, TotalGrowsBy
    <3> QED  BY <1>5, <1>8, <2>5, <2>6, <3>1 DEF f
  <2>7. CASE k \notin T
    <3>1. T \subseteq S /\ \A j \in T : f[j] \in Nat /\ AuthorisedAmounts[j] \in Nat
                                        /\ f[j] <= AuthorisedAmounts[j]
      BY <1>8, <2>4, <2>7
    <3>2. /\ Total(T, f) \in Nat /\ Total(S, AuthorisedAmounts) \in Nat
          /\ Total(T, f) <= Total(S, AuthorisedAmounts)
      BY <2>3, <3>1, TotalIsMonotone
    <3> QED  BY <1>8, <3>2 DEF f
  <2> QED  BY <2>6, <2>7
<1>9. ASSUME NEW j \in Keys, NEW d \in Days
      PROVE  /\ OnDay(j, d)' \subseteq OnDay(j, d) \cup {k}
             /\ InMonth(j, d)' \subseteq InMonth(j, d) \cup {k}
             /\ k \in OnDay(j, d)' => OnDay(j, d) = OnDay(k, at)
             /\ k \in InMonth(j, d)' => InMonth(j, d) = InMonth(k, at)
  <2>1. \A i \in SamePurpose(j) : i \in Keys
    BY DEF SamePurpose, Keys
  <2>2. k \in SamePurpose(j) => SamePurpose(j) = SamePurpose(k)
    BY SpendAssumption DEF SamePurpose, Keys
  <2>3. k \in OnDay(j, d)' => d = at
    BY <1>2 DEF OnDay
  <2>4. k \in InMonth(j, d)' => Month(d) = Month(at)
    BY <1>2 DEF InMonth
  <2>5. k \in OnDay(j, d)' \/ k \in InMonth(j, d)' => k \in SamePurpose(j)
    BY DEF OnDay, InMonth
  <2>6. OnDay(j, d)' \subseteq OnDay(j, d) \cup {k} /\ InMonth(j, d)' \subseteq InMonth(j, d) \cup {k}
    BY <1>2, <2>1 DEF OnDay, InMonth
  <2> QED  BY <2>2, <2>3, <2>4, <2>5, <2>6 DEF OnDay, InMonth
<1>10. AuthorisedWithinCaps'
  <2> SUFFICES ASSUME NEW j \in Keys, NEW d \in Days
               PROVE  /\ Total(OnDay(j, d)', AuthorisedAmounts') <= DailyCap
                      /\ Total(InMonth(j, d)', AuthorisedAmounts') <= MonthlyCap
    BY DEF AuthorisedWithinCaps, Total, Units
  <2>1. /\ Total(OnDay(j, d), AuthorisedAmounts) <= DailyCap
        /\ Total(InMonth(j, d), AuthorisedAmounts) <= MonthlyCap
    BY DEF CapInv, AuthorisedWithinCaps
  <2>2. /\ Total(OnDay(k, at), Amounts) + Estimate <= DailyCap
        /\ Total(InMonth(k, at), Amounts) + Estimate <= MonthlyCap
    BY <1>1 DEF FitsCaps
  <2>3. /\ OnDay(j, d) \in SUBSET ReservedKeys /\ InMonth(j, d) \in SUBSET ReservedKeys
        /\ OnDay(j, d)' \in SUBSET Keys /\ InMonth(j, d)' \in SUBSET Keys
    BY DEF OnDay, InMonth, SamePurpose, ReservedKeys, Keys
  <2>4. Total(OnDay(j, d)', AuthorisedAmounts') <= DailyCap
    BY <1>5, <1>8, <1>9, <2>1, <2>2, <2>3
  <2>5. Total(InMonth(j, d)', AuthorisedAmounts') <= MonthlyCap
    BY <1>5, <1>8, <1>9, <2>1, <2>2, <2>3
  <2> QED  BY <2>4, <2>5
<1> QED  BY <1>7, <1>10 DEF CapInv

\* Settling replaces the estimate by the actual cost, of which no more than the
\* estimate counts as authorised; marking keeps the estimate.
LEMMA AccountingAuthorisesNothing ==
  ASSUME SpendTypeOK, SpendTypeOK', CapInv, NEW k \in Keys, res[k].status = "reserved",
         NEW s \in {"settled", "uncertain"}, NEW a \in Nat,
         res' = [res EXCEPT ![k] = Accounted(@, s, a)]
  PROVE  CapInv'
<1>1. res \in [Keys -> Reservation] /\ res[k] \in Reservation
  BY DEF SpendTypeOK
<1>2. /\ res'[k].day = res[k].day
      /\ \A j \in Keys \ {k} : res'[j] = res[j]
  BY <1>1, AccountedType
<1>3. \A j \in Keys \ {k} : Amount(j)' = Amount(j)
  BY <1>2 DEF Amount
<1>4. \A j \in Keys \ {k} : Amounts'[j] = Amounts[j] /\ AuthorisedAmounts'[j] = AuthorisedAmounts[j]
  BY <1>3 DEF Amounts, AuthorisedAmounts
<1>5. AuthorisedAmounts[k] = Estimate /\ \A j \in Keys : AuthorisedAmounts[j] \in Nat
  BY AmountTypes
<1>6. AuthorisedAmounts'[k] <= Estimate
  <2>1. res'[k] \in Reservation
    BY DEF SpendTypeOK
  <2>2. res'[k].actual \in Nat /\ Estimate \in Nat
    BY <2>1, ReservationFields, SpendAssumption
  <2>3. Amount(k)' \in Nat
    BY <2>2 DEF Amount
  <2> QED  BY <2>2, <2>3 DEF AuthorisedAmounts
<1>7. \A j \in Keys : /\ res'[j].status # "absent" =>
                           res[j].status # "absent" /\ res'[j].day = res[j].day
                      /\ AuthorisedAmounts'[j] <= AuthorisedAmounts[j]
                      /\ j # k => Amounts'[j] = Amounts[j]
  BY <1>2, <1>4, <1>5, <1>6
<1> QED  BY <1>7, NothingAuthorised

\* Steps that leave the money of every reservation as it is.
LEMMA SameMoney ==
  ASSUME SpendTypeOK, SpendTypeOK', CapInv,
         \A j \in Keys : /\ res'[j].status = res[j].status /\ res'[j].day = res[j].day
                         /\ res'[j].actual = res[j].actual
  PROVE  CapInv'
<1>1. \A j \in Keys : Amount(j)' = Amount(j)
  BY DEF Amount
<1>2. Amounts' = Amounts /\ AuthorisedAmounts' = AuthorisedAmounts
  BY <1>1 DEF Amounts, AuthorisedAmounts
<1>3. ReservedKeys' = ReservedKeys
  BY DEF ReservedKeys
<1>4. \A j \in Keys, d \in Days :
        OnDay(j, d)' = OnDay(j, d) /\ InMonth(j, d)' = InMonth(j, d)
  BY DEF OnDay, InMonth, SamePurpose, Keys
<1> QED  BY <1>2, <1>3, <1>4 DEF CapInv, AuthorisedWithinCaps, Total, Units

\* Nothing is reserved.
LEMMA InitCapInv == SpendInit => CapInv
<1> SUFFICES ASSUME SpendInit PROVE CapInv
  OBVIOUS
<1>1. \A k \in Keys : res[k].status = "absent"
  BY DEF SpendInit, NoReservation
<1>2. ReservedKeys = {} /\ \A k \in Keys, d \in Days : OnDay(k, d) = {} /\ InMonth(k, d) = {}
  BY <1>1 DEF ReservedKeys, OnDay, InMonth, SamePurpose, Keys
<1>3. \A f : Units({}, f) = {}
  BY DEF Units
<1>4. IsFiniteSet({}) /\ Cardinality({}) = 0
  BY FS_EmptySet
<1>5. IsFiniteSet(Units(ReservedKeys, Amounts))
  BY <1>2, <1>3, <1>4
<1>6. \A f : Total({}, f) = 0
  BY <1>3, <1>4 DEF Total
<1>7. DailyCap >= 0 /\ MonthlyCap >= 0
  BY SpendAssumption
<1>8. AuthorisedWithinCaps
  <2>1. ASSUME NEW k \in Keys, NEW d \in Days
        PROVE  /\ Total(OnDay(k, d), AuthorisedAmounts) = 0
               /\ Total(InMonth(k, d), AuthorisedAmounts) = 0
    BY <1>2, <1>6
  <2> QED  BY <1>7, <2>1 DEF AuthorisedWithinCaps
<1> QED  BY <1>5, <1>8 DEF CapInv

\* Every step keeps within the caps what is authorised.
LEMMA NextCapInv == SpendTypeOK /\ FlightInv /\ CapInv /\ [SpendNext]_spendVars => CapInv'
<1> SUFFICES ASSUME SpendTypeOK, FlightInv, CapInv, [SpendNext]_spendVars PROVE CapInv'
  OBVIOUS
<1>1. SpendTypeOK'
  BY NextSpendTypeOK
<1>2. CASE res' = res
  BY <1>1, <1>2, SameMoney
<1>3. ASSUME NEW r \in Runs, Reserve(r) PROVE CapInv'
  BY <1>1, <1>3, ReserveFits
<1>4. ASSUME NEW r \in Runs, Settle(r) \/ MarkUncertain(r) PROVE CapInv'
  <2>1. InFlight(r) /\ run[r].pc # "idle"
    BY <1>4 DEF Settle, MarkUncertain, InFlight
  <2>2. /\ run[r].key \in Keys /\ run[r].cost \in Nat /\ res[run[r].key].status = "reserved"
        /\ res[run[r].key] \in Reservation
    BY <2>1, BusyIsRun, RunFields DEF FlightInv, SingleFlight, SpendTypeOK
  <2>3. res[run[r].key].actual \in Nat
    BY <2>2, ReservationFields
  <2>4. CASE Settle(r)
    BY <1>1, <2>2, <2>4, AccountingAuthorisesNothing DEF Settle
  <2>5. CASE MarkUncertain(r)
    BY <1>1, <2>2, <2>3, <2>5, AccountingAuthorisesNothing DEF MarkUncertain
  <2> QED  BY <1>4, <2>4, <2>5
<1>5. ASSUME NEW r \in Runs, RecordRecommendation(r) PROVE CapInv'
  <2>1. run[r].pc # "idle" /\ res \in [Keys -> Reservation]
    BY <1>5 DEF RecordRecommendation, SpendTypeOK
  <2>2. run[r].key \in Keys /\ run[r].verdict \in Verdict /\ res[run[r].key] \in Reservation
    BY <2>1, BusyIsRun, RunFields
  <2>3. \A j \in Keys : /\ res'[j].status = res[j].status /\ res'[j].day = res[j].day
                        /\ res'[j].actual = res[j].actual
    BY <1>5, <2>1, <2>2, WithOutcomeType DEF RecordRecommendation
  <2> QED  BY <1>1, <2>3, SameMoney
<1>6. \/ res' = res
      \/ \E r \in Runs : Reserve(r) \/ Settle(r) \/ MarkUncertain(r) \/ RecordRecommendation(r)
  BY DEF SpendNext, Step, NextDay, Begin, LookupFindsNothing, LookupFindsReservation, ReserveRefused,
         ReserveCollides, ProviderAnswers, ProviderFails, RecordInterpretation, RecordCollides,
         Die, DieDuringCall, spendVars
<1> QED  BY <1>2, <1>3, <1>4, <1>5, <1>6

\* What was authorised for a purpose on a day or in a month never exceeds its
\* cap, however many runs reserve, settle, fail or die at once, for any number
\* of requests (reserve_provider_budget under the lock of the budget's row).
THEOREM CapsHold == SpendSpec => []AuthorisedWithinCaps
<1>1. CapInv => AuthorisedWithinCaps
  BY DEF CapInv
<1> QED
  BY <1>1, InitSpendTypeOK, NextSpendTypeOK, InitFlightInv, NextFlightInv, InitCapInv, NextCapInv, PTL DEF SpendSpec

-----------------------------------------------------------------------------
(* The scheduler.                                                             *)

-----------------------------------------------------------------------------
(* The slots of a job are in the order of their times.                     *)

\* A product by a positive number keeps the order.
LEMMA Products ==
  ASSUME NEW a \in Nat, NEW b \in Nat, NEW d \in Nat \ {0}, a < b
  PROVE  /\ a * d \in Nat /\ b * d \in Nat
         /\ b * d >= a * d + d /\ a * d >= a
<1>1. b * d = a * d + (b - a) * d
  OBVIOUS
<1>2. PICK k \in Nat : k = (b - a) - 1
  OBVIOUS
<1>3. (b - a) * d = d + k * d
  BY <1>2
<1>4. k * d >= 0 /\ a * d \in Nat /\ b * d \in Nat
  BY <1>2
<1>5. a * d >= a
  OBVIOUS
<1> QED  BY <1>1, <1>3, <1>4, <1>5

\* SlotTime is an hour.
LEMMA SlotType ==
  ASSUME ScheduleAssumption, NEW j \in Jobs, NEW i \in Nat
  PROVE  SlotTime(j, i) \in Int
  BY DEF ScheduleAssumption, SlotTime

\* A later slot is due later, also across the change of the zone's offset.
LEMMA SlotOrder ==
  ASSUME ScheduleAssumption, NEW j \in Jobs, NEW i \in Nat, NEW k \in Nat, i < k
  PROVE  SlotTime(j, i) < SlotTime(j, k)
<1>1. CASE j \in IntervalJobs
  BY <1>1, Products DEF ScheduleAssumption, SlotTime
<1>2. CASE j \notin IntervalJobs
  <2>1. /\ i * DayLength \in Nat /\ k * DayLength \in Nat
        /\ k * DayLength >= i * DayLength + DayLength
    BY Products DEF ScheduleAssumption
  <2> QED  BY <1>2, <2>1 DEF ScheduleAssumption, SlotTime
<1> QED  BY <1>1, <1>2

\* The slots run ahead of the clock: MaxTime slots are enough to reach now.
LEMMA SlotsRunAhead ==
  ASSUME ScheduleAssumption, NEW j \in Jobs, NEW i \in Nat \ {0}
  PROVE  SlotTime(j, i) >= i
<1>1. CASE j \in IntervalJobs
  BY <1>1, Products DEF ScheduleAssumption, SlotTime
<1>2. CASE j \notin IntervalJobs
  <2>1. PICK k \in Nat : k = i - 1
    OBVIOUS
  <2>2. /\ k * DayLength \in Nat /\ i * DayLength \in Nat
        /\ i * DayLength >= k * DayLength + DayLength /\ k * DayLength >= k
    BY <2>1, Products DEF ScheduleAssumption
  <2> QED  BY <1>2, <2>1, <2>2 DEF ScheduleAssumption, SlotTime
<1> QED  BY <1>1, <1>2

\* The last due slot is at or before now and the next one after it.
LEMMA DueCountExact ==
  ASSUME ScheduleAssumption, SchedulerTypeOK, NEW j \in Jobs, IsDue(j)
  PROVE  /\ DueCount(j) \in Nat \ {0}
         /\ SlotTime(j, nextRun[j] + DueCount(j) - 1) <= now
         /\ SlotTime(j, nextRun[j] + DueCount(j)) > now
<1> DEFINE n == nextRun[j]
<1>1. n \in Nat /\ now \in Nat /\ now <= MaxTime /\ MaxTime \in Nat /\ SlotTime(j, n) <= now
  BY DEF SchedulerTypeOK, IsDue, ScheduleAssumption
<1>2. CASE j \in IntervalJobs
  <2>1. Interval \in Nat \ {0} /\ n * Interval \in Nat /\ n * Interval <= now
    BY <1>1, <1>2 DEF ScheduleAssumption, SlotTime
  <2>2. PICK late \in Nat : late = now - n * Interval
    BY <1>1, <2>1
  <2>3. PICK q \in Nat : /\ q = late \div Interval
                         /\ q * Interval <= late /\ late < q * Interval + Interval
    BY <2>1, <2>2
  <2>4. DueCount(j) = q + 1
    BY <1>2, <2>2, <2>3 DEF DueCount, SlotTime
  <2>5. (n + q) * Interval = n * Interval + q * Interval
    BY <1>1, <2>1
  <2>6. (n + q + 1) * Interval = n * Interval + q * Interval + Interval
    BY <1>1, <2>1
  <2>7. SlotTime(j, n + q) <= now
    BY <1>1, <1>2, <2>1, <2>2, <2>3, <2>5 DEF SlotTime
  <2>8. SlotTime(j, n + q + 1) > now
    BY <1>1, <1>2, <2>1, <2>2, <2>3, <2>6 DEF SlotTime
  <2>9. n + (q + 1) - 1 = n + q /\ n + (q + 1) = n + q + 1
    BY <1>1
  <2> QED  BY <1>1, <2>4, <2>7, <2>8, <2>9
<1>3. CASE j \notin IntervalJobs
  <2> DEFINE due == {i \in n .. n + MaxTime : SlotTime(j, i) <= now}
  <2>1. PICK c : c = Cardinality(due)
    OBVIOUS
  <2>2. IsFiniteSet(due) /\ c \in Nat /\ DueCount(j) = c
    <3>1. IsFiniteSet(n .. n + MaxTime)
      BY <1>1, FS_Interval
    <3>2. due \in SUBSET (n .. n + MaxTime)
      OBVIOUS
    <3>3. IsFiniteSet(due)
      BY <3>1, <3>2, FS_Subset
    <3>4. DueCount(j) = c
      BY <1>3, <2>1 DEF DueCount
    <3> QED  BY <2>1, <3>3, <3>4, FS_CardinalityType
  \* The due slots have no gap, so as many lie before one of them as fit.
  <2>3. ASSUME NEW i \in due PROVE i < n + c
    <3>1. i \in Nat /\ n <= i /\ i <= n + MaxTime /\ SlotTime(j, i) <= now
      BY <1>1
    <3>2. \A s \in n .. i : s \in Nat /\ SlotTime(j, s) \in Int /\ SlotTime(j, s) <= now
      <4>1. TAKE s \in n .. i
      <4>2. s \in Nat /\ SlotTime(j, s) \in Int /\ SlotTime(j, i) \in Int
        BY <1>1, <3>1, SlotType
      <4> QED  BY <1>1, <3>1, <4>2, SlotOrder
    <3>3. n .. i \in SUBSET due
      BY <1>1, <3>1, <3>2
    <3>4. Cardinality(n .. i) = i - n + 1
      BY <1>1, <3>1, FS_Interval
    <3>5. Cardinality(n .. i) <= c
      <4> HIDE DEF due
      <4> QED  BY <2>1, <2>2, <3>3, FS_Subset
    <3> QED  BY <1>1, <2>2, <3>1, <3>4, <3>5
  <2>4. n \in due
    BY <1>1
  <2>5. c > 0
    BY <1>1, <2>2, <2>3, <2>4
  <2>6. due = n .. n + c - 1
    <3>1. due \in SUBSET (n .. n + c - 1)
      BY <1>1, <2>2, <2>3
    <3>2. PICK m \in Nat : m = n + c - 1
      BY <1>1, <2>2, <2>5
    <3>3. IsFiniteSet(n .. m) /\ Cardinality(n .. m) = c
      <4>1. n \in Int /\ m \in Int /\ ~(n > m) /\ m - n + 1 = c
        BY <1>1, <2>2, <2>5, <3>2
      <4>2. /\ IsFiniteSet(n .. m)
            /\ Cardinality(n .. m) = IF n > m THEN 0 ELSE m - n + 1
        BY <4>1, FS_Interval
      <4> QED  BY <4>1, <4>2
    <3>4. due \in SUBSET (n .. m) /\ Cardinality(due) = c
      BY <2>1, <3>1, <3>2
    <3>5. due = n .. m
      BY <3>3, <3>4, FS_Subset
    <3> QED  BY <3>2, <3>5
  <2>7. n + c - 1 \in due
    BY <1>1, <2>2, <2>5, <2>6
  <2>8. SlotTime(j, n + c) > now
    <3>1. n + c \in Nat \ {0} /\ n + c \notin n .. n + c - 1
      BY <1>1, <2>2, <2>5
    <3>2. n + c \notin due /\ SlotTime(j, n + c) \in Int
      BY <2>6, <3>1, SlotType
    <3>3. CASE n + c <= n + MaxTime
      BY <1>1, <2>2, <3>1, <3>2, <3>3
    <3>4. CASE n + c > n + MaxTime
      BY <1>1, <2>2, <3>1, <3>2, <3>4, SlotsRunAhead
    <3> QED  BY <1>1, <2>2, <3>3, <3>4
  <2> QED  BY <2>2, <2>5, <2>7, <2>8
<1> QED  BY <1>2, <1>3

-----------------------------------------------------------------------------
(* One pass, seen from one due job: whatever its policy, the slots b ..    *)
(* last get the occurrences they do not have yet, each with b - n skipped. *)

Batch(j, n, b, last) ==
  /\ n = nextRun[j] /\ n <= b /\ n <= last /\ b <= last + 1
  /\ nextRun'[j] = last + 1
  /\ SlotTime(j, last) <= now /\ now < SlotTime(j, last + 1)
  /\ last < b + MaxCatchup
  /\ Policy[j] = "all" => b = n \/ b + MaxCatchup = last + 1
  /\ Policy[j] # "skip" => b <= last
  /\ Policy[j] = "latest" => b = last
  /\ occs'[j] = occs[j] \cup
       {[slot |-> i, skipped |-> b - n] : i \in {s \in b .. last : ~HasOccurrence(j, s)}}

\* The slots that the policy selects are the last ones due.
LEMMA SelectedIsATail ==
  ASSUME ScheduleAssumption, SchedulerTypeOK, NEW j \in Jobs, IsDue(j)
  PROVE  \E b \in Nat :
           /\ nextRun[j] <= b /\ b <= nextRun[j] + DueCount(j)
           /\ nextRun[j] + DueCount(j) <= b + MaxCatchup
           /\ Selected(j) = b .. nextRun[j] + DueCount(j) - 1
           /\ DueCount(j) - Cardinality(Selected(j)) = b - nextRun[j]
           /\ Policy[j] = "all" =>
                b = nextRun[j] \/ b + MaxCatchup = nextRun[j] + DueCount(j)
           /\ Policy[j] # "skip" => b < nextRun[j] + DueCount(j)
           /\ Policy[j] = "latest" => b + 1 = nextRun[j] + DueCount(j)
<1>1. PICK n \in Nat : n = nextRun[j]
  BY DEF SchedulerTypeOK
<1>2. PICK c \in Nat \ {0} : c = DueCount(j)
  BY DueCountExact
<1>3. MaxCatchup \in Nat \ {0} /\ Policy[j] \in {"all", "latest", "skip"}
  BY DEF ScheduleAssumption
\* The number of slots in such a tail.
<1>4. ASSUME NEW b \in Nat, n <= b, b <= n + c, Selected(j) = b .. n + c - 1
      PROVE  c - Cardinality(Selected(j)) = b - n
  <2>1. PICK m \in Int : m = n + c - 1
    OBVIOUS
  <2>2. Cardinality(b .. m) = IF b > m THEN 0 ELSE m - b + 1
    BY FS_Interval
  <2>3. Selected(j) = b .. m
    BY <1>4, <2>1
  <2>4. (IF b > m THEN 0 ELSE m - b + 1) = c - (b - n)
    BY <1>4, <2>1
  <2>5. PICK q \in Int : q = c - (b - n)
    OBVIOUS
  <2>6. Cardinality(Selected(j)) = q
    BY <2>2, <2>3, <2>4, <2>5
  <2>7. c - q = b - n
    BY <2>5
  <2> QED  BY <2>6, <2>7
<1>5. CASE Policy[j] = "all"
  <2>1. PICK b \in Nat : \/ c > MaxCatchup /\ b = n + c - MaxCatchup
                         \/ c <= MaxCatchup /\ b = n
    <3>1. CASE c > MaxCatchup
      <4>1. n + c - MaxCatchup \in Nat
        BY <1>3, <3>1
      <4> QED  BY <3>1, <4>1
    <3>2. CASE c <= MaxCatchup
      BY <3>2
    <3> QED  BY <1>3, <3>1, <3>2
  <2>2. n + Greater(0, c - MaxCatchup) = b
    BY <1>3, <2>1 DEF Greater
  <2>3. Selected(j) = b .. n + c - 1
    BY <1>1, <1>2, <1>5, <2>2 DEF Selected
  <2>4. n <= b /\ b < n + c /\ n + c <= b + MaxCatchup /\ (b = n \/ b + MaxCatchup = n + c)
    BY <1>3, <2>1
  <2>5. c - Cardinality(Selected(j)) = b - n
    BY <1>4, <2>3, <2>4
  <2> QED  BY <1>1, <1>2, <1>5, <2>3, <2>4, <2>5
<1>6. CASE Policy[j] = "latest"
  <2>1. PICK b \in Nat : b = n + c - 1
    OBVIOUS
  <2>2. Selected(j) = {b}
    BY <1>1, <1>2, <1>6, <2>1 DEF Selected
  <2>3. {b} = b .. n + c - 1
    BY <2>1
  <2>4. c - Cardinality(Selected(j)) = b - n
    BY <1>4, <2>1, <2>2, <2>3
  <2> QED  BY <1>1, <1>2, <1>3, <1>6, <2>1, <2>2, <2>3, <2>4
<1>7. CASE Policy[j] = "skip"
  <2>1. PICK b \in Nat : b = n + c
    OBVIOUS
  <2>2. Selected(j) = b .. n + c - 1
    BY <1>7, <2>1 DEF Selected
  <2>3. c - Cardinality(Selected(j)) = b - n
    BY <1>4, <2>1, <2>2
  <2>4. n <= b /\ b <= n + c /\ n + c <= b + MaxCatchup
    BY <1>3, <2>1
  <2> QED  BY <1>1, <1>2, <1>7, <2>2, <2>3, <2>4
<1> QED  BY <1>3, <1>5, <1>6, <1>7

\* What a pass does to a due job.
LEMMA PassIsABatch ==
  ASSUME ScheduleAssumption, SchedulerTypeOK, EnqueueDueJobs, NEW j \in Jobs, IsDue(j)
  PROVE  \E n, b, last \in Nat : Batch(j, n, b, last)
<1>1. PICK n \in Nat : n = nextRun[j]
  BY DEF SchedulerTypeOK
<1>2. PICK c \in Nat \ {0} : /\ c = DueCount(j)
                             /\ SlotTime(j, n + c - 1) <= now /\ SlotTime(j, n + c) > now
  BY <1>1, DueCountExact
<1>3. PICK b \in Nat :
        /\ n <= b /\ b <= n + c /\ n + c <= b + MaxCatchup
        /\ Selected(j) = b .. n + c - 1
        /\ c - Cardinality(Selected(j)) = b - n
        /\ Policy[j] = "all" => b = n \/ b + MaxCatchup = n + c
        /\ Policy[j] # "skip" => b < n + c
        /\ Policy[j] = "latest" => b + 1 = n + c
  BY <1>1, <1>2, SelectedIsATail
<1>4. PICK last \in Nat : last = n + c - 1
  OBVIOUS
<1>5. nextRun'[j] = last + 1
  BY <1>1, <1>2, <1>4 DEF EnqueueDueJobs
<1>6. occs'[j] = OccsAfterEnqueue(j)
  BY DEF EnqueueDueJobs
<1>7. occs'[j] = occs[j] \cup
        {[slot |-> i, skipped |-> b - n] : i \in {s \in b .. last : ~HasOccurrence(j, s)}}
  BY <1>2, <1>3, <1>4, <1>6 DEF OccsAfterEnqueue
<1>8. SlotTime(j, last + 1) > now /\ SlotTime(j, last) <= now /\ now \in Int
      /\ SlotTime(j, last + 1) \in Int
  <2>1. last + 1 = n + c /\ last + 1 \in Nat
    BY <1>4
  <2> QED  BY <1>2, <1>4, <2>1, SlotType DEF SchedulerTypeOK
<1>9. MaxCatchup \in Nat
  BY DEF ScheduleAssumption
<1>10. /\ n <= last /\ b <= last + 1 /\ last < b + MaxCatchup /\ now < SlotTime(j, last + 1)
       /\ Policy[j] = "all" => b = n \/ b + MaxCatchup = last + 1
       /\ Policy[j] # "skip" => b <= last
       /\ Policy[j] = "latest" => b = last
  BY <1>3, <1>4, <1>8, <1>9
<1> QED  BY <1>1, <1>3, <1>5, <1>7, <1>8, <1>10 DEF Batch

\* The occurrences after a pass.
LEMMA BatchOccurrences ==
  ASSUME SchedulerTypeOK, NEW j \in Jobs, NEW n \in Nat, NEW b \in Nat, NEW last \in Nat,
         Batch(j, n, b, last)
  PROVE  /\ \A o \in occs[j] : o \in occs'[j]
         /\ \A i \in b .. last : HasOccurrence(j, i)'
         /\ \A o \in occs'[j] : o \notin occs[j] =>
              /\ o.slot \in Nat /\ b <= o.slot /\ o.slot <= last /\ ~HasOccurrence(j, o.slot)
              /\ o.skipped = b - n /\ o.skipped \in Nat
              /\ o \in [slot : Nat, skipped : Nat]
<1>1. PICK k \in Nat : k = b - n
  BY DEF Batch
<1>2. occs'[j] = occs[j] \cup
        {[slot |-> i, skipped |-> k] : i \in {s \in b .. last : ~HasOccurrence(j, s)}}
  BY <1>1 DEF Batch
<1>3. ASSUME NEW i \in b .. last PROVE HasOccurrence(j, i)'
  <2>1. CASE HasOccurrence(j, i)
    BY <1>2, <2>1 DEF HasOccurrence
  <2>2. CASE ~HasOccurrence(j, i)
    <3>1. PICK o : o = [slot |-> i, skipped |-> k]
      OBVIOUS
    <3>2. o \in occs'[j] /\ o.slot = i
      BY <1>2, <2>2, <3>1
    <3> QED  BY <3>2 DEF HasOccurrence
  <2> QED  BY <2>1, <2>2
<1>4. ASSUME NEW o \in occs'[j], o \notin occs[j]
      PROVE  /\ o.slot \in Nat /\ b <= o.slot /\ o.slot <= last /\ ~HasOccurrence(j, o.slot)
             /\ o.skipped = b - n /\ o.skipped \in Nat
             /\ o \in [slot : Nat, skipped : Nat]
  <2>1. PICK i \in b .. last : ~HasOccurrence(j, i) /\ o = [slot |-> i, skipped |-> k]
    BY <1>2, <1>4
  <2>2. i \in Nat /\ b <= i /\ i <= last
    OBVIOUS
  <2> QED  BY <1>1, <2>1, <2>2
<1> QED  BY <1>2, <1>3, <1>4

-----------------------------------------------------------------------------
(* Types.                                                                  *)

\* A step other than a pass creates nothing and moves no schedule forward.
Quiet ==
  /\ occs' = occs
  /\ \A j \in Jobs : nextRun'[j] <= nextRun[j]
  /\ now <= now'

\* Every step is a pass or moves no schedule forward.
LEMMA PassOrQuiet ==
  ASSUME ScheduleAssumption, SchedulerTypeOK, [SchedulerNext]_schedulerVars
  PROVE  EnqueueDueJobs \/ Quiet
<1>1. ASSUME NEW j \in Jobs, NEW i \in 0 .. MaxTime, Rewind(j, i) PROVE Quiet
  BY <1>1 DEF Rewind, Quiet, SchedulerTypeOK, ScheduleAssumption
<1>2. CASE \/ \E j \in Jobs : \E value \in BOOLEAN : SetEnabled(j, value)
           \/ SchedulerTick \/ UNCHANGED schedulerVars
  BY <1>2 DEF SetEnabled, SchedulerTick, schedulerVars, Quiet, SchedulerTypeOK
<1> QED  BY <1>1, <1>2 DEF SchedulerNext

\* A pass leaves the jobs alone that are not due.
LEMMA NotDueIsLeftAlone ==
  ASSUME EnqueueDueJobs, NEW j \in Jobs, ~IsDue(j)
  PROVE  nextRun'[j] = nextRun[j] /\ occs'[j] = occs[j]
  BY DEF EnqueueDueJobs

\* The initial state is well typed.
LEMMA InitSchedulerTypeOK == ASSUME ScheduleAssumption PROVE SchedulerInit => SchedulerTypeOK
  BY DEF ScheduleAssumption, SchedulerInit, SchedulerTypeOK

\* Every step keeps the types.
LEMMA NextSchedulerTypeOK ==
  ASSUME ScheduleAssumption
  PROVE  SchedulerTypeOK /\ [SchedulerNext]_schedulerVars => SchedulerTypeOK'
<1> SUFFICES ASSUME SchedulerTypeOK, [SchedulerNext]_schedulerVars
             PROVE  SchedulerTypeOK'
  OBVIOUS
<1>1. CASE EnqueueDueJobs
  <2>1. now' \in 0 .. MaxTime /\ enabled' \in [Jobs -> BOOLEAN] /\ rewinds' \in 0 .. MaxRewinds
    BY <1>1 DEF EnqueueDueJobs, SchedulerTypeOK
  <2>2. ASSUME NEW j \in Jobs
        PROVE  nextRun'[j] \in Nat /\ occs'[j] \in SUBSET [slot : Nat, skipped : Nat]
    <3>1. CASE IsDue(j)
      <4>1. PICK n, b, last \in Nat : Batch(j, n, b, last)
        BY <1>1, <3>1, PassIsABatch
      <4>2. nextRun'[j] = last + 1
        BY <4>1 DEF Batch
      <4>3. \A o \in occs'[j] : o \in occs[j] \/ o \in [slot : Nat, skipped : Nat]
        BY <4>1, BatchOccurrences
      <4> QED  BY <4>2, <4>3 DEF SchedulerTypeOK
    <3>2. CASE ~IsDue(j)
      BY <1>1, <3>2, NotDueIsLeftAlone DEF SchedulerTypeOK
    <3> QED  BY <3>1, <3>2
  <2>3. nextRun' = [j \in Jobs |-> nextRun'[j]] /\ occs' = [j \in Jobs |-> occs'[j]]
    BY <1>1 DEF EnqueueDueJobs
  <2> QED  BY <2>1, <2>2, <2>3 DEF SchedulerTypeOK
<1>2. ASSUME NEW j \in Jobs, NEW value \in BOOLEAN, SetEnabled(j, value)
      PROVE  SchedulerTypeOK'
  BY <1>2 DEF SetEnabled, SchedulerTypeOK
<1>3. ASSUME NEW j \in Jobs, NEW i \in 0 .. MaxTime, Rewind(j, i) PROVE SchedulerTypeOK'
  BY <1>3 DEF Rewind, SchedulerTypeOK, ScheduleAssumption
<1>4. CASE SchedulerTick
  BY <1>4 DEF SchedulerTick, SchedulerTypeOK, ScheduleAssumption
<1>5. CASE UNCHANGED schedulerVars
  BY <1>5 DEF schedulerVars, SchedulerTypeOK
<1> QED  BY <1>1, <1>2, <1>3, <1>4, <1>5 DEF SchedulerNext

\* The scheduler's variables keep their types: the clock, the schedules and
\* the occurrences that enqueue_due_jobs writes.
THEOREM SchedulerTypeCorrect ==
  ASSUME ScheduleAssumption
  PROVE  SchedulerSpec => []SchedulerTypeOK
  BY InitSchedulerTypeOK, NextSchedulerTypeOK, PTL DEF SchedulerSpec

-----------------------------------------------------------------------------
(* Occurrences are unique and never early.                                 *)

OccurrenceInv == OneOccurrencePerSlot /\ NeverEarly

\* A pass adds occurrences of slots that have none, none of them early.
LEMMA BatchKeepsOccurrences ==
  ASSUME ScheduleAssumption, SchedulerTypeOK, OccurrenceInv, NEW j \in Jobs,
         NEW n \in Nat, NEW b \in Nat, NEW last \in Nat, Batch(j, n, b, last)
  PROVE  /\ \A x, y \in occs'[j] : x.slot = y.slot => x = y
         /\ \A o \in occs'[j] : SlotTime(j, o.slot) <= now
<1>1. ASSUME NEW x \in occs'[j], NEW y \in occs'[j], x.slot = y.slot PROVE x = y
  <2>1. CASE x \in occs[j] /\ y \in occs[j]
    BY <1>1, <2>1 DEF OccurrenceInv, OneOccurrencePerSlot
  <2>2. CASE x \in occs[j] /\ y \notin occs[j]
    BY <1>1, <2>2, BatchOccurrences DEF HasOccurrence
  <2>3. CASE x \notin occs[j] /\ y \in occs[j]
    BY <1>1, <2>3, BatchOccurrences DEF HasOccurrence
  <2>4. CASE x \notin occs[j] /\ y \notin occs[j]
    <3>1. /\ x \in [slot : Nat, skipped : Nat] /\ y \in [slot : Nat, skipped : Nat]
          /\ x.skipped = y.skipped
      BY <2>4, BatchOccurrences
    <3> QED  BY <1>1, <3>1
  <2> QED  BY <2>1, <2>2, <2>3, <2>4
<1>2. ASSUME NEW o \in occs'[j] PROVE SlotTime(j, o.slot) <= now
  <2>1. CASE o \in occs[j]
    BY <2>1 DEF OccurrenceInv, NeverEarly
  <2>2. CASE o \notin occs[j]
    <3>1. PICK i \in Nat : i = o.slot /\ i <= last
      BY <2>2, BatchOccurrences
    <3>2. /\ SlotTime(j, last) <= now /\ now \in Int
          /\ SlotTime(j, last) \in Int /\ SlotTime(j, i) \in Int
      BY SlotType DEF Batch, SchedulerTypeOK
    <3>3. i < last => SlotTime(j, i) < SlotTime(j, last)
      BY SlotOrder
    <3> QED  BY <3>1, <3>2, <3>3
  <2> QED  BY <2>1, <2>2
<1> QED  BY <1>1, <1>2

\* No occurrence exists at first.
LEMMA InitOccurrenceInv == SchedulerInit => OccurrenceInv
  BY DEF SchedulerInit, OccurrenceInv, OneOccurrencePerSlot, NeverEarly

\* Every step keeps occurrences unique and not early.
LEMMA NextOccurrenceInv ==
  ASSUME ScheduleAssumption
  PROVE  SchedulerTypeOK /\ OccurrenceInv /\ [SchedulerNext]_schedulerVars => OccurrenceInv'
<1> SUFFICES ASSUME SchedulerTypeOK, OccurrenceInv, [SchedulerNext]_schedulerVars
             PROVE  OccurrenceInv'
  OBVIOUS
<1>1. CASE EnqueueDueJobs
  <2>1. now' = now
    BY <1>1 DEF EnqueueDueJobs
  <2>2. ASSUME NEW j \in Jobs
        PROVE  /\ \A x, y \in occs'[j] : x.slot = y.slot => x = y
               /\ \A o \in occs'[j] : SlotTime(j, o.slot) <= now
    <3>1. CASE IsDue(j)
      BY <1>1, <3>1, PassIsABatch, BatchKeepsOccurrences
    <3>2. CASE ~IsDue(j)
      BY <1>1, <3>2, NotDueIsLeftAlone DEF OccurrenceInv, OneOccurrencePerSlot, NeverEarly
    <3> QED  BY <3>1, <3>2
  <2> QED  BY <2>1, <2>2 DEF OccurrenceInv, OneOccurrencePerSlot, NeverEarly
<1>2. CASE Quiet
  <2>1. ASSUME NEW j \in Jobs, NEW o \in occs[j] PROVE SlotTime(j, o.slot) <= now'
    <3>1. SlotTime(j, o.slot) <= now /\ o.slot \in Nat /\ now \in Int /\ now' \in Int
      BY <1>2, NextSchedulerTypeOK DEF OccurrenceInv, NeverEarly, SchedulerTypeOK
    <3>2. SlotTime(j, o.slot) \in Int
      BY <3>1, SlotType
    <3> QED  BY <1>2, <3>1, <3>2 DEF Quiet
  <2> QED  BY <1>2, <2>1 DEF Quiet, OccurrenceInv, OneOccurrencePerSlot, NeverEarly
<1> QED  BY <1>1, <1>2, PassOrQuiet

\* Occurrences are unique and never early in every reachable state.
LEMMA OccurrenceInvHolds ==
  ASSUME ScheduleAssumption PROVE SchedulerSpec => [](SchedulerTypeOK /\ OccurrenceInv)
  BY InitSchedulerTypeOK, NextSchedulerTypeOK, InitOccurrenceInv, NextOccurrenceInv, PTL DEF SchedulerSpec

\* get_or_create on the idempotency key: a slot that is met again, after the
\* owner set the schedule back, gets no second occurrence.
THEOREM OneEach ==
  ASSUME ScheduleAssumption
  PROVE  SchedulerSpec => []OneOccurrencePerSlot
<1>1. OccurrenceInv => OneOccurrencePerSlot
  BY DEF OccurrenceInv
<1> QED  BY <1>1, OccurrenceInvHolds, PTL

\* No occurrence is created before its slot is due, whether the slots were
\* counted by division or by the loop over local dates.
THEOREM NoneEarly == ASSUME ScheduleAssumption PROVE SchedulerSpec => []NeverEarly
<1>1. OccurrenceInv => NeverEarly
  BY DEF OccurrenceInv
<1> QED  BY <1>1, OccurrenceInvHolds, PTL

-----------------------------------------------------------------------------
(* One pass catches up.                                                    *)

\* A pass creates at most MaxCatchup occurrences for a job.
LEMMA BatchIsBounded ==
  ASSUME ScheduleAssumption, SchedulerTypeOK, NEW j \in Jobs,
         NEW n \in Nat, NEW b \in Nat, NEW last \in Nat, Batch(j, n, b, last)
  PROVE  Cardinality(occs'[j] \ occs[j]) <= MaxCatchup
<1>1. PICK k \in Nat : k = b - n
  BY DEF Batch
<1>2. PICK free : free = {s \in b .. last : ~HasOccurrence(j, s)}
  OBVIOUS
<1>3. PICK new : new = occs'[j] \ occs[j]
  OBVIOUS
<1>4. \A x \in new : \E i \in free : x = [slot |-> i, skipped |-> k]
  BY <1>1, <1>2, <1>3 DEF Batch
<1>5. \A i \in free : [slot |-> i, skipped |-> k] \in new
  <2>1. TAKE i \in free
  <2>2. PICK o : o = [slot |-> i, skipped |-> k]
    OBVIOUS
  <2>3. o \in occs'[j] /\ o.slot = i
    BY <1>1, <1>2, <2>2 DEF Batch
  <2>4. o \notin occs[j]
    BY <1>2, <2>3 DEF HasOccurrence
  <2> QED  BY <1>3, <2>2, <2>3, <2>4
<1>6. [i \in free |-> [slot |-> i, skipped |-> k]] \in Surjection(free, new)
  <2> DEFINE f == [i \in free |-> [slot |-> i, skipped |-> k]]
  <2>1. f \in [free -> new]
    BY <1>5
  <2>2. \A x \in new : \E i \in free : f[i] = x
    BY <1>4
  <2> HIDE DEF f
  <2>3. f \in Surjection(free, new)
    BY <2>1, <2>2 DEF Surjection
  <2> QED  BY <2>3 DEF f
<1>7. IsFiniteSet(free) /\ Cardinality(free) <= Cardinality(b .. last)
  <2>1. IsFiniteSet(b .. last)
    BY FS_Interval
  <2> QED  BY <1>2, <2>1, FS_Subset
<1>8. Cardinality(new) <= Cardinality(free)
  BY <1>6, <1>7, FS_Surjection
<1>9. IsFiniteSet(new)
  BY <1>6, <1>7, FS_Surjection
<1>10. Cardinality(b .. last) = (IF b > last THEN 0 ELSE last - b + 1)
  BY FS_Interval
<1>11. Cardinality(b .. last) \in Nat /\ Cardinality(b .. last) <= MaxCatchup
  BY <1>10 DEF Batch, ScheduleAssumption
<1>12. Cardinality(new) \in Nat /\ Cardinality(free) \in Nat /\ MaxCatchup \in Nat
  BY <1>7, <1>9, FS_CardinalityType DEF ScheduleAssumption
<1> QED  BY <1>3, <1>7, <1>8, <1>11, <1>12

\* One pass brings a job exactly up to now, creates at most
\* MAX_CATCHUP_OCCURRENCES rows for it and deletes none; only a pass moves a
\* schedule forward, and only of an enabled job.
THEOREM PassesCatchUp ==
  ASSUME ScheduleAssumption
  PROVE  SchedulerSpec => OnePassCatchesUp
<1> DEFINE CaughtUp(j) ==
      /\ Cardinality(occs'[j] \ occs[j]) <= MaxCatchup
      /\ occs[j] \subseteq occs'[j]
      /\ nextRun'[j] > nextRun[j] =>
           /\ enabled[j]
           /\ SlotTime(j, nextRun'[j]) > now
           /\ SlotTime(j, nextRun'[j] - 1) <= now
<1>1. SchedulerTypeOK /\ [SchedulerNext]_schedulerVars => [\A j \in Jobs : CaughtUp(j)]_schedulerVars
  <2> SUFFICES ASSUME SchedulerTypeOK, [SchedulerNext]_schedulerVars, NEW j \in Jobs
               PROVE  CaughtUp(j)
    OBVIOUS
  <2>1. nextRun[j] \in Nat /\ Cardinality({}) = 0 /\ 0 <= MaxCatchup
    BY FS_EmptySet DEF SchedulerTypeOK, ScheduleAssumption
  <2>2. ASSUME occs'[j] = occs[j], ~(nextRun'[j] > nextRun[j]) PROVE CaughtUp(j)
    <3>1. occs'[j] \ occs[j] = {}
      BY <2>2
    <3>2. Cardinality(occs'[j] \ occs[j]) <= MaxCatchup
      BY <2>1, <3>1
    <3> QED  BY <2>2, <3>2
  <2>3. CASE EnqueueDueJobs /\ IsDue(j)
    <3>1. PICK n, b, last \in Nat : Batch(j, n, b, last)
      BY <2>3, PassIsABatch
    <3>2. Cardinality(occs'[j] \ occs[j]) <= MaxCatchup /\ occs[j] \subseteq occs'[j]
      BY <3>1, BatchIsBounded, BatchOccurrences
    <3>3. /\ enabled[j] /\ now \in Int /\ nextRun'[j] = last + 1
          /\ SlotTime(j, last) <= now /\ now < SlotTime(j, last + 1)
      BY <2>3, <3>1 DEF Batch, IsDue, SchedulerTypeOK
    <3>4. last + 1 \in Nat /\ (last + 1) - 1 = last
      OBVIOUS
    <3>5. SlotTime(j, last + 1) > now
      BY <3>3, <3>4, SlotType
    <3> QED  BY <3>2, <3>3, <3>4, <3>5
  <2>4. CASE EnqueueDueJobs /\ ~IsDue(j)
    BY <2>1, <2>2, <2>4, NotDueIsLeftAlone
  <2>5. CASE Quiet
    <3>1. nextRun'[j] \in Nat
      BY NextSchedulerTypeOK DEF SchedulerTypeOK
    <3> QED  BY <2>1, <2>2, <2>5, <3>1 DEF Quiet
  <2> QED  BY <2>3, <2>4, <2>5, PassOrQuiet
<1> QED  BY <1>1, SchedulerTypeCorrect, PTL DEF SchedulerSpec, OnePassCatchesUp

-----------------------------------------------------------------------------
(* No slot goes unexplained.                                               *)

\* Under the policy all, an occurrence that counts skipped slots belongs to a
\* whole backlog: MaxCatchup slots that were due together, of which those up
\* to it have their occurrences.
BacklogsAreWhole ==
  \A j \in Jobs : Policy[j] = "all" => \A o \in occs[j] : o.skipped > 0 =>
    \E b \in 0 .. o.slot : /\ \A s \in b .. o.slot : HasOccurrence(j, s)
                           /\ SlotTime(j, b + MaxCatchup - 1) <= now

\* The schedule was at slot i once: it has passed it, or an occurrence shows it.
WasReached(j, i) == i < nextRun[j] \/ \E o \in occs[j] : i <= o.slot

\* Also the slots are explained that the owner set the schedule back over.
ReachedAreCovered ==
  \A j \in Jobs : Policy[j] # "skip" => \A i \in Nat : WasReached(j, i) => IsCovered(j, i)

CoverInv == BacklogsAreWhole /\ ReachedAreCovered

\* A pass over a backlog that is cut fills the slots it selects.
LEMMA BatchKeepsBacklogs ==
  ASSUME ScheduleAssumption, SchedulerTypeOK, BacklogsAreWhole, NEW j \in Jobs, Policy[j] = "all",
         NEW n \in Nat, NEW b \in Nat, NEW last \in Nat, Batch(j, n, b, last),
         NEW o \in occs'[j], o.skipped > 0
  PROVE  \E c \in 0 .. o.slot : /\ \A s \in c .. o.slot : HasOccurrence(j, s)'
                                /\ SlotTime(j, c + MaxCatchup - 1) <= now
<1>1. CASE o \in occs[j]
  <2>1. PICK c \in 0 .. o.slot : /\ \A s \in c .. o.slot : HasOccurrence(j, s)
                                 /\ SlotTime(j, c + MaxCatchup - 1) <= now
    BY <1>1 DEF BacklogsAreWhole
  <2>2. \A s \in c .. o.slot : HasOccurrence(j, s)'
    BY <2>1, BatchOccurrences DEF HasOccurrence
  <2> QED  BY <2>1, <2>2
<1>2. CASE o \notin occs[j]
  <2>1. /\ o.slot \in Nat /\ b <= o.slot /\ o.slot <= last /\ o.skipped = b - n
        /\ \A i \in b .. last : HasOccurrence(j, i)'
    BY <1>2, BatchOccurrences
  <2>2. b + MaxCatchup = last + 1 /\ SlotTime(j, last) <= now
    BY <2>1 DEF Batch
  <2>3. b + MaxCatchup - 1 = last /\ b \in 0 .. o.slot
    BY <2>1, <2>2 DEF ScheduleAssumption
  <2>4. \A s \in b .. o.slot : HasOccurrence(j, s)'
    BY <2>1
  <2> QED  BY <2>2, <2>3, <2>4
<1> QED  BY <1>1, <1>2

\* A pass explains every slot up to the last one due.
LEMMA BatchCovers ==
  ASSUME ScheduleAssumption, SchedulerTypeOK, OccurrenceInv, CoverInv,
         NEW j \in Jobs, Policy[j] # "skip",
         NEW n \in Nat, NEW b \in Nat, NEW last \in Nat, Batch(j, n, b, last),
         NEW i \in Nat, i <= last
  PROVE  IsCovered(j, i)'
<1>0. /\ \A o \in occs[j] : o.slot \in Nat /\ o.skipped \in Nat
      /\ \A o \in occs'[j] : o.slot \in Nat /\ o.skipped \in Nat
      /\ n <= b /\ b <= last /\ n = nextRun[j]
      /\ \A s \in b .. last : HasOccurrence(j, s)'
      /\ MaxCatchup \in Nat \ {0}
  <2>1. \A o \in occs[j] : o.slot \in Nat /\ o.skipped \in Nat
    BY DEF SchedulerTypeOK
  <2>2. \A o \in occs'[j] : o.slot \in Nat /\ o.skipped \in Nat
    BY <2>1, BatchOccurrences
  <2>3. n <= b /\ b <= last /\ n = nextRun[j] /\ MaxCatchup \in Nat \ {0}
    BY DEF Batch, ScheduleAssumption
  <2> QED  BY <2>1, <2>2, <2>3, BatchOccurrences
\* Nothing is later than the last slot due.
<1>1. \A o \in occs[j] : o.slot <= last
  <2>1. TAKE o \in occs[j]
  <2>2. /\ SlotTime(j, o.slot) <= now /\ now < SlotTime(j, last + 1) /\ o.slot \in Nat
        /\ now \in Int
    BY <1>0 DEF OccurrenceInv, NeverEarly, Batch, SchedulerTypeOK
  <2>3. SlotTime(j, o.slot) \in Int /\ SlotTime(j, last + 1) \in Int
    BY <2>2, SlotType
  <2>4. last + 1 = o.slot \/ last + 1 < o.slot => SlotTime(j, last + 1) <= SlotTime(j, o.slot)
    BY <2>2, <2>3, SlotOrder
  <2> QED  BY <2>2, <2>3, <2>4
<1>2. CASE i >= b
  BY <1>0, <1>2 DEF IsCovered
<1>3. CASE i < b /\ HasOccurrence(j, i)
  BY <1>3, BatchOccurrences DEF IsCovered, HasOccurrence
\* Slot b is the first one selected.
<1>4. PICK first \in occs'[j] : first.slot = b
  BY <1>0 DEF HasOccurrence
<1>5. CASE i < b /\ ~HasOccurrence(j, i) /\ ~WasReached(j, i)
  <2>1. n <= i /\ \A o \in occs[j] : o.slot < i
    BY <1>0, <1>5 DEF WasReached
  <2>2. first \notin occs[j]
    BY <1>0, <1>4, <1>5, <2>1
  <2>3. first.skipped = b - n
    BY <2>2, BatchOccurrences
  <2>4. \A p \in occs'[j] : p.slot > i => p.slot >= b
    BY <1>0, <2>1, BatchOccurrences
  <2>5. i < first.slot /\ first.slot - first.skipped <= i
    BY <1>0, <1>4, <1>5, <2>1, <2>3
  <2> QED  BY <1>4, <2>4, <2>5 DEF IsCovered
<1>6. CASE i < b /\ ~HasOccurrence(j, i) /\ WasReached(j, i)
  <2>1. PICK o \in occs[j] :
          /\ i < o.slot /\ o.slot - o.skipped <= i
          /\ \A p \in occs[j] : p.slot > i => p.slot >= o.slot
    BY <1>6 DEF CoverInv, ReachedAreCovered, IsCovered
  <2>2. o \in occs'[j] /\ o.slot \in Nat /\ o.skipped \in Nat /\ o.slot <= last
    BY <1>0, <1>1, <2>1, BatchOccurrences
  <2>3. CASE o.slot <= b
    <3>1. \A p \in occs'[j] : p.slot > i => p.slot >= o.slot
      BY <1>0, <2>1, <2>2, <2>3, BatchOccurrences
    <3> QED  BY <2>1, <2>2, <3>1 DEF IsCovered
  \* The old backlog began no later than the one that this pass cuts.
  <2>4. CASE b < o.slot
    <3>1. Policy[j] = "all"
      BY <1>0, <2>2, <2>4 DEF Batch, ScheduleAssumption
    <3>2. CASE n <= i
      <4>1. first \notin occs[j]
        BY <1>0, <1>4, <1>6, <2>1, <2>4
      <4>2. first.skipped = b - n
        BY <4>1, BatchOccurrences
      <4>3. i < first.slot /\ first.slot - first.skipped <= i
        BY <1>0, <1>4, <1>6, <3>2, <4>2
      <4>4. \A p \in occs'[j] : p.slot > i => p.slot >= b
        BY <1>0, <2>1, <2>4, BatchOccurrences
      <4> QED  BY <1>4, <4>3, <4>4 DEF IsCovered
    <3>3. CASE i < n
      <4>1. o.skipped > 0
        BY <2>1, <2>2
      <4>2. PICK c \in 0 .. o.slot : /\ \A s \in c .. o.slot : HasOccurrence(j, s)
                                     /\ SlotTime(j, c + MaxCatchup - 1) <= now
        BY <2>1, <3>1, <4>1 DEF CoverInv, BacklogsAreWhole
      <4>3. c = o.slot
        <5>1. CASE c <= i
          BY <1>6, <2>1, <2>2, <4>2, <5>1
        <5>2. CASE i < c /\ c < o.slot
          BY <2>1, <2>2, <4>2, <5>2 DEF HasOccurrence
        <5> QED  BY <2>2, <5>1, <5>2
      <4>4. PICK e \in Nat : e = c + MaxCatchup - 1
        BY <1>0, <4>3, <2>2
      <4>5. e <= last
        <5>1. /\ SlotTime(j, e) <= now /\ now < SlotTime(j, last + 1) /\ now \in Int
              /\ SlotTime(j, e) \in Int /\ SlotTime(j, last + 1) \in Int
          BY <4>2, <4>4, SlotType DEF Batch, SchedulerTypeOK
        <5>2. last + 1 = e \/ last + 1 < e => SlotTime(j, last + 1) <= SlotTime(j, e)
          BY <5>1, SlotOrder
        <5> QED  BY <5>1, <5>2
      <4>6. last < b + MaxCatchup
        BY DEF Batch
      <4>7. e = o.slot + MaxCatchup - 1
        BY <4>3, <4>4
      <4> QED  BY <1>0, <2>2, <2>4, <4>5, <4>6, <4>7
    <3> QED  BY <1>0, <3>2, <3>3
  <2> QED  BY <1>0, <2>2, <2>3, <2>4
<1> QED  BY <1>0, <1>2, <1>3, <1>5, <1>6

\* No slot was reached at first.
LEMMA InitCoverInv == SchedulerInit => CoverInv
  BY DEF SchedulerInit, CoverInv, BacklogsAreWhole, ReachedAreCovered, WasReached

\* Every step leaves every slot explained.
LEMMA NextCoverInv ==
  ASSUME ScheduleAssumption
  PROVE  SchedulerTypeOK /\ OccurrenceInv /\ CoverInv /\ [SchedulerNext]_schedulerVars => CoverInv'
<1> SUFFICES ASSUME SchedulerTypeOK, OccurrenceInv, CoverInv, [SchedulerNext]_schedulerVars
             PROVE  CoverInv'
  OBVIOUS
<1>1. CASE EnqueueDueJobs
  <2>1. now' = now
    BY <1>1 DEF EnqueueDueJobs
  <2>2. ASSUME NEW j \in Jobs, Policy[j] = "all", NEW o \in occs'[j], o.skipped > 0
        PROVE  \E b \in 0 .. o.slot : /\ \A s \in b .. o.slot : HasOccurrence(j, s)'
                                      /\ SlotTime(j, b + MaxCatchup - 1) <= now
    <3>1. CASE IsDue(j)
      BY <1>1, <2>2, <3>1, PassIsABatch, BatchKeepsBacklogs DEF CoverInv
    <3>2. CASE ~IsDue(j)
      BY <1>1, <2>2, <3>2, NotDueIsLeftAlone DEF CoverInv, BacklogsAreWhole, HasOccurrence
    <3> QED  BY <3>1, <3>2
  <2>3. ASSUME NEW j \in Jobs, Policy[j] # "skip", NEW i \in Nat, WasReached(j, i)'
        PROVE  IsCovered(j, i)'
    <3>1. CASE IsDue(j)
      <4>1. PICK n, b, last \in Nat : Batch(j, n, b, last)
        BY <1>1, <3>1, PassIsABatch
      <4>2. CASE i <= last
        BY <2>3, <4>1, <4>2, BatchCovers
      <4>3. CASE i > last
        <5>1. ~(i < nextRun'[j])
          BY <4>1, <4>3 DEF Batch
        <5>2. PICK o \in occs'[j] : i <= o.slot
          BY <2>3, <5>1 DEF WasReached
        <5>3. /\ o \in occs[j] /\ o.slot \in Nat /\ SlotTime(j, o.slot) <= now
              /\ now < SlotTime(j, last + 1) /\ now \in Int
          BY <4>1, <4>3, <5>2, BatchOccurrences DEF SchedulerTypeOK, OccurrenceInv, NeverEarly, Batch
        <5>4. SlotTime(j, o.slot) \in Int /\ SlotTime(j, last + 1) \in Int
          BY <5>3, SlotType
        <5>5. last + 1 = o.slot \/ last + 1 < o.slot
          BY <4>3, <5>2, <5>3
        <5>6. SlotTime(j, last + 1) <= SlotTime(j, o.slot)
          BY <5>3, <5>4, <5>5, SlotOrder
        <5> QED  BY <5>3, <5>4, <5>6
      <4> QED  BY <4>2, <4>3
    <3>2. CASE ~IsDue(j)
      BY <1>1, <2>3, <3>2, NotDueIsLeftAlone
         DEF CoverInv, ReachedAreCovered, WasReached, IsCovered, HasOccurrence
    <3> QED  BY <3>1, <3>2
  <2> QED  BY <2>1, <2>2, <2>3 DEF CoverInv, BacklogsAreWhole, ReachedAreCovered
<1>2. CASE Quiet
  <2>0. occs' = occs /\ now <= now' /\ now \in Int /\ now' \in Int
    BY <1>2, NextSchedulerTypeOK DEF Quiet, SchedulerTypeOK
  <2>1. ASSUME NEW j \in Jobs, Policy[j] = "all", NEW o \in occs[j], o.skipped > 0
        PROVE  \E b \in 0 .. o.slot : /\ \A s \in b .. o.slot : HasOccurrence(j, s)
                                      /\ SlotTime(j, b + MaxCatchup - 1) <= now'
    <3>1. PICK b \in 0 .. o.slot : /\ \A s \in b .. o.slot : HasOccurrence(j, s)
                                   /\ SlotTime(j, b + MaxCatchup - 1) <= now
      BY <2>1 DEF CoverInv, BacklogsAreWhole
    <3>2. SlotTime(j, b + MaxCatchup - 1) \in Int
      <4>1. b + MaxCatchup - 1 \in Nat
        BY DEF ScheduleAssumption
      <4> QED  BY <4>1, SlotType
    <3> QED  BY <2>0, <3>1, <3>2
  <2>2. ASSUME NEW j \in Jobs, NEW i \in Nat, WasReached(j, i)' PROVE WasReached(j, i)
    <3>1. nextRun'[j] \in Nat /\ nextRun[j] \in Nat /\ nextRun'[j] <= nextRun[j]
      BY <1>2, NextSchedulerTypeOK DEF SchedulerTypeOK, Quiet
    <3> QED  BY <2>0, <2>2, <3>1 DEF WasReached
  <2>3. \A j \in Jobs, i \in Nat : IsCovered(j, i)' <=> IsCovered(j, i)
    BY <2>0 DEF IsCovered, HasOccurrence
  <2>4. ReachedAreCovered'
    BY <2>2, <2>3 DEF CoverInv, ReachedAreCovered
  <2>5. BacklogsAreWhole'
    BY <2>0, <2>1 DEF BacklogsAreWhole, HasOccurrence
  <2> QED  BY <2>4, <2>5 DEF CoverInv
<1> QED  BY <1>1, <1>2, PassOrQuiet

\* Every slot is explained in every reachable state.
LEMMA CoverInvHolds ==
  ASSUME ScheduleAssumption
  PROVE  SchedulerSpec => [](SchedulerTypeOK /\ OccurrenceInv /\ CoverInv)
  BY InitSchedulerTypeOK, NextSchedulerTypeOK, InitOccurrenceInv, NextOccurrenceInv, InitCoverInv, NextCoverInv,
     PTL DEF SchedulerSpec

\* After any outage, any disabled period, any change of the zone's offset and
\* any number of times the owner set the schedule back, each slot that the
\* schedule has passed has its occurrence, or the first occurrence after it
\* counts it in skipped_count.
THEOREM NothingIsLost ==
  ASSUME ScheduleAssumption
  PROVE  SchedulerSpec => []PassedSlotsAreCovered
<1>1. SchedulerTypeOK /\ CoverInv => PassedSlotsAreCovered
  <2> SUFFICES ASSUME SchedulerTypeOK, CoverInv, NEW j \in Jobs, Policy[j] # "skip",
                      NEW i \in 0 .. nextRun[j] - 1
               PROVE  IsCovered(j, i)
    BY DEF PassedSlotsAreCovered
  <2>1. i \in Nat /\ i < nextRun[j]
    BY DEF SchedulerTypeOK
  <2> QED  BY <2>1 DEF CoverInv, ReachedAreCovered, WasReached
<1> QED  BY <1>1, CoverInvHolds, PTL

-----------------------------------------------------------------------------
(* The counts of the policy latest.                                        *)

\* The property of one job.
CountsAreExact(j) ==
  /\ UNION {SlotsOf(o) : o \in occs[j]} = 0 .. nextRun[j] - 1
  /\ \A o, p \in occs[j] : o # p => SlotsOf(o) \cap SlotsOf(p) = {}

\* A pass creates one occurrence, for the last due slot, which counts those
\* between it and the slots accounted for before.
LEMMA BatchKeepsCounts ==
  ASSUME ScheduleAssumption, SchedulerTypeOK, NEW j \in Jobs, Policy[j] = "latest", CountsAreExact(j),
         NEW n \in Nat, NEW b \in Nat, NEW last \in Nat, Batch(j, n, b, last)
  PROVE  CountsAreExact(j)'
<1>1. n = nextRun[j] /\ n <= last /\ b = last /\ nextRun'[j] = last + 1
  BY DEF Batch
<1>2. \A o \in occs[j] : o.slot \in Nat /\ o.skipped \in Nat
  BY DEF SchedulerTypeOK
<1>3. \A o \in occs[j] : \A i \in SlotsOf(o) : i \in Int /\ 0 <= i /\ i < n
  <2> SUFFICES ASSUME NEW o \in occs[j], NEW i \in SlotsOf(o)
               PROVE  i \in Int /\ 0 <= i /\ i < n
    OBVIOUS
  <2>1. i \in 0 .. n - 1
    BY <1>1 DEF CountsAreExact
  <2> QED  BY <2>1
<1>4. ~HasOccurrence(j, last)
  <2> SUFFICES ASSUME NEW o \in occs[j], o.slot = last PROVE FALSE
    BY DEF HasOccurrence
  <2>1. last \in SlotsOf(o)
    BY <1>2 DEF SlotsOf
  <2> QED  BY <1>1, <1>3, <2>1
<1>5. PICK k \in Nat : k = last - n
  BY <1>1
<1>6. PICK new : new = [slot |-> last, skipped |-> k]
  OBVIOUS
<1>7. occs'[j] = occs[j] \cup {new}
  <2>1. occs'[j] = occs[j] \cup
          {[slot |-> i, skipped |-> k] : i \in {s \in b .. last : ~HasOccurrence(j, s)}}
    BY <1>1, <1>5 DEF Batch
  <2>2. {s \in b .. last : ~HasOccurrence(j, s)} = {last}
    BY <1>1, <1>4
  <2> QED  BY <1>6, <2>1, <2>2
<1>8. SlotsOf(new) = n .. last
  <2>1. new.slot = last /\ new.skipped = k /\ last - k = n
    BY <1>5, <1>6
  <2> QED  BY <2>1 DEF SlotsOf
<1>9. UNION {SlotsOf(o) : o \in occs'[j]} = 0 .. last
  <2>1. \A i : i \in UNION {SlotsOf(o) : o \in occs'[j]} <=> i \in 0 .. n - 1 \/ i \in n .. last
    BY <1>1, <1>7, <1>8 DEF CountsAreExact
  <2>2. \A i : i \in 0 .. n - 1 \/ i \in n .. last <=> i \in 0 .. last
    BY <1>1
  <2> QED  BY <2>1, <2>2
<1>10. ASSUME NEW o \in occs'[j], NEW p \in occs'[j], o # p
       PROVE  SlotsOf(o) \cap SlotsOf(p) = {}
  <2>1. \A q \in occs[j] : SlotsOf(q) \cap SlotsOf(new) = {}
    <3> SUFFICES ASSUME NEW q \in occs[j], NEW i \in SlotsOf(q), i \in n .. last
                 PROVE  FALSE
      BY <1>8
    <3> QED  BY <1>3
  <2> QED  BY <1>7, <1>10, <2>1 DEF CountsAreExact
<1>11. nextRun'[j] - 1 = last
  BY <1>1
<1> QED  BY <1>9, <1>10, <1>11 DEF CountsAreExact, SlotsOf

\* Nothing is passed and nothing is counted.
LEMMA InitCounts == SchedulerInit => LatestCountsAreExact
  BY DEF SchedulerInit, LatestCountsAreExact

\* Every step keeps the counts, until the owner sets a schedule back.
LEMMA NextCounts ==
  ASSUME ScheduleAssumption
  PROVE  SchedulerTypeOK /\ LatestCountsAreExact /\ [SchedulerNext]_schedulerVars => LatestCountsAreExact'
<1> SUFFICES ASSUME SchedulerTypeOK, LatestCountsAreExact, [SchedulerNext]_schedulerVars, rewinds' = 0,
                    NEW j \in Jobs, Policy[j] = "latest"
             PROVE  CountsAreExact(j)'
  BY DEF LatestCountsAreExact, CountsAreExact, SlotsOf
<1>1. ASSUME rewinds = 0 PROVE CountsAreExact(j)
  BY <1>1 DEF LatestCountsAreExact, CountsAreExact
<1>2. CASE EnqueueDueJobs
  <2>1. rewinds = 0
    BY <1>2 DEF EnqueueDueJobs
  <2>2. CASE IsDue(j)
    BY <1>1, <1>2, <2>1, <2>2, PassIsABatch, BatchKeepsCounts
  <2>3. CASE ~IsDue(j)
    BY <1>1, <1>2, <2>1, <2>3, NotDueIsLeftAlone DEF CountsAreExact, SlotsOf
  <2> QED  BY <2>2, <2>3
<1>3. ASSUME NEW k \in Jobs, NEW i \in 0 .. MaxTime, Rewind(k, i) PROVE FALSE
  BY <1>3 DEF Rewind, SchedulerTypeOK, ScheduleAssumption
<1>4. CASE \/ \E k \in Jobs : \E value \in BOOLEAN : SetEnabled(k, value)
           \/ SchedulerTick \/ UNCHANGED schedulerVars
  <2>1. rewinds = 0 /\ UNCHANGED <<nextRun, occs>>
    BY <1>4 DEF SetEnabled, SchedulerTick, schedulerVars
  <2> QED  BY <1>1, <2>1 DEF CountsAreExact, SlotsOf
<1> QED  BY <1>2, <1>3, <1>4 DEF SchedulerNext

\* Under the policy latest each slot that the schedule has passed is
\* accounted for exactly once, as an occurrence or in one skipped_count,
\* whatever the outages, disabled periods and the change of the zone's offset.
THEOREM CountsStayExact ==
  ASSUME ScheduleAssumption
  PROVE  SchedulerSpec => []LatestCountsAreExact
  BY InitSchedulerTypeOK, NextSchedulerTypeOK, InitCounts, NextCounts, PTL DEF SchedulerSpec

-----------------------------------------------------------------------------
(* The job queue.                                                             *)

\* A main thread that watches a future has a row.
WatcherHasJob == \A w \in Workers : pc[w] = "watching" => job[w] \in Task

\* A running row has been claimed at least once.
RunningHasAttempt ==
  \A o \in Occurrences : occ[o].status = "running" => occ[o].attempts \in Attempts

\* The types are inductive only together with the bound on the attempts of a
\* queued row (a claim increments them), the row of a watching thread and the
\* attempt of a running row (the backoff is computed from it).
TypeInv == TypeOK /\ AttemptsRemain /\ WatcherHasJob /\ RunningHasAttempt

\* The exponential backoff is a whole number of ticks.
LEMMA BackoffType == \A n \in Attempts : Backoff(n) \in Int
  BY ConstantsAssumption DEF Backoff, Attempts

\* Recording a failure of an attempt of a row keeps its failures well typed.
LEMMA WithFailureType ==
  ASSUME NEW fs \in SUBSET TaskFailure, NEW n \in 0 .. MaxAttempts,
         NEW code \in ErrorCode, NEW terminal \in BOOLEAN
  PROVE  WithFailure(fs, n, code, terminal) \in SUBSET TaskFailure
  BY ConstantsAssumption DEF WithFailure, TaskFailure, Attempts

\* A reaped row is a row, and is queued only when an attempt remains.
LEMMA ReapedType ==
  ASSUME NEW row \in Occurrence
  PROVE  /\ Reaped(row) \in Occurrence
         /\ Reaped(row).status = "queued" => Reaped(row).attempts < MaxAttempts
<1>1. /\ row.attempts \in 0 .. MaxAttempts
      /\ row.availableIn \in Int
      /\ row.deadlineLeft \in Nat
  BY DEF Occurrence
<1>2. Reaped(row).availableIn \in Int
  BY <1>1 DEF Reaped
<1>3. Reaped(row).status \in Status /\ Reaped(row).errorCode \in ErrorCode
  BY DEF Reaped, Status, Terminal, ErrorCode
<1>4. Reaped(row) \in Occurrence
  BY <1>1, <1>2, <1>3 DEF Reaped, Occurrence
<1>5. Reaped(row).status = "queued" => Reaped(row).attempts < MaxAttempts
  BY <1>1, ConstantsAssumption DEF Reaped
<1> QED  BY <1>4, <1>5

\* Claiming a row that has an attempt left yields a running row.
LEMMA ClaimedType ==
  ASSUME NEW row \in Occurrence, row.attempts < MaxAttempts, NEW w \in Workers
  PROVE  /\ Claimed(row, w) \in Occurrence
         /\ Claimed(row, w).status = "running"
         /\ Claimed(row, w).attempts = row.attempts + 1
         /\ row.attempts + 1 \in Attempts
<1>1. row.attempts \in 0 .. MaxAttempts /\ row.availableIn \in Int
  BY DEF Occurrence
<1>2. row.attempts + 1 \in 1 .. MaxAttempts /\ row.attempts + 1 \in 0 .. MaxAttempts
  BY <1>1, ConstantsAssumption
<1>3. LeaseDuration \in Nat /\ ExecutionTimeout \in Nat
  BY ConstantsAssumption
<1>4. "running" \in Status /\ "" \in ErrorCode
  BY DEF Status, ErrorCode
<1>5. Claimed(row, w) \in Occurrence
  BY <1>1, <1>2, <1>3, <1>4 DEF Claimed, Occurrence
<1> QED  BY <1>2, <1>5 DEF Claimed, Attempts

\* A row finished with an outcome is a row, queued only if attempts remain.
LEMMA FinishedType ==
  ASSUME NEW row \in Occurrence, row.attempts \in Attempts, NEW error \in BOOLEAN
  PROVE  /\ Finished(row, error) \in Occurrence
         /\ Finished(row, error).status = "queued" =>
              Finished(row, error).attempts < MaxAttempts
  BY ConstantsAssumption, BackoffType
     DEF Finished, Occurrence, Status, Terminal, ErrorCode, Attempts

\* Setting the remaining lease keeps a row a row and its other columns.
LEMMA LeaseType ==
  ASSUME NEW row \in Occurrence, NEW n \in Nat
  PROVE  /\ [row EXCEPT !.leaseLeft = n] \in Occurrence
         /\ [row EXCEPT !.leaseLeft = n].status = row.status
         /\ [row EXCEPT !.leaseLeft = n].attempts = row.attempts
  BY DEF Occurrence

\* A tick keeps a row a row and changes its timers only.
LEMMA AgedType ==
  ASSUME NEW row \in Occurrence
  PROVE  /\ Aged(row) \in Occurrence
         /\ Aged(row).status = row.status
         /\ Aged(row).attempts = row.attempts
<1>1. /\ row.status \in Status /\ row.attempts \in 0 .. MaxAttempts
      /\ row.availableIn \in Int /\ row.owner \in Workers \cup {NoWorker}
      /\ row.leaseLeft \in Nat /\ row.deadlineLeft \in Nat
      /\ row.errorCode \in ErrorCode
  BY DEF Occurrence
<1>2. Elapsed(row.leaseLeft) \in Nat /\ Elapsed(row.deadlineLeft) \in Nat
  BY <1>1 DEF Elapsed
<1>3. Aged(row).availableIn \in Int
  BY <1>1 DEF Aged
<1>4. Aged(row) \in Occurrence
  BY <1>1, <1>2, <1>3 DEF Aged, Occurrence
<1> QED  BY <1>4 DEF Aged

\* Reaping keeps the rows and their failures well typed.
LEMMA ReapType ==
  ASSUME TypeInv, NEW w \in Workers
  PROVE  /\ AfterReap(w) \in [Occurrences -> Occurrence]
         /\ FailuresAfterReap(w) \in [Occurrences -> SUBSET TaskFailure]
         /\ \A o \in Occurrences :
              /\ AfterReap(w)[o].attempts = occ[o].attempts
              /\ AfterReap(w)[o].status = "queued" => occ[o].attempts < MaxAttempts
              /\ AfterReap(w)[o].status = "running" => occ[o].status = "running"
<1>1. \A o \in Occurrences : occ[o] \in Occurrence /\ failures[o] \in SUBSET TaskFailure
  BY DEF TypeInv, TypeOK
<1>2. \A o \in Occurrences : Reaped(occ[o]) \in Occurrence
  BY <1>1, ReapedType
<1>3. AfterReap(w) \in [Occurrences -> Occurrence]
  BY <1>1, <1>2 DEF AfterReap
<1>4. \A o \in Occurrences :
        WithFailure(failures[o], occ[o].attempts, "lease_expired",
                    occ[o].attempts >= MaxAttempts) \in SUBSET TaskFailure
  <2> SUFFICES ASSUME NEW o \in Occurrences
               PROVE  WithFailure(failures[o], occ[o].attempts, "lease_expired",
                                  occ[o].attempts >= MaxAttempts) \in SUBSET TaskFailure
    OBVIOUS
  <2>1. occ[o].attempts \in 0 .. MaxAttempts
    BY <1>1 DEF Occurrence
  <2>2. "lease_expired" \in ErrorCode /\ (occ[o].attempts >= MaxAttempts) \in BOOLEAN
    BY DEF ErrorCode
  <2> QED  BY <1>1, <2>1, <2>2, WithFailureType
<1>5. FailuresAfterReap(w) \in [Occurrences -> SUBSET TaskFailure]
  BY <1>1, <1>4 DEF FailuresAfterReap
<1>6. ASSUME NEW o \in Occurrences
      PROVE  /\ AfterReap(w)[o].attempts = occ[o].attempts
             /\ AfterReap(w)[o].status = "queued" => occ[o].attempts < MaxAttempts
             /\ AfterReap(w)[o].status = "running" => occ[o].status = "running"
  <2>1. CASE o \in locked[w]
    <3>1. AfterReap(w)[o] = Reaped(occ[o])
      BY <2>1 DEF AfterReap
    <3>2. Reaped(occ[o]).attempts = occ[o].attempts /\ Reaped(occ[o]).status # "running"
      BY DEF Reaped
    <3> QED  BY <1>1, <3>1, <3>2, ReapedType
  <2>2. CASE o \notin locked[w]
    BY <2>2 DEF AfterReap, TypeInv, AttemptsRemain
  <2> QED  BY <2>1, <2>2
<1> QED  BY <1>3, <1>5, <1>6

\* The row that enqueue_due_jobs creates.
LEMMA NewRowType ==
  /\ AbsentRow \in Occurrence /\ LegacyRow \in Occurrence
  /\ [AbsentRow EXCEPT !.status = "queued"] \in Occurrence
  /\ [AbsentRow EXCEPT !.status = "queued"].status = "queued"
  /\ [AbsentRow EXCEPT !.status = "queued"].attempts = 0
<1>1. AbsentRow \in Occurrence /\ LegacyRow \in Occurrence
  BY ConstantsAssumption
     DEF AbsentRow, LegacyRow, Occurrence, Status, Terminal, ErrorCode
<1>2. "queued" \in Status
  BY DEF Status
<1>3. ASSUME NEW row \in Occurrence
      PROVE  /\ [row EXCEPT !.status = "queued"] \in Occurrence
             /\ [row EXCEPT !.status = "queued"].status = "queued"
             /\ [row EXCEPT !.status = "queued"].attempts = row.attempts
  BY <1>2 DEF Occurrence
<1>4. AbsentRow.attempts = 0
  BY DEF AbsentRow
<1> QED  BY <1>1, <1>3, <1>4

\* The initial rows, processes and pools are well typed.
LEMMA InitTypeInv == Init => TypeInv
<1> SUFFICES ASSUME Init PROVE TypeInv
  OBVIOUS
<1>1. \A o \in Occurrences : occ[o] = LegacyRow \/ occ[o] = AbsentRow
  BY DEF Init
<1>2. occ \in [Occurrences -> Occurrence]
  BY NewRowType DEF Init
<1>3. /\ AbsentRow.status = "absent"
      /\ LegacyRow.status = "running" /\ LegacyRow.attempts \in Attempts
  BY ConstantsAssumption DEF AbsentRow, LegacyRow, Attempts
<1>4. AttemptsRemain /\ RunningHasAttempt
  BY <1>1, <1>3 DEF AttemptsRemain, RunningHasAttempt
<1>5. TypeOK
  BY <1>2, ConstantsAssumption DEF Init, TypeOK
<1>6. WatcherHasJob
  BY DEF Init, WatcherHasJob
<1> QED  BY <1>4, <1>5, <1>6 DEF TypeInv

\* Every step of the queue, of a worker process and of the clock keeps them
\* so; in particular no claim takes a row beyond MaxAttempts.
LEMMA NextTypeInv == TypeInv /\ [Next]_vars => TypeInv'
<1> SUFFICES ASSUME TypeInv, [Next]_vars PROVE TypeInv'
  OBVIOUS
<1> USE DEF TypeInv
<1>0. \A o \in Occurrences :
        /\ occ[o] \in Occurrence
        /\ occ[o].attempts \in 0 .. MaxAttempts
        /\ occ[o].deadlineLeft \in Nat
  BY DEF TypeOK, Occurrence
<1>1. ASSUME NEW o \in Occurrences, Enqueue(o) PROVE TypeInv'
  <2> DEFINE new == [AbsentRow EXCEPT !.status = "queued"]
  <2>1. new \in Occurrence /\ new.status = "queued" /\ new.attempts = 0
    BY NewRowType
  <2>2. occ' = [occ EXCEPT ![o] = new]
    BY <1>1 DEF Enqueue
  <2> HIDE DEF new
  <2>3. occ' \in [Occurrences -> Occurrence]
    BY <2>1, <2>2 DEF TypeOK
  <2>4. AttemptsRemain' /\ RunningHasAttempt'
    BY <2>1, <2>2, ConstantsAssumption DEF TypeOK, AttemptsRemain, RunningHasAttempt
  <2> QED  BY <1>1, <2>3, <2>4 DEF Enqueue, TypeOK, WatcherHasJob
<1>2. ASSUME NEW w \in Workers, BeginClaim(w) PROVE TypeInv'
  BY <1>2 DEF BeginClaim, TypeOK, AttemptsRemain, WatcherHasJob, RunningHasAttempt
<1>3. ASSUME NEW w \in Workers, CommitReapOnly(w) PROVE TypeInv'
  BY <1>3, ReapType
     DEF CommitReapOnly, TypeOK, AttemptsRemain, WatcherHasJob, RunningHasAttempt
<1>4. ASSUME NEW w \in Workers, CommitClaim(w) PROVE TypeInv'
  <2>1. PICK o \in Claimable(w) :
          /\ occ' = [AfterReap(w) EXCEPT ![o] = Claimed(@, w)]
          /\ job' = [job EXCEPT ![w] = ClaimedAttempt(o)]
          /\ pool' = [pool EXCEPT ![w] = Append(@, ClaimedAttempt(o))]
    BY <1>4 DEF CommitClaim
  <2>2. o \in Occurrences /\ AfterReap(w)[o].status = "queued"
    BY <2>1 DEF Claimable, IsAvailable
  <2>3. /\ AfterReap(w) \in [Occurrences -> Occurrence]
        /\ AfterReap(w)[o].attempts = occ[o].attempts
        /\ occ[o].attempts < MaxAttempts
    BY <2>2, ReapType
  <2>4. /\ Claimed(AfterReap(w)[o], w) \in Occurrence
        /\ Claimed(AfterReap(w)[o], w).status = "running"
        /\ Claimed(AfterReap(w)[o], w).attempts = occ[o].attempts + 1
        /\ occ[o].attempts + 1 \in Attempts
    BY <2>2, <2>3, ClaimedType
  <2>5. ClaimedAttempt(o) \in Task
    BY <2>2, <2>4 DEF ClaimedAttempt, Task
  <2>6. occ' \in [Occurrences -> Occurrence]
    BY <2>1, <2>3, <2>4
  <2>7. AttemptsRemain' /\ RunningHasAttempt'
    BY <2>1, <2>2, <2>3, <2>4, ReapType DEF AttemptsRemain, RunningHasAttempt
  <2>8. pool' \in [Workers -> Seq(Task)]
    BY <2>1, <2>5 DEF TypeOK
  <2>9. job' \in [Workers -> Task \cup {NoJob}] /\ WatcherHasJob'
    BY <1>4, <2>1, <2>5 DEF TypeOK, WatcherHasJob, CommitClaim
  <2> QED
    BY <1>4, <2>6, <2>7, <2>8, <2>9, ReapType DEF CommitClaim, TypeOK
<1>5. ASSUME NEW w \in Workers, HeartbeatKept(w) PROVE TypeInv'
  <2> DEFINE o == job[w][1]
             new == [occ[o] EXCEPT !.leaseLeft = Min2(LeaseDuration, occ[o].deadlineLeft)]
  <2>1. o \in Occurrences
    BY <1>5 DEF HeartbeatKept, PollTimesOut, WatcherHasJob, Task
  <2>2. Min2(LeaseDuration, occ[o].deadlineLeft) \in Nat
    BY <1>0, <2>1, ConstantsAssumption DEF Min2
  <2>3. occ' = [occ EXCEPT ![o] = new]
    BY <1>5, <2>1 DEF HeartbeatKept, TypeOK
  <2>4. new \in Occurrence /\ new.status = occ[o].status /\ new.attempts = occ[o].attempts
    BY <1>0, <2>1, <2>2, LeaseType
  <2> HIDE DEF new, o
  <2>5. occ' \in [Occurrences -> Occurrence] /\ AttemptsRemain' /\ RunningHasAttempt'
    BY <2>1, <2>3, <2>4 DEF TypeOK, AttemptsRemain, RunningHasAttempt
  <2> QED  BY <1>5, <2>5 DEF HeartbeatKept, TypeOK, WatcherHasJob
<1>6. ASSUME NEW w \in Workers, HeartbeatAtDeadline(w) PROVE TypeInv'
  <2> DEFINE o == job[w][1]
             new == [occ[o] EXCEPT !.leaseLeft = 0]
  <2>1. o \in Occurrences
    BY <1>6 DEF HeartbeatAtDeadline, PollTimesOut, WatcherHasJob, Task
  <2>2. occ' = [occ EXCEPT ![o] = new]
    BY <1>6, <2>1 DEF HeartbeatAtDeadline, TypeOK
  <2>3. new \in Occurrence /\ new.status = occ[o].status /\ new.attempts = occ[o].attempts
    BY <1>0, <2>1, LeaseType
  <2> HIDE DEF new, o
  <2>4. occ' \in [Occurrences -> Occurrence] /\ AttemptsRemain' /\ RunningHasAttempt'
    BY <2>1, <2>2, <2>3 DEF TypeOK, AttemptsRemain, RunningHasAttempt
  <2> QED
    BY <1>6, <2>4 DEF HeartbeatAtDeadline, StopWatching, TypeOK, WatcherHasJob
<1>7. ASSUME NEW w \in Workers, HeartbeatRefused(w) \/ FinishRefused(w) PROVE TypeInv'
  BY <1>7
     DEF HeartbeatRefused, FinishRefused, StopWatching, TypeOK, AttemptsRemain,
         WatcherHasJob, RunningHasAttempt
<1>8. ASSUME NEW w \in Workers, FinishAccepted(w) PROVE TypeInv'
  <2> DEFINE o == job[w][1]
             error == future[w] = "raised"
             new == Finished(occ[o], error)
             rec == IF error THEN WithFailure(failures[o], occ[o].attempts, "task_error",
                                              occ[o].attempts >= MaxAttempts)
                    ELSE failures[o]
  <2>1. o \in Occurrences /\ occ[o].status = "running"
    BY <1>8 DEF FinishAccepted, WatcherHasJob, Task, OwnsRow
  <2>2. occ[o].attempts \in Attempts /\ error \in BOOLEAN
    BY <2>1 DEF RunningHasAttempt
  <2>3. /\ new \in Occurrence /\ new.status # "running"
        /\ new.status = "queued" => new.attempts < MaxAttempts
    BY <1>0, <2>1, <2>2, FinishedType DEF Finished
  <2>4. "task_error" \in ErrorCode /\ (occ[o].attempts >= MaxAttempts) \in BOOLEAN
    BY DEF ErrorCode
  <2>5. rec \in SUBSET TaskFailure
    BY <1>0, <2>1, <2>4, WithFailureType DEF TypeOK
  <2>6. occ' = [occ EXCEPT ![o] = new] /\ failures' = [failures EXCEPT ![o] = rec]
    BY <1>8, <2>1 DEF FinishAccepted, TypeOK
  <2> HIDE DEF new, rec, o
  <2>7. occ' \in [Occurrences -> Occurrence] /\ AttemptsRemain' /\ RunningHasAttempt'
    BY <2>1, <2>3, <2>6 DEF TypeOK, AttemptsRemain, RunningHasAttempt
  <2>8. failures' \in [Occurrences -> SUBSET TaskFailure]
    BY <2>5, <2>6 DEF TypeOK
  <2> QED
    BY <1>8, <2>7, <2>8 DEF FinishAccepted, StopWatching, TypeOK, WatcherHasJob
<1>9. ASSUME NEW w \in Workers,
             NEW result \in {"returned", "raised", "timeout_error"}, TaskEnds(w, result)
      PROVE  TypeInv'
  <2>1. pool' \in [Workers -> Seq(Task)]
    BY <1>9 DEF TaskEnds, TypeOK
  <2> QED
    BY <1>9, <2>1 DEF TaskEnds, TypeOK, AttemptsRemain, WatcherHasJob, RunningHasAttempt
<1>10. ASSUME NEW w \in Workers, Crash(w) PROVE TypeInv'
  BY <1>10, ConstantsAssumption
     DEF Crash, TypeOK, AttemptsRemain, WatcherHasJob, RunningHasAttempt
<1>11. ASSUME Tick PROVE TypeInv'
  <2>1. \A o \in Occurrences : /\ Aged(occ[o]) \in Occurrence
                               /\ Aged(occ[o]).status = occ[o].status
                               /\ Aged(occ[o]).attempts = occ[o].attempts
    BY <1>0, AgedType
  <2>2. occ' \in [Occurrences -> Occurrence] /\ AttemptsRemain' /\ RunningHasAttempt'
    BY <1>11, <2>1 DEF Tick, TypeOK, AttemptsRemain, RunningHasAttempt
  <2> QED  BY <1>11, <2>2 DEF Tick, TypeOK, WatcherHasJob
<1>12. CASE UNCHANGED vars
  BY <1>12 DEF vars, TypeOK, AttemptsRemain, WatcherHasJob, RunningHasAttempt
<1> QED
  BY <1>1, <1>2, <1>3, <1>4, <1>5, <1>6, <1>7, <1>8, <1>9, <1>10, <1>11, <1>12
     DEF Next, MainThread

\* The strengthened invariant holds in every reachable state.
LEMMA TypeInvHolds == Spec => []TypeInv
  BY InitTypeInv, NextTypeInv, PTL DEF Spec

\* Type correctness of the queue, for any number of rows, workers and attempts.
THEOREM TypeCorrect == Spec => []TypeOK
<1>1. TypeInv => TypeOK
  BY DEF TypeInv
<1> QED  BY <1>1, TypeInvHolds, PTL

\* No row is claimable once its attempts are used up, whichever of finish_job
\* and the stale-work loop ended the previous attempt.
THEOREM AttemptsAreBounded == Spec => []AttemptsRemain
<1>1. TypeInv => AttemptsRemain
  BY DEF TypeInv
<1> QED  BY <1>1, TypeInvHolds, PTL

-----------------------------------------------------------------------------
(* Open claim transactions.                                                *)

\* Only an open claim transaction holds locks.
LocksAreClaimers == \A w \in Workers : pc[w] # "claiming" => locked[w] = {}

\* The locks of a transaction are not the locks of another, and cover expired
\* rows only: the rows a transaction locks do not change under it.
LockInv == LocksAreClaimers /\ ReapersAreDisjoint

\* What LockedByOthers says of a row, row by row.
LEMMA LockedElsewhere ==
  ASSUME NEW w \in Workers, NEW o
  PROVE  o \notin LockedByOthers(w) <=> \A v \in Workers \ {w} : o \notin locked[v]
  BY DEF LockedByOthers

\* The same after a step.
LEMMA LockedElsewherePrime ==
  ASSUME NEW w \in Workers, NEW o
  PROVE  (o \notin LockedByOthers(w))' <=> \A v \in Workers \ {w} : o \notin locked'[v]
  BY DEF LockedByOthers

\* A step that takes no lock and leaves the locked rows alone keeps LockInv.
LEMMA LocksKept ==
  ASSUME TypeInv, LockInv, LocksAreClaimers',
         \A v \in Workers : locked'[v] \subseteq locked[v],
         \A v \in Workers : \A o \in locked'[v] : occ'[o] = occ[o]
  PROVE  LockInv'
<1> SUFFICES ASSUME NEW w \in Workers, NEW o \in locked'[w]
             PROVE  IsExpired(o)' /\ (o \notin LockedByOthers(w))'
  BY DEF LockInv, ReapersAreDisjoint
<1>1. IsExpired(o) /\ o \notin LockedByOthers(w)
  BY DEF LockInv, ReapersAreDisjoint
<1>2. IsExpired(o)'
  BY <1>1 DEF IsExpired
<1>3. \A v \in Workers \ {w} : o \notin locked'[v]
  BY <1>1, LockedElsewhere
<1> QED  BY <1>2, <1>3, LockedElsewherePrime

\* A row that one thread watches and no other transaction holds is unlocked.
LEMMA WatchedRowIsUnlocked ==
  ASSUME TypeInv, LockInv, NEW w \in Workers, pc[w] = "watching", RowIsFree(w),
         NEW v \in Workers
  PROVE  job[w][1] \notin locked[v]
<1>1. CASE v = w
  BY <1>1 DEF LockInv, LocksAreClaimers
<1>2. CASE v # w
  BY <1>2, LockedElsewhere DEF RowIsFree
<1> QED  BY <1>1, <1>2

\* No open transaction, no lock.
LEMMA InitLockInv == Init => LockInv
  BY DEF Init, LockInv, LocksAreClaimers, ReapersAreDisjoint

\* SKIP LOCKED, and the row locks that heartbeat_job and finish_job wait for,
\* keep every step away from the rows that a claim transaction has read.
LEMMA NextLockInv == TypeInv /\ LockInv /\ [Next]_vars => LockInv'
<1> SUFFICES ASSUME TypeInv, LockInv, [Next]_vars PROVE LockInv'
  OBVIOUS
<1>0. /\ locked \in [Workers -> SUBSET Occurrences]
      /\ pc \in [Workers -> {"idle", "claiming", "watching", "dead"}]
      /\ occ \in [Occurrences -> Occurrence]
      /\ LocksAreClaimers /\ ReapersAreDisjoint
  BY DEF TypeInv, TypeOK, LockInv
<1>1. ASSUME NEW o \in Occurrences, Enqueue(o) PROVE LockInv'
  <2>1. \A v \in Workers : o \notin locked[v]
    BY <1>0, <1>1 DEF Enqueue, ReapersAreDisjoint, IsExpired
  <2>2. \A v \in Workers : \A p \in locked'[v] : occ'[p] = occ[p]
    BY <1>0, <1>1, <2>1 DEF Enqueue
  <2>3. locked' = locked /\ LocksAreClaimers'
    BY <1>0, <1>1 DEF Enqueue, LocksAreClaimers
  <2> QED  BY <2>2, <2>3, LocksKept
<1>2. ASSUME NEW w \in Workers, BeginClaim(w) PROVE LockInv'
  <2>1. /\ locked' = [locked EXCEPT
              ![w] = {o \in Occurrences : IsExpired(o) /\ o \notin LockedByOthers(w)}]
        /\ occ' = occ
    BY <1>2 DEF BeginClaim
  <2>2. LocksAreClaimers'
    BY <1>0, <1>2 DEF BeginClaim, LocksAreClaimers
  <2>3. ASSUME NEW v \in Workers, NEW o \in locked'[v]
        PROVE  IsExpired(o)' /\ (o \notin LockedByOthers(v))'
    <3>1. IsExpired(o) /\ o \notin LockedByOthers(v)
      BY <1>0, <2>1, <2>3 DEF ReapersAreDisjoint
    <3>2. IsExpired(o)'
      BY <2>1, <3>1 DEF IsExpired
    <3>3. ASSUME NEW u \in Workers \ {v}, o \in locked'[u] PROVE FALSE
      <4>1. CASE u = w
        BY <1>0, <2>1, <2>3, <3>3, <4>1, LockedElsewhere
      <4>2. CASE u # w
        BY <1>0, <2>1, <3>1, <3>3, <4>2, LockedElsewhere
      <4> QED  BY <4>1, <4>2
    <3> QED  BY <3>2, <3>3, LockedElsewherePrime
  <2> QED  BY <2>2, <2>3 DEF LockInv, ReapersAreDisjoint
<1>3. ASSUME NEW w \in Workers, CommitReapOnly(w) \/ CommitClaim(w) PROVE LockInv'
  <2>1. locked' = [locked EXCEPT ![w] = {}] /\ LocksAreClaimers'
    BY <1>0, <1>3 DEF CommitReapOnly, CommitClaim, LocksAreClaimers
  <2>2. ASSUME NEW v \in Workers, NEW o \in locked'[v] PROVE occ'[o] = occ[o]
    <3>1. v # w /\ o \in locked[v] /\ o \in Occurrences
      BY <1>0, <2>1, <2>2
    <3>2. o \notin locked[w] /\ o \in LockedByOthers(w)
      BY <1>0, <3>1, LockedElsewhere DEF ReapersAreDisjoint
    <3>3. AfterReap(w)[o] = occ[o]
      BY <3>1, <3>2 DEF AfterReap
    <3>4. CASE CommitReapOnly(w)
      BY <3>3, <3>4 DEF CommitReapOnly
    <3>5. CASE CommitClaim(w)
      <4>1. PICK p \in Claimable(w) : occ' = [AfterReap(w) EXCEPT ![p] = Claimed(@, w)]
        BY <3>5 DEF CommitClaim
      <4>2. p # o
        BY <3>2, <4>1 DEF Claimable
      <4> QED  BY <3>1, <3>3, <4>1, <4>2 DEF AfterReap
    <3> QED  BY <1>3, <3>4, <3>5
  <2>3. \A v \in Workers : locked'[v] \subseteq locked[v]
    BY <1>0, <2>1
  <2> QED  BY <2>1, <2>2, <2>3, LocksKept
<1>4. ASSUME NEW w \in Workers,
             HeartbeatKept(w) \/ HeartbeatAtDeadline(w) \/ FinishAccepted(w)
      PROVE  LockInv'
  <2>1. pc[w] = "watching" /\ RowIsFree(w) /\ locked' = locked
    BY <1>4 DEF HeartbeatKept, HeartbeatAtDeadline, FinishAccepted, PollTimesOut
  <2>2. \A v \in Workers : job[w][1] \notin locked[v]
    BY <2>1, WatchedRowIsUnlocked
  <2>3. \A o \in Occurrences : o # job[w][1] => occ'[o] = occ[o]
    BY <1>0, <1>4 DEF HeartbeatKept, HeartbeatAtDeadline, FinishAccepted
  <2>4. LocksAreClaimers'
    BY <1>0, <1>4
       DEF HeartbeatKept, HeartbeatAtDeadline, FinishAccepted, StopWatching,
           LocksAreClaimers, PollTimesOut
  <2>5. \A v \in Workers : \A o \in locked'[v] : occ'[o] = occ[o]
    BY <1>0, <2>1, <2>2, <2>3
  <2> QED  BY <2>1, <2>4, <2>5, LocksKept
<1>5. ASSUME NEW w \in Workers, HeartbeatRefused(w) \/ FinishRefused(w) PROVE LockInv'
  <2>1. locked' = locked /\ occ' = occ /\ LocksAreClaimers'
    BY <1>0, <1>5
       DEF HeartbeatRefused, FinishRefused, StopWatching, LocksAreClaimers, PollTimesOut
  <2> QED  BY <2>1, LocksKept
<1>6. ASSUME NEW w \in Workers,
             NEW result \in {"returned", "raised", "timeout_error"}, TaskEnds(w, result)
      PROVE  LockInv'
  <2>1. locked' = locked /\ occ' = occ /\ LocksAreClaimers'
    BY <1>0, <1>6 DEF TaskEnds, LocksAreClaimers
  <2> QED  BY <2>1, LocksKept
<1>7. ASSUME NEW w \in Workers, Crash(w) PROVE LockInv'
  <2>1. occ' = occ /\ LocksAreClaimers' /\ \A v \in Workers : locked'[v] \subseteq locked[v]
    BY <1>0, <1>7 DEF Crash, LocksAreClaimers
  <2> QED  BY <2>1, LocksKept
<1>8. ASSUME Tick PROVE LockInv'
  <2>1. \A v \in Workers : locked'[v] = {}
    BY <1>0, <1>8 DEF Tick, LocksAreClaimers
  <2> QED  BY <2>1 DEF LockInv, LocksAreClaimers, ReapersAreDisjoint
<1>9. CASE UNCHANGED vars
  <2>1. locked' = locked /\ occ' = occ /\ LocksAreClaimers'
    BY <1>0, <1>9 DEF vars, LocksAreClaimers
  <2> QED  BY <2>1, LocksKept
<1> QED
  BY <1>1, <1>2, <1>3, <1>4, <1>5, <1>6, <1>7, <1>8, <1>9 DEF Next, MainThread

\* The strengthened invariant of the locks holds in every reachable state.
LEMMA LockInvHolds == Spec => [](TypeInv /\ LockInv)
<1>1. Init => LockInv
  BY InitLockInv
<1>2. TypeInv /\ LockInv /\ [Next]_vars => LockInv'
  BY NextLockInv
<1> QED  BY <1>1, <1>2, TypeInvHolds, PTL DEF Spec

\* Two claim transactions never reap the same row, and a row held for reaping
\* is still the expired row that the transaction read.
THEOREM ReapingIsExclusive == Spec => []ReapersAreDisjoint
<1>1. LockInv => ReapersAreDisjoint
  BY DEF LockInv
<1> QED  BY <1>1, LockInvHolds, PTL

-----------------------------------------------------------------------------
(* What one step of the system does to one row.                            *)

RowKept(o) ==
  /\ occ'[o].status = occ[o].status
  /\ occ'[o].attempts = occ[o].attempts
  /\ occ'[o].owner = occ[o].owner
  /\ occ'[o].errorCode = occ[o].errorCode
  /\ failures'[o] = failures[o]

RowCreated(o) ==
  /\ occ[o].status = "absent" /\ occ'[o].status = "queued"
  /\ occ'[o].attempts = 0
  /\ failures'[o] = failures[o]

RowClaimed(o) ==
  /\ occ[o].status = "queued" /\ occ'[o].status = "running"
  /\ occ[o].attempts < MaxAttempts
  /\ occ'[o].attempts = occ[o].attempts + 1
  /\ failures'[o] = failures[o]

RowSucceeded(o) ==
  /\ occ[o].status = "running" /\ occ'[o].status = "succeeded"
  /\ occ'[o].attempts = occ[o].attempts
  /\ failures'[o] = failures[o]

\* The current attempt of a running row gets its TaskFailure.
AttemptFails(o, code) ==
  /\ occ[o].status = "running"
  /\ failures'[o] = WithFailure(failures[o], occ[o].attempts, code,
                                occ[o].attempts >= MaxAttempts)

RowFailed(o, code) ==
  /\ AttemptFails(o, code)
  /\ occ'[o].status = IF occ[o].attempts >= MaxAttempts THEN "failed" ELSE "queued"
  /\ occ'[o].attempts = occ[o].attempts
  /\ occ'[o].errorCode = code

\* Reaped and claimed again within one transaction.
RowReplaced(o) ==
  /\ AttemptFails(o, "lease_expired")
  /\ occ[o].attempts < MaxAttempts
  /\ occ'[o].status = "running"
  /\ occ'[o].attempts = occ[o].attempts + 1

RowStep(o) ==
  \/ RowKept(o) \/ RowCreated(o) \/ RowClaimed(o) \/ RowSucceeded(o) \/ RowReplaced(o)
  \/ \E code \in {"lease_expired", "task_error"} : RowFailed(o, code)

\* What the stale-work loop leaves of a row that it locked.
LEMMA ReapedRow ==
  ASSUME TypeInv, LockInv, NEW w \in Workers, NEW o \in locked[w]
  PROVE  /\ o \in Occurrences
         /\ occ[o].status = "running"
         /\ AfterReap(w)[o].status =
              IF occ[o].attempts >= MaxAttempts THEN "failed" ELSE "queued"
         /\ AfterReap(w)[o].attempts = occ[o].attempts
         /\ AfterReap(w)[o].errorCode = "lease_expired"
         /\ FailuresAfterReap(w)[o] =
              WithFailure(failures[o], occ[o].attempts, "lease_expired",
                          occ[o].attempts >= MaxAttempts)
<1>1. o \in Occurrences
  BY DEF TypeInv, TypeOK
<1>2. occ[o].status = "running"
  BY DEF LockInv, ReapersAreDisjoint, IsExpired
<1>3. AfterReap(w)[o] = Reaped(occ[o])
  BY <1>1 DEF AfterReap
<1>4. FailuresAfterReap(w)[o] =
        WithFailure(failures[o], occ[o].attempts, "lease_expired",
                    occ[o].attempts >= MaxAttempts)
  BY <1>1 DEF FailuresAfterReap
<1> QED  BY <1>1, <1>2, <1>3, <1>4 DEF Reaped

\* What it leaves of the others.
LEMMA UnreapedRow ==
  ASSUME NEW w \in Workers, NEW o \in Occurrences, o \notin locked[w]
  PROVE  AfterReap(w)[o] = occ[o] /\ FailuresAfterReap(w)[o] = failures[o]
  BY DEF AfterReap, FailuresAfterReap

\* Whatever the workers, their pools, the clock and crashes do, a row only
\* makes one of these moves.
LEMMA EveryStepIsARowStep ==
  ASSUME TypeInv, LockInv, [Next]_vars, NEW o \in Occurrences
  PROVE  RowStep(o)
<1>0. /\ occ \in [Occurrences -> Occurrence] /\ occ[o] \in Occurrence
      /\ failures \in [Occurrences -> SUBSET TaskFailure]
      /\ occ[o].attempts \in 0 .. MaxAttempts /\ MaxAttempts \in Nat
  BY ConstantsAssumption DEF TypeInv, TypeOK, Occurrence
<1>1. ASSUME NEW p \in Occurrences, Enqueue(p) PROVE RowStep(o)
  <2>1. CASE p = o
    <3>1. occ'[o] = [AbsentRow EXCEPT !.status = "queued"]
      BY <1>0, <1>1, <2>1 DEF Enqueue
    <3> QED  BY <1>1, <2>1, <3>1, NewRowType DEF Enqueue, RowStep, RowCreated
  <2>2. CASE p # o
    BY <1>0, <1>1, <2>2 DEF Enqueue, RowStep, RowKept
  <2> QED  BY <2>1, <2>2
<1>2. ASSUME NEW w \in Workers,
             BeginClaim(w) \/ HeartbeatRefused(w) \/ FinishRefused(w) \/ Crash(w)
             \/ \E result \in {"returned", "raised", "timeout_error"} : TaskEnds(w, result)
      PROVE  RowStep(o)
  <2>1. occ' = occ /\ failures' = failures
    BY <1>2 DEF BeginClaim, HeartbeatRefused, FinishRefused, Crash, TaskEnds
  <2> QED  BY <2>1 DEF RowStep, RowKept
<1>3. ASSUME NEW w \in Workers, CommitReapOnly(w) PROVE RowStep(o)
  <2>1. occ' = AfterReap(w) /\ failures' = FailuresAfterReap(w)
    BY <1>3 DEF CommitReapOnly
  <2>2. CASE o \in locked[w]
    <3>1. RowFailed(o, "lease_expired")
      BY <2>1, <2>2, ReapedRow DEF RowFailed, AttemptFails
    <3> QED  BY <3>1 DEF RowStep
  <2>3. CASE o \notin locked[w]
    BY <2>1, <2>3, UnreapedRow DEF RowStep, RowKept
  <2> QED  BY <2>2, <2>3
<1>4. ASSUME NEW w \in Workers, CommitClaim(w) PROVE RowStep(o)
  <2>1. PICK p \in Claimable(w) : occ' = [AfterReap(w) EXCEPT ![p] = Claimed(@, w)]
    BY <1>4 DEF CommitClaim
  <2>2. failures' = FailuresAfterReap(w) /\ AfterReap(w) \in [Occurrences -> Occurrence]
    BY <1>4, ReapType DEF CommitClaim
  <2>3. p \in Occurrences /\ AfterReap(w)[p].status = "queued"
    BY DEF Claimable, IsAvailable
  <2>4. CASE o # p
    <3>1. occ'[o] = AfterReap(w)[o]
      BY <2>1, <2>2, <2>4
    <3>2. CASE o \in locked[w]
      <4>1. RowFailed(o, "lease_expired")
        BY <2>2, <3>1, <3>2, ReapedRow DEF RowFailed, AttemptFails
      <4> QED  BY <4>1 DEF RowStep
    <3>3. CASE o \notin locked[w]
      BY <2>2, <3>1, <3>3, UnreapedRow DEF RowStep, RowKept
    <3> QED  BY <3>2, <3>3
  <2>5. CASE o = p
    <3>1. occ'[o] = Claimed(AfterReap(w)[o], w)
      BY <2>1, <2>2, <2>5
    <3>2. occ[o].attempts < MaxAttempts /\ AfterReap(w)[o].attempts = occ[o].attempts
      BY <2>3, <2>5, ReapType
    <3>3. occ'[o].status = "running" /\ occ'[o].attempts = occ[o].attempts + 1
      BY <2>2, <3>1, <3>2, ClaimedType
    <3>4. CASE o \in locked[w]
      <4>1. RowReplaced(o)
        BY <2>2, <3>2, <3>3, <3>4, ReapedRow DEF RowReplaced, AttemptFails
      <4> QED  BY <4>1 DEF RowStep
    <3>5. CASE o \notin locked[w]
      <4>1. RowClaimed(o)
        BY <2>2, <2>3, <2>5, <3>2, <3>3, <3>5, UnreapedRow DEF RowClaimed
      <4> QED  BY <4>1 DEF RowStep
    <3> QED  BY <3>4, <3>5
  <2> QED  BY <2>4, <2>5
<1>5. ASSUME NEW w \in Workers, HeartbeatKept(w) \/ HeartbeatAtDeadline(w)
      PROVE  RowStep(o)
  <2>1. PICK n : occ' = [occ EXCEPT ![job[w][1]].leaseLeft = n]
    BY <1>5 DEF HeartbeatKept, HeartbeatAtDeadline
  <2>2. failures' = failures
    BY <1>5 DEF HeartbeatKept, HeartbeatAtDeadline
  <2>3. /\ occ'[o].status = occ[o].status /\ occ'[o].attempts = occ[o].attempts
        /\ occ'[o].errorCode = occ[o].errorCode /\ occ'[o].owner = occ[o].owner
    BY <1>0, <2>1 DEF Occurrence
  <2> QED  BY <2>2, <2>3 DEF RowStep, RowKept
<1>6. ASSUME NEW w \in Workers, FinishAccepted(w) PROVE RowStep(o)
  <2> DEFINE error == future[w] = "raised"
  <2>1. CASE o = job[w][1]
    <3>1. occ[o].status = "running" /\ occ'[o] = Finished(occ[o], error)
      BY <1>0, <1>6, <2>1 DEF FinishAccepted, OwnsRow
    <3>2. failures'[o] =
            IF error THEN WithFailure(failures[o], occ[o].attempts, "task_error",
                                      occ[o].attempts >= MaxAttempts)
            ELSE failures[o]
      BY <1>0, <1>6, <2>1 DEF FinishAccepted
    <3>3. CASE error
      <4>1. RowFailed(o, "task_error")
        BY <1>0, <3>1, <3>2, <3>3 DEF RowFailed, AttemptFails, Finished
      <4> QED  BY <4>1 DEF RowStep
    <3>4. CASE ~error
      <4>1. Finished(occ[o], FALSE).status = "succeeded"
            /\ Finished(occ[o], FALSE).attempts = occ[o].attempts
        BY DEF Finished
      <4>2. RowSucceeded(o)
        BY <3>1, <3>2, <3>4, <4>1 DEF RowSucceeded
      <4> QED  BY <4>2 DEF RowStep
    <3> QED  BY <3>3, <3>4
  <2>2. CASE o # job[w][1]
    BY <1>0, <1>6, <2>2 DEF FinishAccepted, RowStep, RowKept
  <2> QED  BY <2>1, <2>2
<1>7. ASSUME Tick PROVE RowStep(o)
  <2>1. occ'[o] = Aged(occ[o]) /\ failures' = failures
    BY <1>7 DEF Tick
  <2> QED  BY <2>1 DEF Aged, RowStep, RowKept
<1>8. CASE UNCHANGED vars
  BY <1>8 DEF vars, RowStep, RowKept
<1> QED
  BY <1>1, <1>2, <1>3, <1>4, <1>5, <1>6, <1>7, <1>8 DEF Next, MainThread

\* A terminal row is never changed again: no late heartbeat, late outcome or
\* reaping revives it.
THEOREM TerminalRowsAreFinal == Spec => TerminalIsFinal
<1>1. ASSUME TypeInv, LockInv, [Next]_vars
      PROVE  [\A o \in Occurrences :
                occ[o].status \in Terminal =>
                  /\ occ'[o].status = occ[o].status
                  /\ occ'[o].attempts = occ[o].attempts
                  /\ failures'[o] = failures[o]]_vars
  <2> SUFFICES ASSUME NEW o \in Occurrences, occ[o].status \in Terminal
               PROVE  RowKept(o)
    BY DEF RowKept
  <2>1. RowStep(o)
    BY <1>1, EveryStepIsARowStep
  <2> QED
    BY <2>1 DEF RowStep, RowCreated, RowClaimed, RowSucceeded, RowReplaced, RowFailed,
                AttemptFails, Terminal
<1> QED  BY <1>1, LockInvHolds, PTL DEF Spec, TerminalIsFinal

-----------------------------------------------------------------------------
(* The ledger of attempts.                                                 *)

\* The attempt of row o that has no TaskFailure, in progress or successful.
OpenAttempt(o, n) ==
  n = occ[o].attempts /\ occ[o].status \in {"running", "succeeded"}

\* AttemptAccounting and TerminalFlagHonest of one row, element by element;
\* a row that does not exist has no attempt.
Ledger(o) ==
  /\ occ[o].status = "absent" => occ[o].attempts = 0
  /\ \A f \in failures[o] : f.attempt \in 1 .. occ[o].attempts /\ ~OpenAttempt(o, f.attempt)
  /\ \A n \in 1 .. occ[o].attempts :
       ~OpenAttempt(o, n) => \E f \in failures[o] : f.attempt = n
  /\ \A f, g \in failures[o] : f.attempt = g.attempt => f = g
  /\ \A f \in failures[o] :
       /\ f.terminal <=> (occ[o].status = "failed" /\ f.attempt = occ[o].attempts)
       /\ f.terminal => f.code = occ[o].errorCode

LedgerInv == \A o \in Occurrences : Ledger(o)

\* The current attempt of a running row has no TaskFailure yet, so recording
\* it appends exactly one.
LEMMA FailureIsAppended ==
  ASSUME TypeInv, NEW o \in Occurrences, Ledger(o), NEW code, AttemptFails(o, code)
  PROVE  /\ occ[o].attempts \in Attempts
         /\ failures'[o] = failures[o] \cup
              {[attempt |-> occ[o].attempts, code |-> code,
                terminal |-> occ[o].attempts >= MaxAttempts]}
<1>1. occ[o].status = "running" /\ occ[o].attempts \in Attempts
  BY DEF AttemptFails, TypeInv, RunningHasAttempt
<1>2. occ[o].attempts # 0
  BY <1>1, ConstantsAssumption DEF Attempts
<1>3. ~ \E f \in failures[o] : f.attempt = occ[o].attempts
  BY <1>1 DEF Ledger, OpenAttempt
<1> QED  BY <1>1, <1>2, <1>3 DEF AttemptFails, WithFailure

\* A new row has no attempt and no failure; a legacy row has its first
\* attempt in progress.
LEMMA InitLedger == Init => LedgerInv
<1> SUFFICES ASSUME Init, NEW o \in Occurrences PROVE Ledger(o)
  BY DEF LedgerInv
<1>1. occ[o] = LegacyRow \/ occ[o] = AbsentRow
  BY DEF Init
<1>2. failures[o] = {}
  BY DEF Init
<1>3. CASE occ[o] = AbsentRow
  <2> AbsentRow.attempts = 0
    BY DEF AbsentRow
  <2>1. occ[o].attempts = 0
    BY <1>3
  <2>2. 1 .. 0 = {}
    OBVIOUS
  <2> QED  BY <1>2, <2>1, <2>2 DEF Ledger
<1>4. CASE occ[o] = LegacyRow
  <2> LegacyRow.attempts = 1 /\ LegacyRow.status = "running"
    BY DEF LegacyRow
  <2>1. occ[o].attempts = 1 /\ occ[o].status = "running"
    BY <1>4
  <2>2. \A n \in 1 .. 1 : n = 1
    OBVIOUS
  <2> QED  BY <1>2, <2>1, <2>2 DEF Ledger, OpenAttempt
<1> QED  BY <1>1, <1>3, <1>4

\* Each move of a row keeps its ledger.
LEMMA RowStepKeepsLedger ==
  ASSUME TypeInv, TypeInv', NEW o \in Occurrences, Ledger(o), RowStep(o)
  PROVE  Ledger(o)'
<1>0. /\ occ[o].attempts \in 0 .. MaxAttempts /\ MaxAttempts \in Nat
      /\ occ[o].attempts \in Nat
      /\ \A f \in failures[o] : f.attempt \in Attempts /\ f.terminal \in BOOLEAN
  BY ConstantsAssumption DEF TypeInv, TypeOK, Occurrence, TaskFailure
<1>1. CASE RowKept(o)
  BY <1>1 DEF RowKept, Ledger, OpenAttempt
<1>2. CASE RowCreated(o)
  <2>1. occ[o].attempts = 0 /\ occ'[o].attempts = 0 /\ 1 .. 0 = {}
    BY <1>2 DEF RowCreated, Ledger
  <2>2. failures[o] = {} /\ failures'[o] = {}
    BY <1>2, <2>1 DEF RowCreated, Ledger
  <2> QED  BY <2>1, <2>2 DEF Ledger
<1>3. CASE RowClaimed(o)
  <2>1. /\ occ[o].status = "queued" /\ occ'[o].status = "running"
        /\ occ'[o].attempts = occ[o].attempts + 1 /\ failures'[o] = failures[o]
    BY <1>3 DEF RowClaimed
  <2>2. \A n \in 1 .. occ[o].attempts : \E f \in failures[o] : f.attempt = n
    BY <2>1 DEF Ledger, OpenAttempt
  <2>3. \A f \in failures[o] : f.attempt \in 1 .. occ[o].attempts /\ ~f.terminal
    BY <2>1 DEF Ledger
  <2>4. \A n \in 1 .. occ'[o].attempts : n # occ'[o].attempts => n \in 1 .. occ[o].attempts
    BY <1>0, <2>1
  <2>5. \A n \in 1 .. occ[o].attempts : n \in 1 .. occ'[o].attempts /\ n # occ'[o].attempts
    BY <1>0, <2>1
  <2> QED  BY <2>1, <2>2, <2>3, <2>4, <2>5 DEF Ledger, OpenAttempt
<1>4. CASE RowSucceeded(o)
  BY <1>4 DEF RowSucceeded, Ledger, OpenAttempt
<1>5. ASSUME NEW code \in {"lease_expired", "task_error"}, RowFailed(o, code)
      PROVE  Ledger(o)'
  <2> DEFINE n == occ[o].attempts
             rec == [attempt |-> n, code |-> code, terminal |-> n >= MaxAttempts]
  <2>1. /\ occ[o].status = "running" /\ AttemptFails(o, code)
        /\ occ'[o].status = IF n >= MaxAttempts THEN "failed" ELSE "queued"
        /\ occ'[o].attempts = n /\ occ'[o].errorCode = code
    BY <1>5 DEF RowFailed, AttemptFails
  <2>2. n \in Attempts /\ failures'[o] = failures[o] \cup {rec}
    BY <2>1, FailureIsAppended
  <2>3. \A f \in failures[o] : f.attempt \in 1 .. n /\ f.attempt # n /\ ~f.terminal
    BY <2>1 DEF Ledger, OpenAttempt
  <2>4. \A m \in 1 .. n : m # n => \E f \in failures[o] : f.attempt = m
    BY <2>1 DEF Ledger, OpenAttempt
  <2>5. /\ rec.attempt = n /\ n \in 1 .. n /\ rec.code = code
        /\ rec.terminal <=> occ'[o].status = "failed"
        /\ occ'[o].status \notin {"absent", "running", "succeeded"}
    <3>1. rec.attempt = n /\ rec.code = code /\ rec.terminal = (n >= MaxAttempts)
      OBVIOUS
    <3>2. n \in 1 .. n
      BY <1>0, <2>2 DEF Attempts
    <3>3. /\ n >= MaxAttempts <=> occ'[o].status = "failed"
          /\ occ'[o].status \notin {"absent", "running", "succeeded"}
      BY <2>1
    <3> QED  BY <3>1, <3>2, <3>3, Zenon
  <2> HIDE DEF rec, n
  <2>6. \A f \in failures'[o] : f.attempt \in 1 .. n
    BY <2>2, <2>3, <2>5
  <2>7. \A m \in 1 .. n : \E f \in failures'[o] : f.attempt = m
    BY <2>2, <2>4, <2>5
  <2>8. \A f, g \in failures'[o] : f.attempt = g.attempt => f = g
    <3>1. \A f, g \in failures[o] : f.attempt = g.attempt => f = g
      BY DEF Ledger
    <3> QED  BY <2>2, <2>3, <2>5, <3>1
  <2>9. ASSUME NEW f \in failures'[o]
        PROVE  /\ f.terminal <=> (occ'[o].status = "failed" /\ f.attempt = occ'[o].attempts)
               /\ f.terminal => f.code = occ'[o].errorCode
    BY <2>1, <2>2, <2>3, <2>5, <2>9
  <2> QED  BY <2>1, <2>5, <2>6, <2>7, <2>8, <2>9 DEF Ledger, OpenAttempt
<1>6. CASE RowReplaced(o)
  <2> DEFINE n == occ[o].attempts
             rec == [attempt |-> n, code |-> "lease_expired", terminal |-> n >= MaxAttempts]
  <2>1. /\ occ[o].status = "running" /\ AttemptFails(o, "lease_expired")
        /\ n < MaxAttempts /\ occ'[o].status = "running" /\ occ'[o].attempts = n + 1
    BY <1>6 DEF RowReplaced, AttemptFails
  <2>2. n \in Attempts /\ failures'[o] = failures[o] \cup {rec}
    BY <2>1, FailureIsAppended
  <2>3. \A f \in failures[o] : f.attempt \in 1 .. n /\ f.attempt # n /\ ~f.terminal
    BY <2>1 DEF Ledger, OpenAttempt
  <2>4. \A m \in 1 .. n : m # n => \E f \in failures[o] : f.attempt = m
    BY <2>1 DEF Ledger, OpenAttempt
  <2>5. rec.attempt = n /\ n \in 1 .. n /\ ~rec.terminal
    <3>1. rec.attempt = n /\ rec.terminal = (n >= MaxAttempts)
      OBVIOUS
    <3>2. n \in 1 .. n /\ ~(n >= MaxAttempts)
      BY <1>0, <2>1, <2>2 DEF Attempts
    <3> QED  BY <3>1, <3>2, Zenon
  <2>6. /\ \A m \in 1 .. n : m \in 1 .. (n + 1) /\ m # n + 1
        /\ \A m \in 1 .. (n + 1) : m # n + 1 => m \in 1 .. n
    BY <1>0
  <2> HIDE DEF rec, n
  <2>7. \A f \in failures'[o] : f.attempt \in 1 .. n /\ ~f.terminal
    BY <2>2, <2>3, <2>5
  <2>8. \A m \in 1 .. n : \E f \in failures'[o] : f.attempt = m
    BY <2>2, <2>4, <2>5
  <2>9. \A f, g \in failures'[o] : f.attempt = g.attempt => f = g
    <3>1. \A f, g \in failures[o] : f.attempt = g.attempt => f = g
      BY DEF Ledger
    <3> QED  BY <2>2, <2>3, <2>5, <3>1
  <2> QED  BY <2>1, <2>6, <2>7, <2>8, <2>9 DEF Ledger, OpenAttempt
<1> QED  BY <1>1, <1>2, <1>3, <1>4, <1>5, <1>6 DEF RowStep

\* Every row's ledger is right in every reachable state.
LEMMA LedgerInvHolds == Spec => [](TypeInv /\ LockInv /\ LedgerInv)
<1>1. TypeInv /\ LockInv /\ LedgerInv /\ [Next]_vars => LedgerInv'
  <2> SUFFICES ASSUME TypeInv, LockInv, LedgerInv, [Next]_vars, NEW o \in Occurrences
               PROVE  Ledger(o)'
    BY DEF LedgerInv
  <2>1. TypeInv' /\ RowStep(o) /\ Ledger(o)
    BY NextTypeInv, EveryStepIsARowStep DEF LedgerInv
  <2> QED  BY <2>1, RowStepKeepsLedger
<1> QED  BY <1>1, InitLedger, LockInvHolds, PTL DEF Spec

\* Every attempt that was ever claimed is in progress, successful, or has
\* exactly one TaskFailure row: none is lost and none is recorded twice.
THEOREM AttemptsAreAccountedFor == Spec => []AttemptAccounting
<1>1. TypeInv /\ LedgerInv => AttemptAccounting
  <2> SUFFICES ASSUME TypeInv, LedgerInv, NEW o \in Occurrences
               PROVE  /\ {f.attempt : f \in failures[o]} =
                           {n \in 1 .. occ[o].attempts : ~OpenAttempt(o, n)}
                      /\ \A f, g \in failures[o] : f.attempt = g.attempt => f = g
    BY DEF AttemptAccounting, OpenAttempt
  <2>1. Ledger(o)
    BY DEF LedgerInv
  <2> QED  BY <2>1 DEF Ledger
<1> QED  BY <1>1, LedgerInvHolds, PTL

\* A TaskFailure row is flagged terminal exactly when its attempt is the one
\* that failed the occurrence, and then carries the occurrence's error_code.
THEOREM TerminalFlagsAreHonest == Spec => []TerminalFlagHonest
<1>1. LedgerInv => TerminalFlagHonest
  BY DEF LedgerInv, Ledger, TerminalFlagHonest
<1> QED  BY <1>1, LedgerInvHolds, PTL

-----------------------------------------------------------------------------
(* Fencing.                                                                *)

\* A process that watches a row and owns it watches its current attempt.
LEMMA NextFenced == TypeInv /\ OutcomeIsFenced /\ [Next]_vars => OutcomeIsFenced'
<1> SUFFICES ASSUME TypeInv, OutcomeIsFenced, [Next]_vars, NEW v \in Workers,
                    pc'[v] = "watching", OwnsRow(v)'
             PROVE  job'[v][2] = occ'[job'[v][1]].attempts
  BY DEF OutcomeIsFenced
<1>0. /\ occ \in [Occurrences -> Occurrence] /\ job \in [Workers -> Task \cup {NoJob}]
      /\ pc \in [Workers -> {"idle", "claiming", "watching", "dead"}]
      /\ WatcherHasJob
  BY DEF TypeInv, TypeOK
<1> DEFINE o == job[v][1]
<1>1. ASSUME pc[v] = "watching", job'[v] = job[v],
             \/ occ'[o].status # "running" \/ occ'[o].owner # v
             \/ /\ occ'[o].status = occ[o].status /\ occ'[o].owner = occ[o].owner
                /\ occ'[o].attempts = occ[o].attempts
      PROVE  job'[v][2] = occ'[job'[v][1]].attempts
  BY <1>1 DEF OutcomeIsFenced, OwnsRow
<1>2. ASSUME pc[v] = "watching" PROVE o \in Occurrences /\ occ[o] \in Occurrence
  BY <1>0, <1>2 DEF WatcherHasJob, Task
<1>3. ASSUME NEW p \in Occurrences, Enqueue(p) PROVE job'[v][2] = occ'[job'[v][1]].attempts
  <2>1. pc[v] = "watching" /\ job'[v] = job[v] /\ o \in Occurrences
    BY <1>2, <1>3 DEF Enqueue
  <2>2. CASE o = p
    <3>1. occ'[o] = [AbsentRow EXCEPT !.status = "queued"]
      BY <1>0, <1>3, <2>1, <2>2 DEF Enqueue
    <3> QED  BY <1>1, <2>1, <3>1, NewRowType
  <2>3. CASE o # p
    BY <1>0, <1>1, <1>3, <2>1, <2>3 DEF Enqueue
  <2> QED  BY <2>2, <2>3
<1>4. ASSUME NEW w \in Workers,
             BeginClaim(w) \/ HeartbeatRefused(w) \/ FinishRefused(w) \/ Crash(w)
             \/ \E result \in {"returned", "raised", "timeout_error"} : TaskEnds(w, result)
      PROVE  job'[v][2] = occ'[job'[v][1]].attempts
  <2>1. occ' = occ /\ pc[v] = "watching" /\ job'[v] = job[v]
    BY <1>0, <1>4
       DEF BeginClaim, HeartbeatRefused, FinishRefused, Crash, TaskEnds, StopWatching
  <2> QED  BY <1>1, <2>1
<1>5. ASSUME NEW w \in Workers, CommitReapOnly(w)
      PROVE  job'[v][2] = occ'[job'[v][1]].attempts
  <2>1. pc[v] = "watching" /\ job'[v] = job[v] /\ occ' = AfterReap(w)
    BY <1>0, <1>5 DEF CommitReapOnly
  <2>2. o \in Occurrences /\ (occ'[o] = occ[o] \/ occ'[o] = Reaped(occ[o]))
    BY <1>2, <2>1 DEF AfterReap
  <2>3. Reaped(occ[o]).status # "running"
    BY DEF Reaped
  <2> QED  BY <1>1, <2>1, <2>2, <2>3
<1>6. ASSUME NEW w \in Workers, CommitClaim(w) PROVE job'[v][2] = occ'[job'[v][1]].attempts
  <2>1. PICK p \in Claimable(w) :
          /\ occ' = [AfterReap(w) EXCEPT ![p] = Claimed(@, w)]
          /\ job' = [job EXCEPT ![w] = ClaimedAttempt(p)]
    BY <1>6 DEF CommitClaim
  <2>2. /\ p \in Occurrences /\ AfterReap(w) \in [Occurrences -> Occurrence]
        /\ AfterReap(w)[p].attempts = occ[p].attempts /\ occ[p].attempts < MaxAttempts
    BY ReapType DEF Claimable, IsAvailable
  <2>3. occ'[p] = Claimed(AfterReap(w)[p], w)
    BY <2>1, <2>2
  <2>4. occ'[p].attempts = occ[p].attempts + 1 /\ occ'[p].owner = w
    <3>1. Claimed(AfterReap(w)[p], w).attempts = AfterReap(w)[p].attempts + 1
      BY <2>2, ClaimedType
    <3>2. Claimed(AfterReap(w)[p], w).owner = w
      BY DEF Claimed
    <3> QED  BY <2>2, <2>3, <3>1, <3>2
  <2>5. CASE v = w
    <3>1. job'[v] = <<p, occ[p].attempts + 1>>
      BY <1>0, <2>1, <2>5 DEF ClaimedAttempt
    <3> QED  BY <2>4, <3>1
  <2>6. CASE v # w
    <3>1. pc[v] = "watching" /\ job'[v] = job[v] /\ o \in Occurrences
      BY <1>0, <1>2, <1>6, <2>1, <2>6 DEF CommitClaim
    <3>2. CASE o = p
      BY <1>1, <2>4, <2>6, <3>1, <3>2
    <3>3. CASE o # p
      <4>1. occ'[o] = occ[o] \/ occ'[o] = Reaped(occ[o])
        BY <2>1, <2>2, <3>1, <3>3 DEF AfterReap
      <4>2. Reaped(occ[o]).status # "running"
        BY DEF Reaped
      <4> QED  BY <1>1, <3>1, <4>1, <4>2
    <3> QED  BY <3>2, <3>3
  <2> QED  BY <2>5, <2>6
<1>7. ASSUME NEW w \in Workers, HeartbeatKept(w) \/ HeartbeatAtDeadline(w)
      PROVE  job'[v][2] = occ'[job'[v][1]].attempts
  <2>1. pc[v] = "watching" /\ job'[v] = job[v]
    BY <1>0, <1>7 DEF HeartbeatKept, HeartbeatAtDeadline, StopWatching
  <2>2. PICK n : occ' = [occ EXCEPT ![job[w][1]].leaseLeft = n]
    BY <1>7 DEF HeartbeatKept, HeartbeatAtDeadline
  <2>3. /\ occ'[o].status = occ[o].status /\ occ'[o].attempts = occ[o].attempts
        /\ occ'[o].owner = occ[o].owner
    BY <1>0, <1>2, <2>1, <2>2 DEF Occurrence
  <2> QED  BY <1>1, <2>1, <2>3
<1>8. ASSUME NEW w \in Workers, FinishAccepted(w)
      PROVE  job'[v][2] = occ'[job'[v][1]].attempts
  <2>1. pc[v] = "watching" /\ job'[v] = job[v] /\ o \in Occurrences
    BY <1>0, <1>2, <1>8 DEF FinishAccepted, StopWatching
  <2>2. occ'[o] = occ[o] \/ \E e \in BOOLEAN : occ'[o] = Finished(occ[o], e)
    BY <1>0, <1>8, <2>1 DEF FinishAccepted
  <2>3. \A e \in BOOLEAN : Finished(occ[o], e).status # "running"
    BY DEF Finished
  <2> QED  BY <1>1, <2>1, <2>2, <2>3
<1>9. ASSUME Tick PROVE job'[v][2] = occ'[job'[v][1]].attempts
  <2>1. pc[v] = "watching" /\ job'[v] = job[v] /\ occ'[o] = Aged(occ[o])
    BY <1>2, <1>9 DEF Tick
  <2>2. /\ Aged(occ[o]).status = occ[o].status /\ Aged(occ[o]).owner = occ[o].owner
        /\ Aged(occ[o]).attempts = occ[o].attempts
    BY DEF Aged
  <2> QED  BY <1>1, <2>1, <2>2
<1>10. CASE UNCHANGED vars
  BY <1>1, <1>10 DEF vars
<1> QED
  BY <1>3, <1>4, <1>5, <1>6, <1>7, <1>8, <1>9, <1>10 DEF Next, MainThread

\* finish_job and heartbeat_job compare the worker only, and that suffices: a
\* late outcome of an older attempt is never recorded for a newer one.
THEOREM OutcomesAreFenced == Spec => []OutcomeIsFenced
<1>1. Init => OutcomeIsFenced
  BY DEF Init, OutcomeIsFenced
<1>2. TypeInv /\ OutcomeIsFenced /\ [Next]_vars => OutcomeIsFenced'
  BY NextFenced
<1> QED  BY <1>1, <1>2, TypeInvHolds, PTL DEF Spec

-----------------------------------------------------------------------------
(* Refinement: the rows follow the life cycle of module JobLifecycle.      *)

\* A recorded failure adds the current attempt to the failed ones.
LEMMA FailedAttemptsGrow ==
  ASSUME TypeInv, NEW o \in Occurrences, Ledger(o), NEW code, AttemptFails(o, code)
  PROVE  FailedAttempts(o)' = FailedAttempts(o) \cup {occ[o].attempts}
<1> DEFINE rec == [attempt |-> occ[o].attempts, code |-> code,
                   terminal |-> occ[o].attempts >= MaxAttempts]
<1>1. failures'[o] = failures[o] \cup {rec}
  BY FailureIsAppended
<1>2. rec.attempt = occ[o].attempts
  OBVIOUS
<1> HIDE DEF rec
<1> QED  BY <1>1, <1>2 DEF FailedAttempts

\* Each move of a row is a step of its life cycle or leaves it alone.
LEMMA RowStepIsLifecycleStep ==
  ASSUME TypeInv, NEW o \in Occurrences, Ledger(o), RowStep(o)
  PROVE  \/ Lifecycle!Create(o) \/ Lifecycle!Start(o) \/ Lifecycle!Succeed(o)
         \/ Lifecycle!Fail(o) \/ Lifecycle!Replace(o) \/ Lifecycle!Stay(o)
<1>0. occ[o].attempts \in Nat /\ MaxAttempts \in Nat
  BY ConstantsAssumption DEF TypeInv, TypeOK, Occurrence
<1>1. failures'[o] = failures[o] => FailedAttempts(o)' = FailedAttempts(o)
  BY DEF FailedAttempts
<1>2. CASE RowKept(o)
  <2>1. Lifecycle!Stay(o)
    BY <1>1, <1>2 DEF RowKept, Lifecycle!Stay
  <2> QED  BY <2>1
<1>3. CASE RowCreated(o)
  <2>1. Lifecycle!Create(o)
    BY <1>1, <1>3 DEF RowCreated, Ledger, Lifecycle!Create
  <2> QED  BY <2>1
<1>4. CASE RowClaimed(o)
  <2>1. Lifecycle!Start(o)
    BY <1>1, <1>4 DEF RowClaimed, Lifecycle!Start
  <2> QED  BY <2>1
<1>5. CASE RowSucceeded(o)
  <2>1. Lifecycle!Succeed(o)
    BY <1>1, <1>5 DEF RowSucceeded, Lifecycle!Succeed
  <2> QED  BY <2>1
<1>6. ASSUME NEW code, RowFailed(o, code) PROVE Lifecycle!Fail(o)
  <2>1. FailedAttempts(o)' = FailedAttempts(o) \cup {occ[o].attempts}
    BY <1>6, FailedAttemptsGrow DEF RowFailed
  <2> QED  BY <1>0, <1>6, <2>1 DEF RowFailed, AttemptFails, Lifecycle!Fail
<1>7. CASE RowReplaced(o)
  <2>1. FailedAttempts(o)' = FailedAttempts(o) \cup {occ[o].attempts}
    BY <1>7, FailedAttemptsGrow DEF RowReplaced
  <2>2. Lifecycle!Replace(o)
    BY <1>7, <2>1 DEF RowReplaced, AttemptFails, Lifecycle!Replace
  <2> QED  BY <2>2
<1> QED  BY <1>2, <1>3, <1>4, <1>5, <1>6, <1>7 DEF RowStep

\* The initial rows are initial rows of the life cycle.
LEMMA InitLifecycle == Init => Lifecycle!Init
<1> SUFFICES ASSUME Init PROVE Lifecycle!Init
  OBVIOUS
<1>1. \A o \in Occurrences : occ[o] = LegacyRow \/ occ[o] = AbsentRow
  BY DEF Init
<1>2. /\ LegacyRow.status = "running" /\ LegacyRow.attempts = 1
      /\ AbsentRow.status = "absent" /\ AbsentRow.attempts = 0
  BY DEF LegacyRow, AbsentRow
<1>3. \A o \in Occurrences : /\ occ[o].status \in {"absent", "running"}
                             /\ occ[o].attempts = IF occ[o].status = "running" THEN 1 ELSE 0
  BY <1>1, <1>2
<1>4. \A o \in Occurrences : FailedAttempts(o) = {}
  BY DEF Init, FailedAttempts
<1> QED  BY <1>3, <1>4 DEF Lifecycle!Init

\* Leases, pools, transactions, crashes and time leave of the rows exactly
\* the life cycle that module JobLifecycle promises.
THEOREM QueueImplementsLifecycle == Spec => ImplementsLifecycle
<1>1. TypeInv /\ LockInv /\ LedgerInv /\ [Next]_vars => [Lifecycle!Next]_(Lifecycle!lvars)
  <2> SUFFICES ASSUME TypeInv, LockInv, LedgerInv, [Next]_vars
               PROVE  Lifecycle!Next
    OBVIOUS
  <2>1. \A o \in Occurrences : RowStep(o) /\ Ledger(o)
    BY EveryStepIsARowStep DEF LedgerInv
  <2> QED  BY <2>1, RowStepIsLifecycleStep DEF Lifecycle!Next
<1> QED
  BY <1>1, InitLifecycle, LedgerInvHolds, PTL DEF Spec, ImplementsLifecycle, Lifecycle!Spec

-----------------------------------------------------------------------------
(* Abandoned tasks.                                                        *)

\* Task t, of the row `row', may be in the pool of worker w.
MayRunAt(t, row, w) ==
  /\ t[2] <= row.attempts
  /\ row.status = "running" /\ t[2] = row.attempts => row.owner = w

\* No step gives the current attempt of a row to another process: an attempt
\* changes hands only by becoming an older one.
LEMMA TasksStayInPlace ==
  ASSUME TypeInv, LockInv, LedgerInv, [Next]_vars,
         NEW t \in Task, NEW w \in Workers, MayRunAt(t, occ[t[1]], w)
  PROVE  MayRunAt(t, occ'[t[1]], w)
<1> DEFINE o == t[1]
<1>0. /\ o \in Occurrences /\ t[2] \in Int
      /\ occ[o].attempts \in Int /\ MaxAttempts \in Nat
  BY ConstantsAssumption DEF TypeInv, TypeOK, Occurrence, Task, Attempts
<1>1. RowStep(o)
  BY <1>0, EveryStepIsARowStep
<1>2. CASE RowKept(o)
  BY <1>2 DEF RowKept, MayRunAt
<1>3. CASE RowCreated(o)
  <2>1. occ[o].attempts = 0 /\ occ'[o].attempts = 0 /\ occ'[o].status = "queued"
    BY <1>0, <1>3 DEF RowCreated, LedgerInv, Ledger
  <2> QED  BY <2>1 DEF MayRunAt
<1>4. CASE RowClaimed(o) \/ RowReplaced(o)
  <2>1. occ'[o].attempts = occ[o].attempts + 1
    BY <1>4 DEF RowClaimed, RowReplaced
  <2>2. t[2] <= occ'[o].attempts /\ t[2] # occ'[o].attempts
    BY <1>0, <2>1 DEF MayRunAt
  <2> QED  BY <2>2 DEF MayRunAt
<1>5. CASE RowSucceeded(o) \/ \E code \in {"lease_expired", "task_error"} : RowFailed(o, code)
  <2>1. occ'[o].attempts = occ[o].attempts /\ occ'[o].status # "running"
    BY <1>5 DEF RowSucceeded, RowFailed
  <2> QED  BY <2>1 DEF MayRunAt
<1> QED  BY <1>1, <1>2, <1>3, <1>4, <1>5 DEF RowStep

\* A task enters a pool only when its row is claimed for that pool's process.
LEMMA NextCurrentAttempt ==
  TypeInv /\ LockInv /\ LedgerInv /\ CurrentAttemptAtOwner /\ [Next]_vars
    => CurrentAttemptAtOwner'
<1> SUFFICES ASSUME TypeInv, LockInv, LedgerInv, CurrentAttemptAtOwner, [Next]_vars,
                    NEW w \in Workers, NEW i \in DOMAIN pool'[w]
             PROVE  MayRunAt(pool'[w][i], occ'[pool'[w][i][1]], w)
  BY DEF CurrentAttemptAtOwner, MayRunAt
<1>0. pool \in [Workers -> Seq(Task)] /\ pool[w] \in Seq(Task)
  BY DEF TypeInv, TypeOK
<1>1. \A j \in DOMAIN pool[w] : pool[w][j] \in Task /\ MayRunAt(pool[w][j], occ[pool[w][j][1]], w)
  BY <1>0 DEF CurrentAttemptAtOwner, MayRunAt
<1>2. ASSUME NEW j \in DOMAIN pool[w], pool'[w][i] = pool[w][j]
      PROVE  MayRunAt(pool'[w][i], occ'[pool'[w][i][1]], w)
  <2>1. MayRunAt(pool[w][j], occ'[pool[w][j][1]], w)
    BY <1>1, TasksStayInPlace
  <2> QED  BY <1>2, <2>1
<1>3. CASE pool'[w] = pool[w]
  BY <1>2, <1>3
<1>4. ASSUME NEW v \in Workers, CommitClaim(v) PROVE MayRunAt(pool'[w][i], occ'[pool'[w][i][1]], w)
  <2>1. PICK p \in Claimable(v) :
          /\ occ' = [AfterReap(v) EXCEPT ![p] = Claimed(@, v)]
          /\ pool' = [pool EXCEPT ![v] = Append(@, ClaimedAttempt(p))]
    BY <1>4 DEF CommitClaim
  <2>2. CASE v # w
    BY <1>0, <1>3, <2>1, <2>2
  <2>3. CASE v = w /\ i \in DOMAIN pool[w]
    BY <1>0, <1>2, <2>1, <2>3
  <2>4. CASE v = w /\ i \notin DOMAIN pool[w]
    <3>1. pool'[w] = Append(pool[w], ClaimedAttempt(p))
      BY <1>0, <2>1, <2>4
    <3>2. pool'[w][i] = <<p, occ[p].attempts + 1>>
      BY <1>0, <2>4, <3>1 DEF ClaimedAttempt
    <3>3. /\ p \in Occurrences /\ AfterReap(v) \in [Occurrences -> Occurrence]
          /\ AfterReap(v)[p].attempts = occ[p].attempts /\ occ[p].attempts < MaxAttempts
      BY ReapType DEF Claimable, IsAvailable
    <3>4. occ'[p] = Claimed(AfterReap(v)[p], v)
      BY <2>1, <3>3
    <3>5. occ'[p].attempts = occ[p].attempts + 1 /\ occ'[p].owner = w
      <4>1. Claimed(AfterReap(v)[p], v).attempts = AfterReap(v)[p].attempts + 1
        BY <3>3, ClaimedType
      <4>2. Claimed(AfterReap(v)[p], v).owner = v
        BY DEF Claimed
      <4> QED  BY <2>4, <3>3, <3>4, <4>1, <4>2
    <3>6. occ[p].attempts \in Int
      BY <3>3 DEF TypeInv, TypeOK, Occurrence
    <3> QED  BY <3>2, <3>5, <3>6 DEF MayRunAt
  <2> QED  BY <2>2, <2>3, <2>4
<1>5. ASSUME NEW v \in Workers,
             NEW result \in {"returned", "raised", "timeout_error"}, TaskEnds(v, result)
      PROVE  MayRunAt(pool'[w][i], occ'[pool'[w][i][1]], w)
  <2>1. pool[v] # <<>> /\ pool' = [pool EXCEPT ![v] = Tail(@)]
    BY <1>5 DEF TaskEnds
  <2>2. CASE v # w
    BY <1>0, <1>3, <2>1, <2>2
  <2>3. CASE v = w
    <3>1. i + 1 \in DOMAIN pool[w] /\ pool'[w][i] = pool[w][i + 1]
      BY <1>0, <2>1, <2>3
    <3> QED  BY <1>2, <3>1
  <2> QED  BY <2>2, <2>3
<1>6. ASSUME NEW v \in Workers, Crash(v) PROVE MayRunAt(pool'[w][i], occ'[pool'[w][i][1]], w)
  <2>1. pool' = [pool EXCEPT ![v] = <<>>]
    BY <1>6 DEF Crash
  <2> QED  BY <1>0, <1>3, <2>1
<1>7. ASSUME NEW o \in Occurrences, Enqueue(o) PROVE MayRunAt(pool'[w][i], occ'[pool'[w][i][1]], w)
  BY <1>3, <1>7 DEF Enqueue
<1>8. ASSUME NEW v \in Workers,
             \/ BeginClaim(v) \/ CommitReapOnly(v)
             \/ HeartbeatKept(v) \/ HeartbeatAtDeadline(v) \/ HeartbeatRefused(v)
             \/ FinishAccepted(v) \/ FinishRefused(v)
      PROVE  MayRunAt(pool'[w][i], occ'[pool'[w][i][1]], w)
  BY <1>3, <1>8
     DEF BeginClaim, CommitReapOnly, HeartbeatKept, HeartbeatAtDeadline, HeartbeatRefused,
         FinishAccepted, FinishRefused
<1>9. CASE Tick \/ UNCHANGED vars
  BY <1>3, <1>9 DEF Tick, vars
<1> QED
  BY <1>4, <1>5, <1>6, <1>7, <1>8, <1>9 DEF Next, MainThread

\* A task that was abandoned, and cannot be cancelled, keeps running under an
\* older attempt number; the current attempt runs at the lease holder only.
THEOREM CurrentAttemptRunsAtOwner == Spec => []CurrentAttemptAtOwner
<1>1. Init => CurrentAttemptAtOwner
  BY DEF Init, CurrentAttemptAtOwner
<1> QED  BY <1>1, NextCurrentAttempt, LedgerInvHolds, PTL DEF Spec

-----------------------------------------------------------------------------
(* The outbox and its delivery.                                               *)

\* A process that delivers an e-mail, or holds the result of a delivery.
Busy(w) == stage[w] \in {"sending"} \cup Result

\* A busy process knows the message and the attempt it works on.
BusyHasWork == \A w \in Mailers : Busy(w) => work[w] \in Messages \X Deliveries

\* A message that was never enqueued was never claimed.
AbsentIsUnclaimed == \A m \in Messages : msg[m].status = "absent" => msg[m].attempts = 0

\* A message that is being sent was claimed.
SendingHasAttempt ==
  \A m \in Messages : msg[m].status = "sending" => msg[m].attempts \in Deliveries

\* The types are inductive only together with these: an outcome is written to
\* the row of the message's current attempt, through the work of a process.
OutboxTypeInv == OutboxTypeOK /\ BusyHasWork /\ AbsentIsUnclaimed /\ SendingHasAttempt

-----------------------------------------------------------------------------
(* The columns of a message after each of the writes.                      *)

\* The exponential backoff is a whole number of ticks.
LEMMA RetryDelayType == \A n \in Deliveries : RetryDelay(n) \in Int
  BY OutboxAssumption DEF RetryDelay, Deliveries

\* The columns of a row have their types.
LEMMA MessageFields ==
  ASSUME NEW row \in Message
  PROVE  /\ row.status \in MessageStatus
         /\ row.attempts \in 0 .. MaxDeliveries
         /\ row.waitLeft \in Int
         /\ row.owner \in Mailers \cup {NoMailer}
         /\ row.leaseLeft \in Nat
  BY DEF Message

\* Setting the status keeps a row a row and its other columns.
LEMMA StatusType ==
  ASSUME NEW row \in Message, NEW s \in MessageStatus
  PROVE  /\ [row EXCEPT !.status = s] \in Message
         /\ [row EXCEPT !.status = s].status = s
         /\ [row EXCEPT !.status = s].attempts = row.attempts
         /\ [row EXCEPT !.status = s].owner = row.owner
  BY DEF Message

\* Enqueueing creates a pending row, or keeps the one that is there.
LEMMA EnqueuedType ==
  ASSUME NEW row \in Message
  PROVE  /\ Enqueued(row) \in Message
         /\ Enqueued(row).status # "absent"
         /\ Enqueued(row).attempts = row.attempts
         /\ row.status # "absent" => Enqueued(row) = row
         /\ row.status = "absent" => Enqueued(row).status = "pending"
<1>1. "pending" \in MessageStatus
  BY DEF MessageStatus
<1> QED  BY <1>1, StatusType DEF Enqueued

\* A claim increments the attempts of a row that has one left.
LEMMA ClaimedMessageType ==
  ASSUME NEW row \in Message, row.attempts < MaxDeliveries, NEW w \in Mailers
  PROVE  /\ ClaimedMessage(row, w) \in Message
         /\ ClaimedMessage(row, w).status = "sending"
         /\ ClaimedMessage(row, w).attempts = row.attempts + 1
         /\ ClaimedMessage(row, w).owner = w
         /\ row.attempts + 1 \in Deliveries
<1>1. row.attempts \in 0 .. MaxDeliveries /\ row.waitLeft \in Int
  BY MessageFields
<1>2. row.attempts + 1 \in 1 .. MaxDeliveries /\ row.attempts + 1 \in 0 .. MaxDeliveries
  BY <1>1, OutboxAssumption
<1>3. SendLease \in Nat /\ "sending" \in MessageStatus
  BY OutboxAssumption DEF MessageStatus
<1>4. ClaimedMessage(row, w) \in Message
  BY <1>1, <1>2, <1>3 DEF ClaimedMessage, Message
<1> QED  BY <1>2, <1>4 DEF ClaimedMessage, Deliveries

\* The status that finish_outbox gives a row.
FinalStatus(row, result) ==
  IF result = "succeeded" THEN "sent"
  ELSE IF result = "uncertain" THEN "uncertain"
  ELSE IF result = "failed" /\ row.attempts < MaxDeliveries THEN "pending" ELSE "failed"

\* A finished row has no owner and is not sending any more.
LEMMA FinishedMessageType ==
  ASSUME NEW row \in Message, row.attempts \in Deliveries, NEW result \in Result
  PROVE  /\ FinishedMessage(row, result) \in Message
         /\ FinishedMessage(row, result).attempts = row.attempts
         /\ FinishedMessage(row, result).status = FinalStatus(row, result)
         /\ FinalStatus(row, result) \in MessageStatus \ {"absent", "sending"}
<1>1. row.attempts \in 0 .. MaxDeliveries /\ row.waitLeft \in Int
  BY MessageFields
<1>2. RetryDelay(row.attempts) \in Int
  BY RetryDelayType
<1>3. FinishedMessage(row, result).status = FinalStatus(row, result)
  BY DEF FinishedMessage, FinalStatus, Result
<1>4. FinalStatus(row, result) \in MessageStatus \ {"absent", "sending"}
  BY DEF FinalStatus, MessageStatus, Ended, Result
<1>5. FinishedMessage(row, result).waitLeft \in Int
  BY <1>1, <1>2 DEF FinishedMessage
<1>6. /\ FinishedMessage(row, result).attempts = row.attempts
      /\ FinishedMessage(row, result).owner = NoMailer
      /\ FinishedMessage(row, result).leaseLeft = 0
      /\ FinishedMessage(row, result) =
           [status |-> FinishedMessage(row, result).status, attempts |-> row.attempts,
            waitLeft |-> FinishedMessage(row, result).waitLeft,
            owner |-> NoMailer, leaseLeft |-> 0]
  BY DEF FinishedMessage
<1>7. FinishedMessage(row, result) \in Message
  BY <1>1, <1>3, <1>4, <1>5, <1>6 DEF Message
<1> QED  BY <1>3, <1>4, <1>6, <1>7

\* Time changes the timers of a row only.
LEMMA AgedMessageType ==
  ASSUME NEW row \in Message
  PROVE  /\ AgedMessage(row) \in Message
         /\ AgedMessage(row).status = row.status
         /\ AgedMessage(row).attempts = row.attempts
         /\ AgedMessage(row).owner = row.owner
<1>1. /\ row.status \in MessageStatus /\ row.attempts \in 0 .. MaxDeliveries /\ row.waitLeft \in Int
      /\ row.owner \in Mailers \cup {NoMailer} /\ row.leaseLeft \in Nat
  BY MessageFields
<1>2. AgedMessage(row).waitLeft \in Int /\ AgedMessage(row).leaseLeft \in Nat
  BY <1>1 DEF AgedMessage
<1>3. AgedMessage(row) \in Message
  BY <1>1, <1>2 DEF AgedMessage, Message
<1> QED  BY <1>3 DEF AgedMessage

\* A claim starts the next attempt, closes the one it takes over, and touches
\* no other attempt row.
LEMMA OutcomesAfterClaimType ==
  ASSUME OutboxTypeInv, NEW m \in Messages, msg[m].attempts < MaxDeliveries
  PROVE  /\ OutcomesAfterClaim(m) \in [Deliveries -> Outcome]
         /\ OutcomesAfterClaim(m)[msg[m].attempts + 1] = "started"
         /\ \A k \in Deliveries : k # msg[m].attempts + 1 =>
              IF k = msg[m].attempts /\ msg[m].status = "sending"
              THEN OutcomesAfterClaim(m)[k] = "uncertain"
              ELSE OutcomesAfterClaim(m)[k] = outcome[m][k]
<1>1. msg[m] \in Message /\ \A k \in Deliveries : outcome[m][k] \in Outcome
  BY DEF OutboxTypeInv, OutboxTypeOK
<1>2. msg[m].attempts + 1 \in Deliveries /\ msg[m].attempts \in Int
  BY <1>1, MessageFields, OutboxAssumption DEF Deliveries
<1>3. "started" \in Outcome /\ "uncertain" \in Outcome
  BY DEF Outcome, Result
<1> QED  BY <1>1, <1>2, <1>3 DEF OutcomesAfterClaim

-----------------------------------------------------------------------------
(* What one step does to one message.                                      *)

MessageKept(m) ==
  /\ msg'[m].status = msg[m].status
  /\ msg'[m].attempts = msg[m].attempts
  /\ msg'[m].owner = msg[m].owner
  /\ outcome'[m] = outcome[m]

MessageEnqueued(m) ==
  /\ msg[m].status = "absent" /\ msg'[m].status = "pending"
  /\ msg'[m].attempts = msg[m].attempts
  /\ outcome'[m] = outcome[m]

MessageGivenUp(m) ==
  /\ msg[m].status \in {"pending", "sending"} /\ msg'[m].status = "failed"
  /\ msg'[m].attempts = msg[m].attempts
  /\ outcome'[m] = outcome[m]

MessageClaimed(m) ==
  /\ msg[m].status \in {"pending", "sending"} /\ msg'[m].status = "sending"
  /\ msg[m].attempts < MaxDeliveries
  /\ msg'[m].attempts = msg[m].attempts + 1
  /\ outcome'[m] = OutcomesAfterClaim(m)

MessageFinished(m, result) ==
  /\ msg[m].status = "sending"
  /\ msg'[m].status = FinalStatus(msg[m], result)
  /\ msg'[m].attempts = msg[m].attempts
  /\ outcome'[m] = [outcome[m] EXCEPT ![msg[m].attempts] = result]

MessageStep(m) ==
  \/ MessageKept(m) \/ MessageEnqueued(m) \/ MessageGivenUp(m) \/ MessageClaimed(m)
  \/ \E result \in Result : MessageFinished(m, result)

\* A busy process works on a message, under one of its attempts.
LEMMA WorkType ==
  ASSUME OutboxTypeInv, NEW w \in Mailers, Busy(w)
  PROVE  /\ work[w] \in Messages \X Deliveries
         /\ work[w][1] \in Messages /\ work[w][2] \in Deliveries
  BY DEF OutboxTypeInv, BusyHasWork

-----------------------------------------------------------------------------
(* Types.                                                                  *)

\* The initial tables and processes are well typed.
LEMMA OutboxInitTypeInv == OutboxInit => OutboxTypeInv
<1> SUFFICES ASSUME OutboxInit PROVE OutboxTypeInv
  OBVIOUS
<1>1. AbsentMessage \in Message /\ AbsentMessage.attempts = 0
  BY OutboxAssumption DEF AbsentMessage, Message, MessageStatus
<1>2. "absent" \in Outcome /\ "new" \in ProducerStep
  BY DEF Outcome, ProducerStep
<1>3. OutboxTypeOK
  BY <1>1, <1>2, OutboxAssumption DEF OutboxInit, OutboxTypeOK
<1>4. BusyHasWork /\ AbsentIsUnclaimed /\ SendingHasAttempt
  BY <1>1 DEF OutboxInit, BusyHasWork, AbsentIsUnclaimed, SendingHasAttempt, AbsentMessage, Busy, Result
<1> QED  BY <1>3, <1>4 DEF OutboxTypeInv

\* A step of a producer changes no process, and no message but its own.
LEMMA ProduceTypeInv ==
  ASSUME OutboxTypeInv, NEW m \in Messages, Produce(m)
  PROVE  OutboxTypeInv'
<1>1. /\ UNCHANGED <<outcome, accepted, stage, work>>
      /\ msg' = msg \/ msg' = [msg EXCEPT ![m] = Enqueued(@)]
  BY DEF Produce, NotifyInTransaction, CommitSubject, HookCreatesNotification,
         HookEnqueues, ProducerDies
<1>2. producer' \in [Messages -> ProducerStep] /\ deaths' \in 0 .. MaxDeaths
  BY OutboxAssumption
     DEF Produce, NotifyInTransaction, CommitSubject, HookCreatesNotification,
         HookEnqueues, ProducerDies, OutboxTypeInv, OutboxTypeOK, ProducerStep
<1>3. /\ Enqueued(msg[m]) \in Message
      /\ Enqueued(msg[m]).status # "absent"
      /\ Enqueued(msg[m]) = msg[m] \/ Enqueued(msg[m]).status = "pending"
  BY EnqueuedType DEF OutboxTypeInv, OutboxTypeOK
<1>4. msg' \in [Messages -> Message] /\ AbsentIsUnclaimed' /\ SendingHasAttempt'
  BY <1>1, <1>3 DEF OutboxTypeInv, OutboxTypeOK, AbsentIsUnclaimed, SendingHasAttempt
<1> QED  BY <1>1, <1>2, <1>4 DEF OutboxTypeInv, OutboxTypeOK, BusyHasWork, Busy

\* Steps that write no table and start no conversation.
LEMMA QuietTypeInv ==
  ASSUME OutboxTypeInv, NEW w \in Mailers,
         UNCHANGED <<producer, msg, outcome>>,
         accepted' \in [Messages -> SUBSET Deliveries],
         deaths' \in 0 .. MaxDeaths,
         NEW p \in {"idle", "dead"} \cup Result, stage' = [stage EXCEPT ![w] = p],
         work' = IF p \in Result THEN work ELSE [work EXCEPT ![w] = NoWork],
         p \in Result => stage[w] = "sending"
  PROVE  OutboxTypeInv'
<1>1. OutboxTypeOK'
  BY DEF OutboxTypeInv, OutboxTypeOK, Result
<1>2. ASSUME NEW v \in Mailers, Busy(v)' PROVE work'[v] \in Messages \X Deliveries
  <2>1. CASE v = w
    <3>1. p \in Result
      BY <1>2, <2>1 DEF Busy, Result, OutboxTypeInv, OutboxTypeOK
    <3> QED  BY <2>1, <3>1 DEF OutboxTypeInv, BusyHasWork, Busy
  <2>2. CASE v # w
    <3>1. Busy(v) /\ work'[v] = work[v]
      BY <1>2, <2>2 DEF Busy, OutboxTypeInv, OutboxTypeOK
    <3> QED  BY <3>1 DEF OutboxTypeInv, BusyHasWork
  <2> QED  BY <2>1, <2>2
<1>3. AbsentIsUnclaimed' /\ SendingHasAttempt'
  BY DEF OutboxTypeInv, AbsentIsUnclaimed, SendingHasAttempt
<1> QED  BY <1>1, <1>2, <1>3 DEF OutboxTypeInv, BusyHasWork

\* Every step keeps the types; in particular no claim goes beyond
\* max_attempts, and no process delivers without a message.
LEMMA OutboxNextTypeInv == OutboxTypeInv /\ [OutboxNext]_outboxVars => OutboxTypeInv'
<1> SUFFICES ASSUME OutboxTypeInv, [OutboxNext]_outboxVars PROVE OutboxTypeInv'
  OBVIOUS
<1>0. \A m \in Messages : msg[m] \in Message
  BY DEF OutboxTypeInv, OutboxTypeOK
<1>1. ASSUME NEW m \in Messages, Produce(m) PROVE OutboxTypeInv'
  BY <1>1, ProduceTypeInv
<1>2. ASSUME NEW w \in Mailers, NEW m \in Messages, ClaimExhausted(w, m) PROVE OutboxTypeInv'
  <2> DEFINE new == [msg[m] EXCEPT !.status = "failed"]
  <2>1. new \in Message /\ new.status = "failed"
    BY <1>0, StatusType DEF MessageStatus, Ended
  <2>2. msg' = [msg EXCEPT ![m] = new]
    BY <1>2 DEF ClaimExhausted, OutboxTypeInv, OutboxTypeOK
  <2> HIDE DEF new
  <2>3. msg' \in [Messages -> Message] /\ AbsentIsUnclaimed' /\ SendingHasAttempt'
    BY <2>1, <2>2 DEF OutboxTypeInv, OutboxTypeOK, AbsentIsUnclaimed, SendingHasAttempt
  <2> QED  BY <1>2, <2>3 DEF ClaimExhausted, OutboxTypeInv, OutboxTypeOK, BusyHasWork, Busy
<1>3. ASSUME NEW w \in Mailers, NEW m \in Messages, Claim(w, m) PROVE OutboxTypeInv'
  <2>1. msg[m].attempts < MaxDeliveries
    BY <1>3 DEF Claim, AttemptLeft
  <2>2. /\ ClaimedMessage(msg[m], w) \in Message
        /\ ClaimedMessage(msg[m], w).status = "sending"
        /\ ClaimedMessage(msg[m], w).attempts = msg[m].attempts + 1
        /\ msg[m].attempts + 1 \in Deliveries
    BY <1>0, <2>1, ClaimedMessageType
  <2>3. OutcomesAfterClaim(m) \in [Deliveries -> Outcome]
    BY <2>1, OutcomesAfterClaimType
  <2>4. msg' = [msg EXCEPT ![m] = ClaimedMessage(msg[m], w)]
    BY <1>3 DEF Claim, OutboxTypeInv, OutboxTypeOK
  <2>5. msg' \in [Messages -> Message] /\ AbsentIsUnclaimed' /\ SendingHasAttempt'
    BY <2>2, <2>4 DEF OutboxTypeInv, OutboxTypeOK, AbsentIsUnclaimed, SendingHasAttempt
  <2>6. /\ outcome' \in [Messages -> [Deliveries -> Outcome]]
        /\ stage' = [stage EXCEPT ![w] = "sending"]
        /\ work' = [work EXCEPT ![w] = <<m, msg[m].attempts + 1>>]
    BY <1>3, <2>3 DEF Claim, OutboxTypeInv, OutboxTypeOK
  <2>7. OutboxTypeOK'
    BY <1>3, <2>2, <2>5, <2>6 DEF Claim, OutboxTypeInv, OutboxTypeOK
  <2>8. BusyHasWork'
    BY <2>2, <2>6 DEF OutboxTypeInv, OutboxTypeOK, BusyHasWork, Busy
  <2> QED  BY <2>5, <2>7, <2>8 DEF OutboxTypeInv
<1>4. ASSUME NEW w \in Mailers, NEW result \in Result,
             SmtpAccepts(w, result) \/ SmtpRefuses(w, result)
      PROVE  OutboxTypeInv'
  <2>1. Busy(w)
    BY <1>4 DEF SmtpAccepts, SmtpRefuses, Busy
  <2>2. accepted' \in [Messages -> SUBSET Deliveries]
    BY <1>4, <2>1, WorkType DEF SmtpAccepts, SmtpRefuses, OutboxTypeInv, OutboxTypeOK
  <2> QED
    BY <1>4, <2>2, QuietTypeInv DEF SmtpAccepts, SmtpRefuses, OutboxTypeInv, OutboxTypeOK
<1>5. ASSUME NEW w \in Mailers, OutcomeAccepted(w) PROVE OutboxTypeInv'
  <2> DEFINE m == work[w][1]
             new == FinishedMessage(msg[m], stage[w])
             out == [outcome[m] EXCEPT ![msg[m].attempts] = stage[w]]
  <2>1. m \in Messages /\ stage[w] \in Result /\ msg[m].status = "sending"
    BY <1>5, WorkType DEF OutcomeAccepted, Busy, OwnsMessage
  <2>2. msg[m].attempts \in Deliveries
    BY <2>1 DEF OutboxTypeInv, SendingHasAttempt
  <2>3. new \in Message /\ new.status \notin {"absent", "sending"}
    BY <1>0, <2>1, <2>2, FinishedMessageType
  <2>4. msg' = [msg EXCEPT ![m] = new] /\ outcome' = [outcome EXCEPT ![m] = out]
    BY <1>5, <2>1 DEF OutcomeAccepted, OutboxTypeInv, OutboxTypeOK
  <2>5. out \in [Deliveries -> Outcome]
    BY <2>1 DEF OutboxTypeInv, OutboxTypeOK, Outcome
  <2> HIDE DEF new, out, m
  <2>6. /\ msg' \in [Messages -> Message] /\ AbsentIsUnclaimed' /\ SendingHasAttempt'
        /\ outcome' \in [Messages -> [Deliveries -> Outcome]]
    BY <2>3, <2>4, <2>5 DEF OutboxTypeInv, OutboxTypeOK, AbsentIsUnclaimed, SendingHasAttempt
  <2>7. stage' = [stage EXCEPT ![w] = "idle"] /\ work' = [work EXCEPT ![w] = NoWork]
    BY <1>5 DEF OutcomeAccepted
  <2>8. BusyHasWork'
    BY <2>7 DEF OutboxTypeInv, OutboxTypeOK, BusyHasWork, Busy, Result
  <2> QED  BY <1>5, <2>6, <2>7, <2>8 DEF OutcomeAccepted, OutboxTypeInv, OutboxTypeOK
<1>6. ASSUME NEW w \in Mailers, OutcomeRefused(w) PROVE OutboxTypeInv'
  BY <1>6, QuietTypeInv DEF OutcomeRefused, OutboxTypeInv, OutboxTypeOK, Result
<1>7. ASSUME NEW w \in Mailers, MailerDies(w) PROVE OutboxTypeInv'
  <2>1. deaths' \in 0 .. MaxDeaths
    BY <1>7, OutboxAssumption DEF MailerDies, OutboxTypeInv, OutboxTypeOK
  <2> QED  BY <1>7, <2>1, QuietTypeInv DEF MailerDies, OutboxTypeInv, OutboxTypeOK, Result
<1>8. ASSUME OutboxTick PROVE OutboxTypeInv'
  <2>1. \A m \in Messages : AgedMessage(msg[m]) \in Message /\ AgedMessage(msg[m]).status = msg[m].status
                            /\ AgedMessage(msg[m]).attempts = msg[m].attempts
    BY <1>0, AgedMessageType
  <2>2. msg' \in [Messages -> Message] /\ AbsentIsUnclaimed' /\ SendingHasAttempt'
    BY <1>8, <2>1 DEF OutboxTick, OutboxTypeInv, AbsentIsUnclaimed, SendingHasAttempt
  <2> QED  BY <1>8, <2>2 DEF OutboxTick, OutboxTypeInv, OutboxTypeOK, BusyHasWork, Busy
<1>9. CASE UNCHANGED outboxVars
  BY <1>9 DEF outboxVars, OutboxTypeInv, OutboxTypeOK, BusyHasWork, AbsentIsUnclaimed, SendingHasAttempt, Busy
<1> QED
  BY <1>1, <1>2, <1>3, <1>4, <1>5, <1>6, <1>7, <1>8, <1>9 DEF OutboxNext, Deliver

\* The strengthened invariant holds in every reachable state.
LEMMA OutboxTypeInvHolds == OutboxSpec => []OutboxTypeInv
  BY OutboxInitTypeInv, OutboxNextTypeInv, PTL DEF OutboxSpec

\* Type correctness of the outbox, for any number of messages and processes.
THEOREM OutboxTypeCorrect == OutboxSpec => []OutboxTypeOK
<1>1. OutboxTypeInv => OutboxTypeOK
  BY DEF OutboxTypeInv
<1> QED  BY <1>1, OutboxTypeInvHolds, PTL

\* A step keeps a message, enqueues it, claims it, gives it up or finishes
\* its current attempt; there is no other write.
LEMMA EveryStepIsAMessageStep ==
  ASSUME OutboxTypeInv, [OutboxNext]_outboxVars, NEW m \in Messages
  PROVE  MessageStep(m)
<1>0. /\ \A k \in Messages : msg[k] \in Message
      /\ msg \in [Messages -> Message]
      /\ outcome \in [Messages -> [Deliveries -> Outcome]]
  BY DEF OutboxTypeInv, OutboxTypeOK
<1>1. ASSUME NEW k \in Messages, Produce(k) PROVE MessageStep(m)
  <2>1. outcome' = outcome /\ (msg' = msg \/ msg' = [msg EXCEPT ![k] = Enqueued(@)])
    BY <1>1 DEF Produce, NotifyInTransaction, CommitSubject, HookCreatesNotification,
                HookEnqueues, ProducerDies
  <2>2. CASE msg'[m] = msg[m]
    BY <2>1, <2>2 DEF MessageStep, MessageKept
  <2>3. CASE msg'[m] # msg[m]
    <3>1. msg'[m] = Enqueued(msg[m])
      BY <1>0, <2>1, <2>3
    <3> QED
      BY <1>0, <2>1, <2>3, <3>1, EnqueuedType DEF MessageStep, MessageEnqueued
  <2> QED  BY <2>2, <2>3
<1>2. ASSUME NEW w \in Mailers, NEW k \in Messages, ClaimExhausted(w, k)
      PROVE  MessageStep(m)
  <2>1. msg' = [msg EXCEPT ![k] = [@ EXCEPT !.status = "failed"]] /\ outcome' = outcome
    BY <1>2 DEF ClaimExhausted
  <2>2. CASE m # k
    BY <1>0, <2>1, <2>2 DEF MessageStep, MessageKept
  <2>3. CASE m = k
    <3>1. msg'[m] = [msg[m] EXCEPT !.status = "failed"]
      BY <1>0, <2>1, <2>3
    <3>2. msg'[m].status = "failed" /\ msg'[m].attempts = msg[m].attempts
      BY <1>0, <3>1, StatusType DEF MessageStatus, Ended
    <3>3. msg[m].status \in {"pending", "sending"}
      BY <1>2, <2>3 DEF ClaimExhausted, IsFirstDue, IsSendable
    <3> QED  BY <2>1, <3>2, <3>3 DEF MessageStep, MessageGivenUp
  <2> QED  BY <2>2, <2>3
<1>3. ASSUME NEW w \in Mailers, NEW k \in Messages, Claim(w, k) PROVE MessageStep(m)
  <2>1. /\ msg' = [msg EXCEPT ![k] = ClaimedMessage(@, w)]
        /\ outcome' = [outcome EXCEPT ![k] = OutcomesAfterClaim(k)]
        /\ msg[k].attempts < MaxDeliveries
        /\ msg[k].status \in {"pending", "sending"}
    BY <1>3 DEF Claim, AttemptLeft, IsFirstDue, IsSendable
  <2>2. CASE m # k
    BY <1>0, <2>1, <2>2 DEF MessageStep, MessageKept
  <2>3. CASE m = k
    <3>1. msg'[m] = ClaimedMessage(msg[m], w) /\ outcome'[m] = OutcomesAfterClaim(m)
      BY <1>0, <2>1, <2>3
    <3>2. msg'[m].status = "sending" /\ msg'[m].attempts = msg[m].attempts + 1
      BY <1>0, <2>1, <2>3, <3>1, ClaimedMessageType
    <3> QED  BY <2>1, <2>3, <3>1, <3>2 DEF MessageStep, MessageClaimed
  <2> QED  BY <2>2, <2>3
<1>4. ASSUME NEW w \in Mailers, OutcomeAccepted(w) PROVE MessageStep(m)
  <2> DEFINE k == work[w][1]
  <2>1. /\ k \in Messages /\ stage[w] \in Result /\ msg[k].status = "sending"
        /\ msg[k].attempts \in Deliveries
    BY <1>4, WorkType DEF OutcomeAccepted, Busy, OwnsMessage, OutboxTypeInv, SendingHasAttempt
  <2>2. /\ msg' = [msg EXCEPT ![k] = FinishedMessage(@, stage[w])]
        /\ outcome' = [outcome EXCEPT ![k][msg[k].attempts] = stage[w]]
    BY <1>4 DEF OutcomeAccepted
  <2>3. CASE m # k
    BY <1>0, <2>2, <2>3 DEF MessageStep, MessageKept
  <2>4. CASE m = k
    <3>1. /\ msg'[m] = FinishedMessage(msg[m], stage[w])
          /\ outcome'[m] = [outcome[m] EXCEPT ![msg[m].attempts] = stage[w]]
      BY <1>0, <2>1, <2>2, <2>4
    <3>2. MessageFinished(m, stage[w])
      BY <1>0, <2>1, <2>4, <3>1, FinishedMessageType DEF MessageFinished
    <3> QED  BY <2>1, <3>2 DEF MessageStep
  <2> QED  BY <2>3, <2>4
<1>5. ASSUME OutboxTick PROVE MessageStep(m)
  <2>1. msg'[m] = AgedMessage(msg[m]) /\ outcome' = outcome
    BY <1>5 DEF OutboxTick
  <2> QED  BY <1>0, <2>1, AgedMessageType DEF MessageStep, MessageKept
<1>6. ASSUME UNCHANGED <<msg, outcome>> PROVE MessageStep(m)
  BY <1>6 DEF MessageStep, MessageKept
<1>7. ASSUME NEW w \in Mailers, NEW result \in Result,
             SmtpAccepts(w, result) \/ SmtpRefuses(w, result)
      PROVE  MessageStep(m)
  BY <1>6, <1>7 DEF SmtpAccepts, SmtpRefuses
<1>8. ASSUME NEW w \in Mailers, OutcomeRefused(w) \/ MailerDies(w) PROVE MessageStep(m)
  BY <1>6, <1>8 DEF OutcomeRefused, MailerDies
<1>9. CASE UNCHANGED outboxVars
  BY <1>6, <1>9 DEF outboxVars
<1> QED
  BY <1>1, <1>2, <1>3, <1>4, <1>5, <1>7, <1>8, <1>9 DEF OutboxNext, Deliver

-----------------------------------------------------------------------------
(* The attempt rows and the message.                                       *)

\* A claim closes the attempt it takes over before it starts the next one,
\* and finish_outbox closes the current attempt together with the message.
LEMMA NextAttemptsMatch ==
  OutboxTypeInv /\ AttemptsMatchMessage /\ [OutboxNext]_outboxVars => AttemptsMatchMessage'
<1> SUFFICES ASSUME OutboxTypeInv, AttemptsMatchMessage, [OutboxNext]_outboxVars, NEW m \in Messages
             PROVE
    LET n == msg'[m].attempts IN
    /\ \A k \in Deliveries : outcome'[m][k] = "absent" <=> k > n
    /\ \A k \in 1 .. n - 1 : outcome'[m][k] \in {"failed", "uncertain"}
    /\ msg'[m].status = "sending" => n > 0 /\ outcome'[m][n] = "started"
    /\ msg'[m].status = "sent" => n > 0 /\ outcome'[m][n] = "succeeded"
    /\ msg'[m].status = "uncertain" => n > 0 /\ outcome'[m][n] = "uncertain"
    /\ msg'[m].status = "pending" /\ n > 0 => outcome'[m][n] = "failed"
  BY DEF AttemptsMatchMessage
<1> DEFINE n == msg[m].attempts
<1>0. /\ n \in 0 .. MaxDeliveries /\ MaxDeliveries \in Nat
      /\ msg[m].status = "absent" => n = 0
      /\ outcome[m] \in [Deliveries -> Outcome]
  BY MessageFields, OutboxAssumption DEF OutboxTypeInv, OutboxTypeOK, AbsentIsUnclaimed
<1>1. /\ \A k \in Deliveries : outcome[m][k] = "absent" <=> k > n
      /\ \A k \in 1 .. n - 1 : outcome[m][k] \in {"failed", "uncertain"}
      /\ msg[m].status = "sending" => n > 0 /\ outcome[m][n] = "started"
      /\ msg[m].status = "sent" => n > 0 /\ outcome[m][n] = "succeeded"
      /\ msg[m].status = "uncertain" => n > 0 /\ outcome[m][n] = "uncertain"
      /\ msg[m].status = "pending" /\ n > 0 => outcome[m][n] = "failed"
  BY DEF AttemptsMatchMessage
<1>2. MessageStep(m)
  BY EveryStepIsAMessageStep
<1>3. CASE MessageKept(m) \/ MessageEnqueued(m) \/ MessageGivenUp(m)
  BY <1>0, <1>1, <1>3 DEF MessageKept, MessageEnqueued, MessageGivenUp
<1>4. CASE MessageClaimed(m)
  <2> DEFINE out == OutcomesAfterClaim(m)
  <2>1. /\ msg'[m].attempts = n + 1 /\ msg'[m].status = "sending"
        /\ msg[m].status \in {"pending", "sending"} /\ n < MaxDeliveries
        /\ outcome'[m] = out
    BY <1>4 DEF MessageClaimed
  <2>2. /\ out[n + 1] = "started"
        /\ \A k \in Deliveries : k # n + 1 =>
             IF k = n /\ msg[m].status = "sending" THEN out[k] = "uncertain"
             ELSE out[k] = outcome[m][k]
    BY <2>1, OutcomesAfterClaimType
  <2> HIDE DEF out
  <2>3. n + 1 \in Deliveries
    BY <1>0, <2>1 DEF Deliveries
  <2>4. \A k \in Deliveries : outcome'[m][k] = "absent" <=> k > n + 1
    BY <1>0, <1>1, <2>1, <2>2, <2>3 DEF Deliveries
  <2>5. \A k \in 1 .. n : outcome'[m][k] \in {"failed", "uncertain"}
    BY <1>0, <1>1, <2>1, <2>2 DEF Deliveries
  <2> QED  BY <1>0, <2>1, <2>2, <2>3, <2>4, <2>5
<1>5. ASSUME NEW result \in Result, MessageFinished(m, result)
      PROVE
    /\ \A k \in Deliveries : outcome'[m][k] = "absent" <=> k > msg'[m].attempts
    /\ \A k \in 1 .. msg'[m].attempts - 1 : outcome'[m][k] \in {"failed", "uncertain"}
    /\ msg'[m].status # "sending" /\ msg'[m].attempts > 0
    /\ msg'[m].status = "sent" => outcome'[m][msg'[m].attempts] = "succeeded"
    /\ msg'[m].status = "uncertain" => outcome'[m][msg'[m].attempts] = "uncertain"
    /\ msg'[m].status = "pending" => outcome'[m][msg'[m].attempts] = "failed"
  <2>1. /\ msg'[m].attempts = n /\ n > 0 /\ n \in Deliveries
        /\ outcome'[m] = [outcome[m] EXCEPT ![n] = result]
        /\ msg'[m].status = FinalStatus(msg[m], result)
    BY <1>0, <1>1, <1>5 DEF MessageFinished, Deliveries
  <2>2. \A k \in Deliveries : outcome'[m][k] = "absent" <=> k > n
    BY <1>0, <1>1, <2>1 DEF Result, Deliveries
  <2>3. \A k \in 1 .. n - 1 : outcome'[m][k] \in {"failed", "uncertain"}
    BY <1>0, <1>1, <2>1 DEF Deliveries
  <2>4. outcome'[m][n] = result
    BY <1>0, <2>1
  <2> QED  BY <2>1, <2>2, <2>3, <2>4 DEF FinalStatus, Result
<1> QED  BY <1>2, <1>3, <1>4, <1>5 DEF MessageStep

\* Nothing is enqueued, nothing is claimed.
LEMMA InitAttemptsMatch == OutboxInit => AttemptsMatchMessage
  BY DEF OutboxInit, AttemptsMatchMessage, AbsentMessage, Deliveries

\* The types and the ledger of attempts hold in every reachable state.
LEMMA LedgerHolds == OutboxSpec => [](OutboxTypeInv /\ AttemptsMatchMessage)
  BY OutboxInitTypeInv, OutboxNextTypeInv, InitAttemptsMatch, NextAttemptsMatch, PTL DEF OutboxSpec

\* Exactly the attempts that were claimed have rows, each closed before the
\* next one starts, and the message says what its latest attempt says.
THEOREM AttemptsTellOneStory == OutboxSpec => []AttemptsMatchMessage
  BY LedgerHolds, PTL

\* No step reopens a finished message or rewrites a recorded outcome.
LEMMA StepKeepsOutcomes ==
  ASSUME OutboxTypeInv, AttemptsMatchMessage, [OutboxNext]_outboxVars, NEW m \in Messages
  PROVE  /\ msg[m].status \in Ended =>
              msg'[m].status = msg[m].status /\ msg'[m].attempts = msg[m].attempts
         /\ \A k \in Deliveries : outcome[m][k] \in Result => outcome'[m][k] = outcome[m][k]
<1> DEFINE n == msg[m].attempts
<1>0. /\ n \in 0 .. MaxDeliveries /\ MaxDeliveries \in Nat
      /\ outcome[m] \in [Deliveries -> Outcome]
  BY MessageFields, OutboxAssumption DEF OutboxTypeInv, OutboxTypeOK
<1>1. /\ \A k \in Deliveries : outcome[m][k] = "absent" <=> k > n
      /\ msg[m].status = "sending" => n > 0 /\ outcome[m][n] = "started"
  BY DEF AttemptsMatchMessage
<1>2. MessageStep(m)
  BY EveryStepIsAMessageStep
<1>3. CASE MessageKept(m) \/ MessageEnqueued(m) \/ MessageGivenUp(m)
  BY <1>3 DEF MessageKept, MessageEnqueued, MessageGivenUp, Ended
<1>4. CASE MessageClaimed(m)
  <2>1. /\ n < MaxDeliveries /\ outcome'[m] = OutcomesAfterClaim(m)
        /\ msg[m].status \notin Ended
    BY <1>4 DEF MessageClaimed, Ended
  <2>2. n + 1 \in Deliveries
    BY <1>0, <2>1 DEF Deliveries
  <2>3. ASSUME NEW k \in Deliveries, outcome[m][k] \in Result
        PROVE  outcome'[m][k] = outcome[m][k]
    <3>1. k # n + 1
      BY <1>0, <1>1, <2>2, <2>3 DEF Result
    <3>2. ~(k = n /\ msg[m].status = "sending")
      BY <1>1, <2>3 DEF Result
    <3> QED  BY <2>1, <3>1, <3>2, OutcomesAfterClaimType
  <2> QED  BY <2>1, <2>3
<1>5. ASSUME NEW result \in Result, MessageFinished(m, result)
      PROVE  /\ msg[m].status \notin Ended
             /\ \A k \in Deliveries : outcome[m][k] \in Result => outcome'[m][k] = outcome[m][k]
  BY <1>0, <1>1, <1>5 DEF MessageFinished, Ended, Result
<1> QED  BY <1>2, <1>3, <1>4, <1>5 DEF MessageStep

\* Sent, given up and uncertain messages are never claimed again, and the
\* history of their attempts is never rewritten.
THEOREM OutcomesAreFinal == OutboxSpec => RecordedOutcomesAreFinal
<1>1. OutboxTypeInv /\ AttemptsMatchMessage /\ [OutboxNext]_outboxVars =>
        [\A m \in Messages :
           /\ msg[m].status \in Ended =>
                msg'[m].status = msg[m].status /\ msg'[m].attempts = msg[m].attempts
           /\ \A k \in Deliveries :
                outcome[m][k] \in Result => outcome'[m][k] = outcome[m][k]]_outboxVars
  BY StepKeepsOutcomes
<1> QED  BY <1>1, LedgerHolds, PTL DEF OutboxSpec, RecordedOutcomesAreFinal

-----------------------------------------------------------------------------
(* Processes, the server and the record.                                   *)

\* The attempt of a busy process is open, or was recorded as uncertain by the
\* claim that took the message over.
WorkIsClaimed ==
  \A w \in Mailers : Busy(w) => outcome[work[w][1]][work[w][2]] \in {"started", "uncertain"}

\* Two processes never deliver the same attempt.
WorkIsExclusive ==
  \A v, w \in Mailers : Busy(v) /\ Busy(w) /\ work[v] = work[w] => v = w

\* What a process knows of its conversation agrees with the server.
ProcessIsInformed ==
  \A w \in Mailers :
    /\ stage[w] \in {"sending", "failed"} => work[w][2] \notin accepted[work[w][1]]
    /\ stage[w] = "succeeded" => work[w][2] \in accepted[work[w][1]]

\* None of the five is inductive alone: that a refused e-mail is not recorded
\* over an accepted one needs the attempt to be the process's own, and that
\* needs the attempt numbers of a claim to be fresh.
DeliveryInv ==
  /\ DeliveryIsFenced /\ WorkIsClaimed /\ WorkIsExclusive
  /\ ProcessIsInformed /\ DeliveryRecordIsHonest

\* Nobody delivers, nothing is accepted, nothing is recorded.
LEMMA InitDeliveryInv == OutboxInit => DeliveryInv
  BY DEF OutboxInit, DeliveryInv, DeliveryIsFenced, WorkIsClaimed, WorkIsExclusive,
         ProcessIsInformed, DeliveryRecordIsHonest, Busy, Result

\* A step that changes no process and no attempt row, and starts no message.
LEMMA TablesOnly ==
  ASSUME OutboxTypeInv, DeliveryInv, UNCHANGED <<outcome, accepted, stage, work>>,
         \A m \in Messages : msg'[m].status = "sending" =>
           /\ msg[m].status = "sending" /\ msg'[m].owner = msg[m].owner
           /\ msg'[m].attempts = msg[m].attempts
  PROVE  DeliveryInv'
<1>1. DeliveryIsFenced'
  BY WorkType DEF DeliveryInv, DeliveryIsFenced, OwnsMessage, Busy
<1> QED
  BY <1>1 DEF DeliveryInv, WorkIsClaimed, WorkIsExclusive, ProcessIsInformed,
              DeliveryRecordIsHonest, Busy

\* A process that lets go of its message.
LEMMA ProcessEnds ==
  ASSUME OutboxTypeInv, DeliveryInv, NEW w \in Mailers, NEW p \in {"idle", "dead"},
         UNCHANGED <<msg, outcome, accepted>>,
         stage' = [stage EXCEPT ![w] = p], work' = [work EXCEPT ![w] = NoWork]
  PROVE  DeliveryInv'
<1>1. \A v \in Mailers : Busy(v)' => v # w /\ Busy(v) /\ stage'[v] = stage[v] /\ work'[v] = work[v]
  BY DEF Busy, Result, OutboxTypeInv, OutboxTypeOK
<1>2. \A v \in Mailers : stage'[v] \in {"sending"} \cup Result =>
                           stage'[v] = stage[v] /\ work'[v] = work[v]
  BY DEF Result, OutboxTypeInv, OutboxTypeOK
<1>3. DeliveryIsFenced'
  BY <1>2 DEF DeliveryInv, DeliveryIsFenced, OwnsMessage
<1>4. WorkIsClaimed' /\ WorkIsExclusive'
  BY <1>1 DEF DeliveryInv, WorkIsClaimed, WorkIsExclusive
<1>5. ProcessIsInformed'
  BY <1>2 DEF DeliveryInv, ProcessIsInformed, Result
<1> QED
  BY <1>3, <1>4, <1>5 DEF DeliveryInv, DeliveryRecordIsHonest

\* The attempt of a claim is nobody's work, has no row and is not accepted.
LEMMA ClaimKeepsDelivery ==
  ASSUME OutboxTypeInv, AttemptsMatchMessage, DeliveryInv,
         NEW w \in Mailers, NEW m \in Messages, Claim(w, m)
  PROVE  DeliveryInv'
<1> DEFINE n == msg[m].attempts + 1
           out == OutcomesAfterClaim(m)
<1>0. /\ n \in Deliveries /\ msg[m].attempts \in 0 .. MaxDeliveries /\ MaxDeliveries \in Nat
      /\ msg[m] \in Message /\ msg[m].attempts < MaxDeliveries
  BY ClaimedMessageType, MessageFields, OutboxAssumption
     DEF OutboxTypeInv, OutboxTypeOK, Claim, AttemptLeft
<1>1. /\ outcome[m][n] = "absent"
      /\ msg[m].status = "sending" => outcome[m][msg[m].attempts] = "started"
  BY <1>0 DEF AttemptsMatchMessage
<1>2. /\ out[n] = "started"
      /\ \A k \in Deliveries : k # n =>
           IF k = msg[m].attempts /\ msg[m].status = "sending" THEN out[k] = "uncertain"
           ELSE out[k] = outcome[m][k]
  BY <1>0, OutcomesAfterClaimType
<1>3. /\ outcome' = [outcome EXCEPT ![m] = out] /\ accepted' = accepted
      /\ stage' = [stage EXCEPT ![w] = "sending"] /\ work' = [work EXCEPT ![w] = <<m, n>>]
      /\ msg' = [msg EXCEPT ![m] = ClaimedMessage(msg[m], w)] /\ stage[w] = "idle"
  BY DEF Claim, OutboxTypeInv, OutboxTypeOK
<1>4. /\ ClaimedMessage(msg[m], w).attempts = n /\ ClaimedMessage(msg[m], w).owner = w
  BY <1>0, ClaimedMessageType
<1> HIDE DEF out
<1>5. /\ msg \in [Messages -> Message] /\ outcome \in [Messages -> [Deliveries -> Outcome]]
      /\ stage \in [Mailers -> {"idle", "sending", "dead"} \cup Result]
      /\ work \in [Mailers -> (Messages \X Deliveries) \cup {NoWork}]
      /\ accepted \in [Messages -> SUBSET Deliveries]
  BY DEF OutboxTypeInv, OutboxTypeOK
<1>6. /\ Busy(w)' /\ work'[w][1] = m /\ work'[w][2] = n /\ work'[w] = <<m, n>>
      /\ \A v \in Mailers \ {w} : stage'[v] = stage[v] /\ work'[v] = work[v]
      /\ \A v \in Mailers \ {w} : Busy(v)' <=> Busy(v)
  BY <1>3, <1>5 DEF Busy
<1>7. \A v \in Mailers : Busy(v) => work[v] # <<m, n>>
  BY <1>1 DEF DeliveryInv, WorkIsClaimed
<1>8. n \notin accepted[m]
  BY <1>0, <1>1 DEF DeliveryInv, DeliveryRecordIsHonest
<1>9. DeliveryIsFenced'
  <2> SUFFICES ASSUME NEW v \in Mailers, Busy(v)', OwnsMessage(v)'
               PROVE  work'[v][2] = msg'[work'[v][1]].attempts
    BY DEF DeliveryIsFenced, Busy
  <2>1. CASE v = w
    BY <1>3, <1>4, <1>5, <1>6, <2>1
  <2>2. CASE v # w
    <3>1. Busy(v) /\ work'[v] = work[v] /\ work[v][1] \in Messages
      BY <1>6, <2>2, WorkType
    <3>2. work[v][1] # m
      BY <1>3, <1>4, <1>5, <2>2, <3>1 DEF OwnsMessage
    <3>3. msg'[work[v][1]] = msg[work[v][1]]
      BY <1>3, <1>5, <3>1, <3>2
    <3> QED  BY <3>1, <3>3 DEF DeliveryInv, DeliveryIsFenced, OwnsMessage, Busy
  <2> QED  BY <2>1, <2>2
<1>10. \A j \in Messages, k \in Deliveries :
         \/ outcome'[j][k] = outcome[j][k]
         \/ outcome[j][k] = "started" /\ outcome'[j][k] = "uncertain"
         \/ j = m /\ k = n /\ outcome'[j][k] = "started"
  BY <1>0, <1>1, <1>2, <1>3, <1>5
<1>11. WorkIsClaimed'
  <2> SUFFICES ASSUME NEW v \in Mailers, Busy(v)'
               PROVE  outcome'[work'[v][1]][work'[v][2]] \in {"started", "uncertain"}
    BY DEF WorkIsClaimed
  <2>1. CASE v = w
    BY <1>0, <1>2, <1>3, <1>5, <1>6, <2>1
  <2>2. CASE v # w
    <3>1. Busy(v) /\ work'[v] = work[v] /\ work[v][1] \in Messages /\ work[v][2] \in Deliveries
      BY <1>6, <2>2, WorkType
    <3> QED  BY <1>10, <3>1 DEF DeliveryInv, WorkIsClaimed
  <2> QED  BY <2>1, <2>2
<1>12. WorkIsExclusive'
  BY <1>6, <1>7 DEF DeliveryInv, WorkIsExclusive
<1>13. ProcessIsInformed'
  BY <1>3, <1>5, <1>6, <1>8 DEF DeliveryInv, ProcessIsInformed
<1>14. DeliveryRecordIsHonest'
  BY <1>3, <1>8, <1>10 DEF DeliveryInv, DeliveryRecordIsHonest
<1> QED  BY <1>9, <1>11, <1>12, <1>13, <1>14 DEF DeliveryInv

\* The end of a conversation: the server accepts the attempt of one process
\* at most, and the process learns nothing false.
LEMMA ConversationKeepsDelivery ==
  ASSUME OutboxTypeInv, DeliveryInv, NEW w \in Mailers, NEW result \in Result,
         SmtpAccepts(w, result) \/ SmtpRefuses(w, result)
  PROVE  DeliveryInv'
<1> DEFINE m == work[w][1]
           k == work[w][2]
<1>0. /\ Busy(w) /\ m \in Messages /\ k \in Deliveries /\ work[w] = <<m, k>>
      /\ stage' = [stage EXCEPT ![w] = result] /\ UNCHANGED <<msg, outcome, work>>
  BY WorkType DEF SmtpAccepts, SmtpRefuses, Busy
<1>1. /\ stage \in [Mailers -> {"idle", "sending", "dead"} \cup Result]
      /\ accepted \in [Messages -> SUBSET Deliveries]
  BY DEF OutboxTypeInv, OutboxTypeOK
<1>2. /\ \A v \in Mailers : Busy(v)' <=> Busy(v)
      /\ \A v \in Mailers \ {w} : stage'[v] = stage[v]
      /\ stage'[w] = result
  BY <1>0, <1>1 DEF Busy
<1>3. DeliveryIsFenced' /\ WorkIsClaimed' /\ WorkIsExclusive'
  <2>1. DeliveryIsFenced'
    BY <1>0, <1>2 DEF DeliveryInv, DeliveryIsFenced, OwnsMessage, Busy
  <2> QED  BY <1>0, <1>2, <2>1 DEF DeliveryInv, WorkIsClaimed, WorkIsExclusive
<1>4. CASE SmtpRefuses(w, result)
  <2>1. accepted' = accepted /\ result \in {"failed", "uncertain"} /\ stage[w] = "sending"
    BY <1>4 DEF SmtpRefuses
  <2>2. ProcessIsInformed'
    BY <1>0, <1>2, <2>1 DEF DeliveryInv, ProcessIsInformed
  <2> QED
    BY <1>0, <1>3, <2>1, <2>2 DEF DeliveryInv, DeliveryRecordIsHonest
<1>5. CASE SmtpAccepts(w, result)
  <2>1. /\ accepted' = [accepted EXCEPT ![m] = @ \cup {k}]
        /\ result \in {"succeeded", "uncertain"}
    BY <1>5 DEF SmtpAccepts
  <2>2. /\ k \in accepted'[m]
        /\ \A j \in Messages : \A a \in Deliveries :
             a \in accepted'[j] <=> a \in accepted[j] \/ (j = m /\ a = k)
    BY <1>0, <1>1, <2>1
  <2>3. ASSUME NEW v \in Mailers
        PROVE  /\ stage'[v] \in {"sending", "failed"} => work'[v][2] \notin accepted'[work'[v][1]]
               /\ stage'[v] = "succeeded" => work'[v][2] \in accepted'[work'[v][1]]
    <3>1. CASE v = w
      BY <1>0, <1>2, <2>1, <2>2, <3>1
    <3>2. CASE v # w
      <4>1. stage'[v] = stage[v] /\ work'[v] = work[v]
        BY <1>0, <1>2, <3>2
      <4>2. CASE Busy(v)
        <5>1. work[v] # work[w] /\ work[v] \in Messages \X Deliveries
          BY <1>0, <3>2, <4>2, WorkType DEF DeliveryInv, WorkIsExclusive
        <5>2. work[v][2] \in accepted'[work[v][1]] <=> work[v][2] \in accepted[work[v][1]]
          BY <1>0, <2>2, <5>1
        <5> QED  BY <4>1, <5>2 DEF DeliveryInv, ProcessIsInformed
      <4>3. CASE ~Busy(v)
        BY <4>1, <4>3 DEF Busy, Result
      <4> QED  BY <4>2, <4>3
    <3> QED  BY <3>1, <3>2
  <2>4. DeliveryRecordIsHonest'
    <3>1. outcome[m][k] \in {"started", "uncertain"}
      BY <1>0 DEF DeliveryInv, WorkIsClaimed
    <3> QED  BY <1>0, <2>2, <3>1 DEF DeliveryInv, DeliveryRecordIsHonest
  <2> QED  BY <1>3, <2>3, <2>4 DEF DeliveryInv, ProcessIsInformed
<1> QED  BY <1>4, <1>5

\* finish_outbox writes the result of the process to its own attempt.
LEMMA FinishKeepsDelivery ==
  ASSUME OutboxTypeInv, AttemptsMatchMessage, DeliveryInv, NEW w \in Mailers, OutcomeAccepted(w)
  PROVE  DeliveryInv'
<1> DEFINE m == work[w][1]
           n == msg[m].attempts
<1>0. /\ Busy(w) /\ m \in Messages /\ n \in Deliveries /\ stage[w] \in Result
      /\ msg[m].status = "sending" /\ msg[m].owner = w /\ msg[m] \in Message
      /\ work[w] = <<m, n>>
  BY WorkType DEF OutcomeAccepted, Busy, OwnsMessage, OutboxTypeInv, OutboxTypeOK, SendingHasAttempt,
                  DeliveryInv, DeliveryIsFenced
<1>1. /\ msg \in [Messages -> Message] /\ outcome \in [Messages -> [Deliveries -> Outcome]]
      /\ stage \in [Mailers -> {"idle", "sending", "dead"} \cup Result]
      /\ work \in [Mailers -> (Messages \X Deliveries) \cup {NoWork}]
  BY DEF OutboxTypeInv, OutboxTypeOK
<1>2. /\ msg' = [msg EXCEPT ![m] = FinishedMessage(msg[m], stage[w])]
      /\ outcome' = [outcome EXCEPT ![m][n] = stage[w]]
      /\ stage' = [stage EXCEPT ![w] = "idle"] /\ work' = [work EXCEPT ![w] = NoWork]
      /\ accepted' = accepted
  BY <1>0, <1>1 DEF OutcomeAccepted
<1>3. FinishedMessage(msg[m], stage[w]).status # "sending"
  BY <1>0, FinishedMessageType
<1>4. \A v \in Mailers : Busy(v)' =>
        v # w /\ Busy(v) /\ stage'[v] = stage[v] /\ work'[v] = work[v]
  BY <1>1, <1>2 DEF Busy, Result
<1>5. \A v \in Mailers : Busy(v)' =>
        work[v] # <<m, n>> /\ work[v] \in Messages \X Deliveries
  BY <1>0, <1>4, WorkType DEF DeliveryInv, WorkIsExclusive
<1>6. /\ outcome'[m][n] = stage[w]
      /\ \A j \in Messages : \A a \in Deliveries :
           <<j, a>> # <<m, n>> => outcome'[j][a] = outcome[j][a]
  BY <1>0, <1>1, <1>2
<1>7. DeliveryIsFenced'
  <2> SUFFICES ASSUME NEW v \in Mailers, Busy(v)', OwnsMessage(v)'
               PROVE  work'[v][2] = msg'[work'[v][1]].attempts
    BY DEF DeliveryIsFenced, Busy
  <2>1. work[v][1] \in Messages
    BY <1>5
  <2>2. work[v][1] # m
    <3>1. msg'[work[v][1]].status = "sending"
      BY <1>4 DEF OwnsMessage
    <3>2. msg'[m].status # "sending"
      BY <1>0, <1>1, <1>2, <1>3
    <3> QED  BY <3>1, <3>2
  <2>3. msg'[work[v][1]] = msg[work[v][1]]
    BY <1>1, <1>2, <2>1, <2>2
  <2> QED  BY <1>4, <2>3 DEF DeliveryInv, DeliveryIsFenced, OwnsMessage, Busy
<1>8. WorkIsClaimed'
  <2> SUFFICES ASSUME NEW v \in Mailers, Busy(v)'
               PROVE  outcome'[work'[v][1]][work'[v][2]] \in {"started", "uncertain"}
    BY DEF WorkIsClaimed
  <2>1. outcome'[work[v][1]][work[v][2]] = outcome[work[v][1]][work[v][2]]
    BY <1>5, <1>6
  <2> QED  BY <1>4, <2>1 DEF DeliveryInv, WorkIsClaimed
<1>9. WorkIsExclusive'
  BY <1>4 DEF DeliveryInv, WorkIsExclusive
<1>10. ProcessIsInformed'
  <2>1. \A v \in Mailers : stage'[v] \in {"sending"} \cup Result => stage'[v] = stage[v] /\ work'[v] = work[v]
    BY <1>4 DEF Busy
  <2> QED  BY <1>2, <2>1 DEF DeliveryInv, ProcessIsInformed, Result
<1>11. DeliveryRecordIsHonest'
  <2>1. /\ stage[w] = "failed" => n \notin accepted[m]
        /\ stage[w] = "succeeded" => n \in accepted[m]
    BY <1>0 DEF DeliveryInv, ProcessIsInformed
  <2> SUFFICES ASSUME NEW j \in Messages, NEW a \in Deliveries
               PROVE  /\ a \in accepted'[j] =>
                           outcome'[j][a] \in {"started", "succeeded", "uncertain"}
                      /\ outcome'[j][a] = "succeeded" => a \in accepted'[j]
    BY DEF DeliveryRecordIsHonest
  <2>2. CASE <<j, a>> = <<m, n>>
    BY <1>0, <1>2, <1>6, <2>1, <2>2 DEF Result
  <2>3. CASE <<j, a>> # <<m, n>>
    BY <1>2, <1>6, <2>3 DEF DeliveryInv, DeliveryRecordIsHonest
  <2> QED  BY <2>2, <2>3
<1> QED  BY <1>7, <1>8, <1>9, <1>10, <1>11 DEF DeliveryInv

\* Every step keeps processes, server and record in agreement.
LEMMA NextDeliveryInv ==
  OutboxTypeInv /\ AttemptsMatchMessage /\ DeliveryInv /\ [OutboxNext]_outboxVars => DeliveryInv'
<1> SUFFICES ASSUME OutboxTypeInv, AttemptsMatchMessage, DeliveryInv, [OutboxNext]_outboxVars
             PROVE  DeliveryInv'
  OBVIOUS
<1>0. /\ msg \in [Messages -> Message]
      /\ \A m \in Messages : msg[m] \in Message
  BY DEF OutboxTypeInv, OutboxTypeOK
<1>1. ASSUME NEW m \in Messages, Produce(m) PROVE DeliveryInv'
  <2>1. /\ UNCHANGED <<outcome, accepted, stage, work>>
        /\ msg' = msg \/ msg' = [msg EXCEPT ![m] = Enqueued(@)]
    BY <1>1 DEF Produce, NotifyInTransaction, CommitSubject, HookCreatesNotification,
                HookEnqueues, ProducerDies
  <2>2. Enqueued(msg[m]).status = "sending" => Enqueued(msg[m]) = msg[m]
    BY <1>0, EnqueuedType
  <2> QED  BY <1>0, <2>1, <2>2, TablesOnly
<1>2. ASSUME NEW w \in Mailers, NEW m \in Messages, ClaimExhausted(w, m)
      PROVE  DeliveryInv'
  <2>1. msg' = [msg EXCEPT ![m] = [@ EXCEPT !.status = "failed"]]
        /\ UNCHANGED <<outcome, accepted, stage, work>>
    BY <1>2 DEF ClaimExhausted
  <2>2. [msg[m] EXCEPT !.status = "failed"].status = "failed"
    BY <1>0, StatusType DEF MessageStatus, Ended
  <2>3. \A j \in Messages : msg'[j] = msg[j] \/ msg'[j].status = "failed"
    BY <1>0, <2>1, <2>2
  <2> QED  BY <2>1, <2>3, TablesOnly
<1>3. ASSUME OutboxTick PROVE DeliveryInv'
  <2>1. \A m \in Messages : msg'[m] = AgedMessage(msg[m])
    BY <1>3 DEF OutboxTick
  <2>2. UNCHANGED <<outcome, accepted, stage, work>>
    BY <1>3 DEF OutboxTick
  <2> QED  BY <1>0, <2>1, <2>2, AgedMessageType, TablesOnly
<1>4. ASSUME NEW w \in Mailers, OutcomeRefused(w) \/ MailerDies(w) PROVE DeliveryInv'
  BY <1>4, ProcessEnds DEF OutcomeRefused, MailerDies
<1>5. CASE UNCHANGED outboxVars
  BY <1>5, TablesOnly DEF outboxVars
<1> QED
  BY <1>1, <1>2, <1>3, <1>4, <1>5, ClaimKeepsDelivery, ConversationKeepsDelivery,
     FinishKeepsDelivery DEF OutboxNext, Deliver

\* All of it holds in every reachable state.
LEMMA DeliveryInvHolds == OutboxSpec => [](OutboxTypeInv /\ AttemptsMatchMessage /\ DeliveryInv)
  BY InitDeliveryInv, NextDeliveryInv, LedgerHolds, PTL DEF OutboxSpec

\* Comparing the worker id is enough: whoever still owns the message it
\* delivers is on its latest attempt.
THEOREM DeliveriesAreFenced == OutboxSpec => []DeliveryIsFenced
<1>1. DeliveryInv => DeliveryIsFenced
  BY DEF DeliveryInv
<1> QED  BY <1>1, DeliveryInvHolds, PTL

\* The rows never deny a delivery and never invent one.
THEOREM RecordIsHonest == OutboxSpec => []DeliveryRecordIsHonest
<1>1. DeliveryInv => DeliveryRecordIsHonest
  BY DEF DeliveryInv
<1> QED  BY <1>1, DeliveryInvHolds, PTL
=============================================================================
