----------------------------- MODULE Acquisition -----------------------------
(***************************************************************************)
(* Acquisition of the historical candles (market/historical_acquisition.py,*)
(* the provider_observed_* gates and the acquisition commands), under the  *)
(* database rules of migrations 0010 and 0019-0022, 0025-0027.             *)
(*                                                                         *)
(* Three datasets are acquired.  The chunks of v0 follow the trading       *)
(* calendar and may be retried; those of v1 and v2 follow a sealed         *)
(* discovery inventory under a data contract, and each is requested once,  *)
(* canary first.  A runner checks a chunk under the chunk's row lock and   *)
(* inserts the run, then the attempt, when the triggers decide under the   *)
(* advisory lock of all contracts; both commit together.  It calls the     *)
(* provider without a lock, validates the response against the inventory  *)
(* and stores the candles with the terminal run.  An operator may resolve  *)
(* an attempt as stale meanwhile, start a second command, register a       *)
(* dataset or change the installed migration; a runner may die.            *)
(*                                                                         *)
(* Hashes that pin plans, requests, inventories and accepted candles are   *)
(* equality with them.  Migration 0020 is installed initially; its         *)
(* preflight found no attempt of a contract.  Sealing the discovery a      *)
(* contract rests on is module Discovery's business: a contract may be     *)
(* created whenever the rules here allow it.                               *)
(***************************************************************************)
EXTENDS Naturals, Sequences, FiniteSets, Functions

CONSTANTS
  Runners,   \* processes that run acquisition commands
  Legacy,    \* the chunks of v0
  Rest1,     \* the chunks of v1 other than its canary, in wave order
  Rest2,     \* the chunks of v2 other than its canary, in wave order
  Answer,    \* what the provider's answer for each chunk may amount to
  MaxFree,   \* bound: attempts of a chunk of v0
  MaxFaults  \* bound: deaths of runners, failed writes and stale resolutions

Datasets == {"v0", "v1", "v2"}
Contracts == {"v1", "v2"}
Chunks == [v0 |-> Legacy, v1 |-> {"canary1"} \cup Range(Rest1),
           v2 |-> {"canary2"} \cup Range(Rest2)]
AllChunks == UNION Range(Chunks)
DatasetOf == [c \in AllChunks |-> CHOOSE d \in Datasets : c \in Chunks[d]]
Contract(c) == DatasetOf[c] \in Contracts

\* A chunk belongs to one dataset, and a canary is not in its own wave.
ASSUME ChunksAssumption ==
  /\ \A d, e \in Datasets : d # e => Chunks[d] \cap Chunks[e] = {}
  /\ Rest1 \in Seq(Range(Rest1)) /\ "canary1" \notin Range(Rest1)
  /\ Rest2 \in Seq(Range(Rest2)) /\ "canary2" \notin Range(Rest2)

ASSUME BoundsAssumption == MaxFree \in Nat /\ MaxFaults \in Nat

\* The acquisition migrations, in the order they are installed.
Migrations == <<20, 21, 22, 25, 26, 27>>

VARIABLES
  installed,   \* index in Migrations of the last one installed
  planned,     \* datasets whose plan and chunks are materialised
  registered,  \* datasets with a DatasetRegistration
  att,         \* the attempts of each chunk with their runs and audit events
  candles,     \* the candles of each chunk
  runner,      \* what each runner is doing
  faults       \* how many deaths, failed writes and stale resolutions there were

vars == <<installed, planned, registered, att, candles, runner, faults>>

Gov == Migrations[installed]

\* HistoricalFailureCode, and the code of a stale resolution.
Codes ==
  {"", "PROVIDER_AUTH_ERROR", "PROVIDER_HTTP_ERROR", "PROVIDER_RESPONSE_MALFORMED",
   "PROVIDER_EVIDENCE_MISSING", "TIMESTAMP_SET_MISMATCH", "STRUCTURAL_INVENTORY_DRIFT",
   "INVALID_PRICE_STRUCTURE", "CANDLE_VALIDATION_FAILED", "PERSISTENCE_FAILED",
   "UNKNOWN_FAILURE", "STALE_ATTEMPT_RESOLVED"}
RunEvents == {"ingestion_succeeded", "ingestion_rejected"}
AttemptEvents == {"replacement_canary_succeeded", "replacement_acquisition_succeeded",
                  "historical_ingestion_failed", "historical_attempt_stale_failed"}
Attempt == [status : {"running", "succeeded", "failed"}, code : Codes,
            events : SUBSET (RunEvents \cup AttemptEvents)]

\* What a call of the provider comes to: an exception of the client, or a
\* response without its evidence, with timestamps that are missing or not in
\* the expected set, with other volumes, ill-ordered prices or invalid
\* candles, or exactly what is expected.
Exceptions == {"auth", "http", "malformed", "exception"}
Responses == {"unevidenced", "missing", "extra", "drift", "price", "invalid", "exact"}

NoCandles == [attempt |-> 0, content |-> ""]
Candles == [attempt : Nat, content : Responses \cup {""}]

\* todo holds what is left of a wave.
Runner ==
  [pc : {"idle", "wave", "checked", "fetching", "fetched"}, chunk : AllChunks \cup {""},
   attempt : Nat, answer : Exceptions \cup Responses \cup {""}, todo : SUBSET AllChunks]
Idle == [pc |-> "idle", chunk |-> "", attempt |-> 0, answer |-> "", todo |-> {}]
InWave(todo) == [pc |-> "wave", chunk |-> "", attempt |-> 0, answer |-> "", todo |-> todo]

TypeOK ==
  /\ installed \in 1..Len(Migrations)
  /\ registered \subseteq planned /\ planned \subseteq Datasets
  /\ att \in [AllChunks -> Seq(Attempt)]
  /\ candles \in [AllChunks -> Candles]
  /\ runner \in [Runners -> Runner]
  /\ faults \in 0..MaxFaults

Attempts(S) == UNION {Range(att[c]) : c \in S}
HasStatus(S, status) == \E a \in Attempts(S) : a.status = status
ContractChunks == {c \in AllChunks : Contract(c)}

\* A chunk under a contract is open until its first attempt.
Fresh(c) == att[c] = <<>>

Init ==
  /\ installed = 1
  /\ planned = {}
  /\ registered = {}
  /\ att = [c \in AllChunks |-> <<>>]
  /\ candles = [c \in AllChunks |-> NoCandles]
  /\ runner = [r \in Runners |-> Idle]
  /\ faults = 0

ASSUME AnswerAssumption == Answer \in [AllChunks -> SUBSET (Exceptions \cup Responses)]

-----------------------------------------------------------------------------
\* Plans.

\* The triggers on contracts, plans, chunks and datasets: 0019 admits v1's
\* identities, 0025 the successor's as well.
ReplacementPlanValid(d) == d = "v1"
SuccessorPlanValid(d) == d \in {"v1", "v2"}
ContractPlanValid(d) == IF Gov >= 25 THEN SuccessorPlanValid(d) ELSE ReplacementPlanValid(d)

\* The plan, its dataset and all its chunks, or nothing.
Materialize(d) ==
  /\ d \notin planned
  /\ planned' = planned \cup {d}
  /\ UNCHANGED <<installed, registered, att, candles, runner, faults>>

\* create_historical_dataset_plan and materialize_historical_chunks.
PlanLegacy == Materialize("v0")

\* materialize_replacement_chunks.
PlanReplacement == ContractPlanValid("v1") /\ Materialize("v1")

\* materialize_gate8e_successor_metadata.
PlanSuccessor == ContractPlanValid("v2") /\ Materialize("v2")

-----------------------------------------------------------------------------
\* Which attempts are admitted.

\* The one attempt of a chunk under a contract succeeded, with its candles and
\* its two events.
Accepted(c) ==
  /\ Len(att[c]) = 1
  /\ att[c][1].status = "succeeded"
  /\ candles[c] = [attempt |-> 1, content |-> "exact"]
  /\ Cardinality(att[c][1].events) = 2

\* market_verify_replacement_canary_success: also no registration, of any
\* dataset, v0 included.
PredecessorCanary == Accepted("canary1") /\ registered = {}

\* market_verify_successor_canary_success.
SuccessorCanary ==
  /\ Accepted("canary2")
  /\ \A c \in Chunks["v2"] : \A n \in 1..Len(att[c]) : n = 1 /\ att[c][n].status = "succeeded"
  /\ "v2" \notin registered

\* market_ingestion_run_enforce on insertion, before the attempt's own trigger
\* and without its lock.
RunAdmitted(c) ==
  /\ DatasetOf[c] \notin registered
  /\ Contract(c) =>
       IF Gov = 20
       THEN c = "canary1" /\ Attempts(ContractChunks) = {}
       ELSE Fresh(c) /\ ~HasStatus(ContractChunks, "running")

\* market_validate_acquisition_canary as 0020 installs it.
CanaryActivated(c, n) ==
  /\ c = "canary1" /\ n = 1
  /\ Attempts(ContractChunks) = {}
  /\ ~HasStatus(AllChunks, "running")

\* The same function from 0021 on: 0025 exempts the successor's canary, 0026
\* verifies it for the successor's other chunks.
FullActivated(c, n) ==
  /\ n = 1 /\ Fresh(c)
  /\ ~HasStatus(ContractChunks, "running")
  /\ (c # "canary1" /\ ~(c = "canary2" /\ Gov >= 25)) =>
       IF DatasetOf[c] = "v2" /\ Gov >= 26 THEN SuccessorCanary ELSE PredecessorCanary

\* market_validate_historical_attempt.
AttemptAdmitted(c, n) ==
  /\ n = Len(att[c]) + 1
  /\ DatasetOf[c] \notin registered
  /\ Contract(c) => IF Gov = 20 THEN CanaryActivated(c, n) ELSE FullActivated(c, n)

-----------------------------------------------------------------------------
\* Runners.

Set(r, state) == runner' = [runner EXCEPT ![r] = state]
Fetching(x) ==
  [pc |-> "fetching", chunk |-> x.chunk, attempt |-> x.attempt, answer |-> "", todo |-> x.todo]
Fetched(x, a) ==
  [pc |-> "fetched", chunk |-> x.chunk, attempt |-> x.attempt, answer |-> a, todo |-> x.todo]
Locked(c) == \E r \in Runners : runner[r].pc = "checked" /\ runner[r].chunk = c

\* Mutant of ServiceAdmits: an earlier success is not looked for.
ServiceAdmitsAgain(c) ==
  /\ DatasetOf[c] \in planned \ registered
  /\ ~HasStatus({c}, "running")
  /\ RunAdmitted(c)

\* begin_historical_attempt, up to the inserted run.
ServiceAdmits(c) ==
  /\ DatasetOf[c] \in planned \ registered
  /\ ~HasStatus({c}, "succeeded") /\ ~HasStatus({c}, "running")
  /\ RunAdmitted(c)
Begin(r, c, todo) ==
  /\ ~Locked(c)
  /\ ServiceAdmits(c)
  /\ ~Contract(c) => Len(att[c]) < MaxFree
  /\ Set(r, [pc |-> "checked", chunk |-> c, attempt |-> Len(att[c]) + 1,
             answer |-> "", todo |-> todo])
  /\ UNCHANGED <<installed, planned, registered, att, candles, faults>>

\* acquire_failed_break_dataset: one named chunk of any dataset.
AcquireChunk(r, c) == runner[r].pc = "idle" /\ Begin(r, c, {})

\* acquire_replacement_canary: stricter than the database.
AcquireCanary(r) ==
  /\ runner[r].pc = "idle"
  /\ ~HasStatus(AllChunks, "running")
  /\ Attempts(ContractChunks) = {}
  /\ Begin(r, "canary1", {})

\* The chunks of a wave that were not attempted, and the first of them, up to
\* --max-chunks.
Pending(s) == {c \in Range(s) : att[c] = <<>>}
Firsts(s) == {Pending(SubSeq(s, 1, n)) : n \in 1..Len(s)} \ {{}}

\* verify_live_canary_success: what the command checks of the canary.
LiveCanary == Accepted("canary1") /\ registered = {}

\* run_replacement_acquisition_wave, before its first chunk: its plan is the
\* first pending chunks, up to --max-chunks.
Wave1 ==
  IF LiveCanary /\ ~HasStatus(AllChunks, "running")
       /\ \A c \in Range(Rest1) : Len(att[c]) <= 1 /\ ~HasStatus({c}, "failed")
  THEN Firsts(Rest1) ELSE {}

\* _accepted_attempt_success.
AcceptedSuccess(c) == Accepted(c)

\* successor_gate8g_readiness: the chunks the operator is told are ready.
ReadyKeys ==
  IF /\ "v2" \in planned \ registered /\ AcceptedSuccess("canary2")
     /\ \A c \in Chunks["v2"] : att[c] = <<>> \/ AcceptedSuccess(c)
  THEN Pending(Rest2) ELSE {}

\* run_successor_acquisition_wave.
Wave2 == IF ReadyKeys = {} THEN {} ELSE Firsts(Rest2)

StartWave(r) ==
  /\ runner[r].pc = "idle"
  /\ \E todo \in Wave1 \cup Wave2 : Set(r, InWave(todo))
  /\ UNCHANGED <<installed, planned, registered, att, candles, faults>>

\* The next planned chunk; a success recorded meanwhile is taken as its own.
IsNext(c, todo) ==
  LET order == Rest1 \o Rest2 IN
  \E i \in 1..Len(order) : order[i] = c /\ \A j \in 1..(i - 1) : order[j] \notin todo
WaveChunk(r) ==
  /\ runner[r].pc = "wave"
  /\ \E c \in runner[r].todo :
       /\ IsNext(c, runner[r].todo)
       /\ \/ Begin(r, c, runner[r].todo \ {c})
          \/ /\ DatasetOf[c] \notin registered
             /\ HasStatus({c}, "succeeded")
             /\ Set(r, InWave(runner[r].todo \ {c}))
             /\ UNCHANGED <<installed, planned, registered, att, candles, faults>>

\* The command ends, its chunks done or one of them refused.
WaveEnds(r) ==
  /\ runner[r].pc = "wave"
  /\ \A c \in runner[r].todo :
       IsNext(c, runner[r].todo) => ~ServiceAdmits(c) /\ ~HasStatus({c}, "succeeded")
  /\ Set(r, Idle)
  /\ UNCHANGED <<installed, planned, registered, att, candles, faults>>

\* The run and its attempt are inserted and committed, or refused.
InsertAttempt(r) ==
  LET c == runner[r].chunk IN
  /\ runner[r].pc = "checked"
  /\ IF AttemptAdmitted(c, runner[r].attempt)
     THEN /\ att' = [att EXCEPT ![c] =
                       Append(@, [status |-> "running", code |-> "", events |-> {}])]
          /\ Set(r, Fetching(runner[r]))
     ELSE att' = att /\ Set(r, Idle)
  /\ UNCHANGED <<installed, planned, registered, candles, faults>>

\* fetch_historical_chunk, outside every transaction.
Fetch(r) ==
  /\ runner[r].pc = "fetching"
  /\ \E a \in Answer[runner[r].chunk] :
       Set(r, Fetched(runner[r], a))
  /\ UNCHANGED <<installed, planned, registered, att, candles, faults>>

\* _validate_chunk_response: volumes and prices are compared under a contract.
ResponseCode(c, a) ==
  IF a = "unevidenced" THEN "PROVIDER_EVIDENCE_MISSING"
  ELSE IF a \in {"missing", "extra"} THEN "TIMESTAMP_SET_MISMATCH"
  ELSE IF a = "drift" /\ Contract(c) THEN "STRUCTURAL_INVENTORY_DRIFT"
  ELSE IF a = "price" /\ Contract(c) THEN "INVALID_PRICE_STRUCTURE"
  ELSE IF a \in {"price", "invalid"} THEN "CANDLE_VALIDATION_FAILED"
  ELSE ""

\* _classify_historical_failure.
FailureCode(c, a) ==
  IF a = "auth" THEN "PROVIDER_AUTH_ERROR"
  ELSE IF a = "http" THEN "PROVIDER_HTTP_ERROR"
  ELSE IF a = "malformed" THEN "PROVIDER_RESPONSE_MALFORMED"
  ELSE IF a = "exception" THEN "UNKNOWN_FAILURE"
  ELSE ResponseCode(c, a)

\* market_governed_candle_reject_mutation admits a candle whose timestamp is
\* expected, of v0 by the calendar, of a contract by the inventory, where its
\* volume and prices are checked as well; until 0021 for v1's canary only.
LegacyCandles(a) == a \in {"exact", "missing", "drift"}
CanaryCandles(c, a) == c = "canary1" /\ a \in {"exact", "missing"}
ContractCandles(c, a) == a \in {"exact", "missing"}
CandlesAdmitted(c, a) ==
  IF ~Contract(c) THEN LegacyCandles(a)
  ELSE IF Gov = 20 THEN CanaryCandles(c, a) ELSE ContractCandles(c, a)

\* The stored attempt of a runner's chunk.
MyRun(r) == att[runner[r].chunk][runner[r].attempt]

\* A run makes one terminal transition.
Transition(r) == MyRun(r).status = "running"

\* market_validate_acquisition_audit_completeness, from 0021 on: a contract's
\* terminal run commits with one event of its own and one of its attempt.
Succeeded(c) ==
  IF c = "canary1" THEN "replacement_canary_succeeded" ELSE "replacement_acquisition_succeeded"
AuditComplete(c, status, events) ==
  (Contract(c) /\ Gov >= 21) =>
    /\ events \cap RunEvents =
         {IF status = "succeeded" THEN "ingestion_succeeded" ELSE "ingestion_rejected"}
    /\ (events \cap AttemptEvents) \ {"historical_attempt_stale_failed"} =
         {IF status = "failed" THEN "historical_ingestion_failed" ELSE Succeeded(c)}
Terminal(c, n, status, code, events) ==
  /\ AuditComplete(c, status, events)
  /\ att' = [att EXCEPT ![c] = [@ EXCEPT ![n] =
              [status |-> status, code |-> code, events |-> events]]]

\* The events recorded with a success, by store_ingestion and
\* _record_replacement_canary_success.
SuccessEvents(c) ==
  {"ingestion_succeeded"} \cup IF Contract(c) THEN {Succeeded(c)} ELSE {}

\* Mutant of FailureEvents: the run's own event is left out.
FailureEventsAttemptOnly(c) == {"historical_ingestion_failed"}

\* The events recorded with a failure.
FailureEvents(c) ==
  {"historical_ingestion_failed"} \cup IF Contract(c) THEN {"ingestion_rejected"} ELSE {}
StaleEvents(c) ==
  {"historical_attempt_stale_failed"} \cup IF Contract(c) THEN FailureEvents(c) ELSE {}

Fault == faults < MaxFaults /\ faults' = faults + 1

\* run_historical_chunk's transaction: store_ingestion, which compares only the
\* status the runner has in memory, and the contract's success evidence.
Store(r) ==
  LET c == runner[r].chunk IN
  /\ runner[r].pc = "fetched"
  /\ FailureCode(c, runner[r].answer) = ""
  /\ CandlesAdmitted(c, runner[r].answer)
  /\ Transition(r)
  /\ Terminal(c, runner[r].attempt, "succeeded", "", SuccessEvents(c))
  /\ candles' = [candles EXCEPT ![c] = [attempt |-> runner[r].attempt,
                                        content |-> runner[r].answer]]
  /\ Set(r, IF runner[r].todo = {} THEN Idle ELSE InWave(runner[r].todo))
  /\ UNCHANGED <<installed, planned, registered, faults>>

\* The exception of a refused or failed write is recorded in its stead.
StoreFails(r) ==
  LET c == runner[r].chunk IN
  /\ runner[r].pc = "fetched"
  /\ FailureCode(c, runner[r].answer) = ""
  /\ MyRun(r).status = "running"
  /\ IF CandlesAdmitted(c, runner[r].answer) THEN Fault ELSE faults' = faults
  /\ Terminal(c, runner[r].attempt, "failed", "PERSISTENCE_FAILED", FailureEvents(c))
  /\ Set(r, Idle)
  /\ UNCHANGED <<installed, planned, registered, candles>>

\* _record_historical_failure.
RecordFailure(r) ==
  LET c == runner[r].chunk IN
  /\ runner[r].pc = "fetched"
  /\ FailureCode(c, runner[r].answer) # ""
  /\ MyRun(r).status = "running"
  /\ Terminal(c, runner[r].attempt, "failed", FailureCode(c, runner[r].answer), FailureEvents(c))
  /\ Set(r, Idle)
  /\ UNCHANGED <<installed, planned, registered, candles, faults>>

\* The attempt was resolved meanwhile: the write and the failure are refused.
LateOutcome(r) ==
  /\ runner[r].pc = "fetched"
  /\ MyRun(r).status # "running"
  /\ Set(r, Idle)
  /\ UNCHANGED <<installed, planned, registered, att, candles, faults>>

\* The process dies: nothing is left of it before its attempt is committed.
Crash(r) ==
  /\ runner[r].pc # "idle"
  /\ IF runner[r].pc \in {"fetching", "fetched"} THEN Fault ELSE faults' = faults
  /\ Set(r, Idle)
  /\ UNCHANGED <<installed, planned, registered, att, candles>>

-----------------------------------------------------------------------------
\* The operator.

\* resolve_stale_historical_attempt: any threshold, the runner alive or not.
ResolveStale(c) ==
  /\ Fault
  /\ DatasetOf[c] \notin registered
  /\ ~Locked(c)
  /\ \E n \in 1..Len(att[c]) :
       /\ att[c][n].status = "running"
       /\ Terminal(c, n, "failed", "STALE_ATTEMPT_RESOLVED", StaleEvents(c))
  /\ UNCHANGED <<installed, planned, registered, candles, runner>>

\* register_historical_dataset: one success of every chunk and nothing running.
ChunksComplete(d) ==
  \A c \in Chunks[d] :
    /\ ~HasStatus({c}, "running")
    /\ Cardinality({n \in 1..Len(att[c]) : att[c][n].status = "succeeded"}) = 1

\* The candles are the calendar's, or the sealed inventory's.
LegacyCoverage == \A c \in Chunks["v0"] : candles[c].content \in {"exact", "drift"}
ReplacementCoverage(d) == \A c \in Chunks[d] : candles[c].content = "exact"
Coverage(d) == IF d = "v0" THEN LegacyCoverage ELSE ReplacementCoverage(d)

\* verify_registration_readiness and registration_aggregates.
ReadinessVerified(d) == \A c \in Chunks[d] : Accepted(c)

\* _successor_comparison: with the registered predecessor.
SuccessorComparison == "v1" \in registered

\* What the command verifies before it registers a dataset.
Ready(d) ==
  /\ d \in Contracts => ReadinessVerified(d)
  /\ d = "v2" => SuccessorComparison

\* market_validate_dataset_registration, under a lock of the tables.
LegacyRegistrationValid == ChunksComplete("v0") /\ LegacyCoverage

\* 0019's validator counts rows so that no registration of a contract passes;
\* 0022 corrects it, for either contract; from 0027 on the successor must also
\* be the accepted acquisition and contain its predecessor's candles.
UncorrectedValid(d) == FALSE
CorrectedValid(d) == ChunksComplete(d) /\ ReplacementCoverage(d)
SuccessorAuthority == ReadinessVerified("v2") /\ ReplacementCoverage("v1")
RegistrationValid(d) ==
  IF d = "v0" THEN LegacyRegistrationValid
  ELSE IF Gov < 22 THEN UncorrectedValid(d)
  ELSE CorrectedValid(d) /\ ((d = "v2" /\ Gov >= 27) => SuccessorAuthority)

Register(d) ==
  /\ d \in planned \ registered
  /\ \A c \in Chunks[d] : ~Locked(c)
  /\ ChunksComplete(d) /\ Coverage(d) /\ Ready(d)
  /\ RegistrationValid(d)
  /\ registered' = registered \cup {d}
  /\ UNCHANGED <<installed, planned, att, candles, runner, faults>>

\* What the preflights look for besides the installed functions.
BeyondCanary == \E c \in ContractChunks \ {"canary1"} : att[c] # <<>>
ContractRegistered == registered \cap Contracts # {}
AcceptedSuccessor ==
  /\ "v2" \notin registered
  /\ \A c \in Chunks["v2"] : Len(att[c]) = 1 /\ HasStatus({c}, "succeeded")
MigrationAdmitted(m) ==
  /\ m = 21 => ~BeyondCanary
  /\ m = 22 => ~ContractRegistered
  /\ m = 27 => AcceptedSuccessor
Migrate ==
  /\ installed < Len(Migrations)
  /\ MigrationAdmitted(Migrations[installed + 1])
  /\ installed' = installed + 1
  /\ UNCHANGED <<planned, registered, att, candles, runner, faults>>

\* What the reversal of each migration refuses to leave behind.
FullEvidence == BeyondCanary
SuccessorEvidence == "v2" \in planned
SuccessorRestEvidence == \E c \in Range(Rest2) : att[c] # <<>>
SealEvidence == "v2" \in registered
Evidence(m) ==
  \/ m = 21 /\ FullEvidence
  \/ m = 22 /\ ContractRegistered
  \/ m = 25 /\ SuccessorEvidence
  \/ m = 26 /\ SuccessorRestEvidence
  \/ m = 27 /\ SealEvidence
Reverse ==
  /\ installed > 1
  /\ ~Evidence(Gov)
  /\ installed' = installed - 1
  /\ UNCHANGED <<planned, registered, att, candles, runner, faults>>

Next ==
  \/ PlanLegacy \/ PlanReplacement \/ PlanSuccessor
  \/ \E d \in Datasets : Register(d)
  \/ Migrate \/ Reverse
  \/ \E c \in AllChunks : ResolveStale(c)
  \/ \E r \in Runners :
       \/ \E c \in AllChunks : AcquireChunk(r, c)
       \/ AcquireCanary(r) \/ StartWave(r) \/ WaveChunk(r) \/ WaveEnds(r)
       \/ InsertAttempt(r) \/ Fetch(r) \/ Store(r) \/ StoreFails(r)
       \/ RecordFailure(r) \/ LateOutcome(r) \/ Crash(r)

Spec == Init /\ [][Next]_vars
-----------------------------------------------------------------------------
\* Properties.

\* Over all contracts at most one run is running: two commands may both have
\* passed the check of the run's insertion, and the attempt's trigger, which
\* takes one lock for both contracts, refuses the second (0021,
\* market_validate_acquisition_canary).
ContractsSingleFlight ==
  Cardinality({c \in ContractChunks : HasStatus({c}, "running")}) <= 1

\* The provider is asked once for a chunk under a contract, whatever waves and
\* single commands overlap, and a chunk of v0 succeeds at most once and is
\* never asked for again after that.
OneRequest ==
  /\ \A c \in ContractChunks : Len(att[c]) <= 1
  /\ \A c \in Chunks["v0"] : \A n \in 1..Len(att[c]) :
       att[c][n].status = "succeeded" => n = Len(att[c])

\* No other chunk of v1 is requested before the canary was accepted; one of v2
\* follows its own canary's acceptance or, under 0025, that of v1's.
CanaryFirst ==
  /\ (\E c \in Range(Rest1) : att[c] # <<>>) => Accepted("canary1")
  /\ (\E c \in Range(Rest2) : att[c] # <<>>) => Accepted("canary1") \/ Accepted("canary2")

\* A chunk has candles exactly when one of its attempts succeeded: that
\* attempt's, all that were expected and nothing else, although the database
\* alone would not notice a missing candle (_validate_chunk_response).
CandlesAreExpected ==
  \A c \in AllChunks :
    /\ {n \in 1..Len(att[c]) : att[c][n].status = "succeeded"} =
         IF candles[c] = NoCandles THEN {} ELSE {candles[c].attempt}
    /\ candles[c] # NoCandles =>
         candles[c].content = "exact" \/ (candles[c].content = "drift" /\ ~Contract(c))

\* A terminal run under a contract has exactly one event of its own and its
\* attempt exactly one outcome, of the same sense, whichever of the three
\* writers ended it (market_validate_acquisition_audit_completeness).
AuditPairs ==
  \A c \in ContractChunks : \A a \in Range(att[c]) :
    LET outcome == (a.events \cap AttemptEvents) \ {"historical_attempt_stale_failed"} IN
    /\ a.status = "running" => a.events = {}
    /\ a.status = "succeeded" => /\ a.events \cap RunEvents = {"ingestion_succeeded"}
                                  /\ Cardinality(outcome) = 1
                                  /\ "historical_ingestion_failed" \notin outcome
    /\ a.status = "failed" => /\ a.events \cap RunEvents = {"ingestion_rejected"}
                               /\ outcome = {"historical_ingestion_failed"}

\* From 0026 on the readiness report offers exactly the successor's chunks the
\* database admits, whatever failed or runs, unless v1 has a run running
\* (successor_gate8g_readiness).
ReadinessIsExact ==
  ("v2" \in planned \ registered /\ Gov >= 26 /\ ~HasStatus(Chunks["v1"], "running")) =>
    ReadyKeys = {c \in Range(Rest2) : AttemptAdmitted(c, Len(att[c]) + 1)}

\* A registered dataset is complete, and the successor is registered after its
\* predecessor (register_failed_break_dataset).
RegisteredIsComplete ==
  /\ \A d \in registered : \A c \in Chunks[d] :
       att[c] # <<>> /\ att[c][Len(att[c])].status = "succeeded"
  /\ "v2" \in registered => "v1" \in registered

\* No evidence is left under rules older than the ones that admitted it.
EvidenceIsGoverned ==
  /\ (\E c \in ContractChunks \ {"canary1"} : att[c] # <<>>) => Gov >= 21
  /\ registered \cap Contracts # {} => Gov >= 22
  /\ "v2" \in planned => Gov >= 25

\* A request is made only as the contracts allow it, whatever commands and
\* waves overlap: one at a time and once for each chunk, the canary first,
\* exactly where readiness offers it, and under rules that stay in force.
RequestsAreGoverned ==
  /\ ContractsSingleFlight
  /\ OneRequest
  /\ CanaryFirst
  /\ ReadinessIsExact
  /\ EvidenceIsGoverned

\* The candles of a chunk, the outcome and the events of its attempts and the
\* registration of its dataset tell one story, also when the answer comes after
\* a stale resolution, although store_ingestion does not read the run again.
OutcomesAreEarned ==
  /\ TypeOK
  /\ CandlesAreExpected
  /\ AuditPairs
  /\ RegisteredIsComplete
=============================================================================
