------------------------------ MODULE Discovery ------------------------------
(***************************************************************************)
(* Governed historical discovery (market/historical_discovery.py,          *)
(* market/provider_observed_successor.py, the run_discovery_wave command)  *)
(* and the database rules that migrations 0013-0018, 0023 and 0024 install.*)
(*                                                                         *)
(* A discovery plan is a list of chunks, each one provider request.  Plan  *)
(* v1 is superseded by v2 after its canary failed; v2 is executed canary   *)
(* first, under rules that successive migrations relax; v3 extends v2 and  *)
(* is executed in three stages.  A runner checks the rules in Python,      *)
(* under a lock on its chunk only, and then inserts an attempt, when the   *)
(* triggers check them again under the advisory lock of the plan.  It      *)
(* calls the provider without a lock and records the outcome.  Meanwhile   *)
(* an operator may resolve the attempt as stale with any threshold,        *)
(* supersede the plan, approve and seal it, or install and reverse a       *)
(* migration; and the runner may die.                                      *)
(*                                                                         *)
(* A hash that pins a plan, a request or an accepted outcome is equality   *)
(* with it.  Before migration 0017 the service applied the rules of the    *)
(* installed activation function, all this repository keeps of it.         *)
(***************************************************************************)
EXTENDS Naturals, Sequences, FiniteSets, Functions

CONSTANTS
  Runners,     \* processes that run discovery commands
  Rest2,       \* the chunks of v2 other than its canary, in wave order
  First3,      \* the first H1 chunks of v3 other than its canary's
  Rest3,       \* the remaining chunks of v3
  Answer,      \* what the provider's answer for each chunk may amount to
  MaxFree,     \* bound: attempts of a chunk of v1, and of v2 while no rule limits them
  MaxFaults    \* bound: deaths of runners, failed writes and stale resolutions

Plans == {"v1", "v2", "v3"}

Chunks ==
  [v1 |-> {"canary1"},
   v2 |-> {"canary2"} \cup Range(Rest2),
   v3 |-> {"canary3"} \cup First3 \cup Rest3]

AllChunks == UNION Range(Chunks)
PlanOf == [c \in AllChunks |-> CHOOSE p \in Plans : c \in Chunks[p]]
FirstH1 == {"canary3"} \cup First3

\* A chunk belongs to one plan and to one stage of it.
ASSUME ChunksAssumption ==
  /\ \A p, q \in Plans : p # q => Chunks[p] \cap Chunks[q] = {}
  /\ Rest2 \in Seq(Range(Rest2)) /\ "canary2" \notin Range(Rest2)
  /\ IsFiniteSet(First3) /\ "canary3" \notin First3
  /\ Rest3 \cap FirstH1 = {}

ASSUME BoundsAssumption == MaxFree \in [{"v1", "v2"} -> Nat] /\ MaxFaults \in Nat

\* The discovery migrations, in the order they are installed.
Migrations == <<14, 15, 16, 17, 18, 23, 24>>

VARIABLES
  installed,  \* index in Migrations of the last one installed
  plans,      \* HistoricalDiscoveryPlan rows
  superseded, \* whether v2's supersession of v1 is recorded
  sealed,     \* plans with sealed_at, an approval and a registration
  att,        \* the attempts of each chunk with their runs
  inv,        \* the inventory of each chunk
  runner,     \* what each runner is doing
  early,      \* whether v3 was created before 0023 governed its attempts
  faults      \* how many deaths, failed writes and stale resolutions there were

vars == <<installed, plans, superseded, sealed, att, inv, runner, early, faults>>

Gov == Migrations[installed]

\* DiscoveryFailureCode.
Codes ==
  {"", "PROVIDER_AUTH_ERROR", "PROVIDER_HTTP_ERROR", "PROVIDER_RESPONSE_MALFORMED",
   "PROVIDER_LIMIT_SUSPECTED", "PROVIDER_EVIDENCE_MISSING", "PERSISTENCE_FAILED",
   "STRUCTURE_INVALID", "STALE_ATTEMPT", "UNKNOWN_FAILURE"}
Attempt == [status : {"running", "succeeded", "failed"}, code : Codes]

\* An inventory: the attempt it was accepted from and what the provider sent.
\* "short" lacks six observations before the predecessor's H1 start.
NoInventory == [attempt |-> 0, content |-> ""]
Contents == {"accepted", "short"}

\* What a call of the provider comes to: an exception of the client, or a
\* response that lacks its evidence, is broken, holds H1 timestamps outside the
\* New York week, or has nothing wrong with it.
Exceptions == {"auth", "http", "malformed", "limit", "exception"}
Responses == {"unevidenced", "structure", "weekend"} \cup Contents
Inventory == [attempt : Nat, content : Contents \cup {""}]

Runner ==
  [pc : {"idle", "wave", "checked", "fetching", "fetched"}, chunk : AllChunks \cup {""},
   attempt : Nat, answer : {""} \cup Exceptions \cup Responses, wave : BOOLEAN]
Idle == [pc |-> "idle", chunk |-> "", attempt |-> 0, answer |-> "", wave |-> FALSE]
InWave == [pc |-> "wave", chunk |-> "", attempt |-> 0, answer |-> "", wave |-> TRUE]

TypeOK ==
  /\ installed \in 1..Len(Migrations)
  /\ plans \subseteq Plans
  /\ superseded \in BOOLEAN
  /\ sealed \subseteq plans
  /\ att \in [AllChunks -> Seq(Attempt)]
  /\ inv \in [AllChunks -> Inventory]
  /\ runner \in [Runners -> Runner]
  /\ early \in BOOLEAN
  /\ faults \in 0..MaxFaults

Attempts(c) == Range(att[c])
PlanAttempts(p) == UNION {Attempts(c) : c \in Chunks[p]}
Attempted(c) == att[c] # <<>>
HasStatus(S, status) == \E a \in S : a.status = status
Running(p) == HasStatus(PlanAttempts(p), "running")
RunningAnywhere == \E p \in Plans : Running(p)
Replacement(p) == superseded /\ p = "v2"

Init ==
  /\ installed = 1
  /\ plans = {"v1"}
  /\ superseded = FALSE
  /\ sealed = {}
  /\ att = [c \in AllChunks |-> <<>>]
  /\ inv = [c \in AllChunks |-> NoInventory]
  /\ runner = [r \in Runners |-> Idle]
  /\ early = FALSE
  /\ faults = 0

ASSUME AnswerAssumption == Answer \in [AllChunks -> SUBSET (Exceptions \cup Responses)]

-----------------------------------------------------------------------------
\* Plans and supersession.

\* create_discovery_plan: the plan and all its chunks, or nothing.
CreatePlan(p) ==
  /\ p \notin plans
  /\ plans' = plans \cup {p}
  /\ early' = (early \/ (p = "v3" /\ Gov < 23))
  /\ UNCHANGED <<installed, superseded, sealed, att, inv, runner, faults>>

\* The governing attempt of the supersession.
GoverningFailure ==
  /\ Attempted("canary1")
  /\ att["canary1"][1] = [status |-> "failed", code |-> "PROVIDER_HTTP_ERROR"]

\* supersede_discovery_plan.
SupersessionAdmitted ==
  /\ {"v1", "v2"} \subseteq plans
  /\ {"v1", "v2"} \cap sealed = {}
  /\ GoverningFailure
  /\ PlanAttempts("v2") = {}

\* market_validate_discovery_supersession also refuses a running v1 attempt.
SupersessionValid == SupersessionAdmitted /\ ~Running("v1") /\ ~superseded

Supersede ==
  /\ SupersessionValid
  /\ superseded' = TRUE
  /\ UNCHANGED <<installed, plans, sealed, att, inv, runner, early, faults>>

-----------------------------------------------------------------------------
\* Which attempts are admitted.

\* The canary's first attempt failed structurally, its second succeeded.
CanaryAttemptOne ==
  Attempted("canary2") /\ att["canary2"][1] = [status |-> "failed", code |-> "STRUCTURE_INVALID"]
CanaryAttemptTwo ==
  /\ Len(att["canary2"]) = 2
  /\ att["canary2"][2].status = "succeeded"
  /\ inv["canary2"] = [attempt |-> 2, content |-> "accepted"]
CanaryLineage == CanaryAttemptOne /\ CanaryAttemptTwo

\* The trigger on the attempts of a replacement plan: 0014 refuses them, 0015
\* admits the canary's first, 0016 its second after a structural failure, 0017
\* one of every other chunk after the canary's success.
FirstCanary(c) == c = "canary2" /\ PlanAttempts("v2") = {}
CanaryRetry(c) ==
  /\ c = "canary2"
  /\ Len(att[c]) = 1 /\ CanaryAttemptOne
  /\ \A d \in Range(Rest2) : ~Attempted(d)
AfterCanary(c) == CanaryLineage /\ c # "canary2" /\ ~Attempted(c)
ReplacementTrigger(c) ==
  /\ "v2" \notin sealed /\ ~RunningAnywhere
  /\ IF Gov = 14 THEN FALSE
     ELSE IF Gov = 15 THEN FirstCanary(c)
     ELSE IF Gov = 16 THEN CanaryRetry(c)
     ELSE AfterCanary(c)

\* _validate_replacement_canary_activation.
ReplacementAdmits(c) ==
  IF Gov < 17
  THEN ReplacementTrigger(c)
  ELSE "v2" \notin sealed /\ ~RunningAnywhere /\ CanaryLineage /\ c # "canary2" /\ ~Attempted(c)

\* The first H1 chunks that succeeded with six earlier observations.
Ready == {c \in FirstH1 : inv[c].content = "accepted"}

\* Mutant of SuccessorAdmits: the canary opens the remaining chunks too.
SuccessorAdmitsAfterCanary(c) ==
  /\ ~Attempted(c)
  /\ ~Running("v3")
  /\ ~HasStatus(PlanAttempts("v3"), "failed")
  /\ c # "canary3" => "canary3" \in Ready

\* assert_successor_attempt_permitted: one attempt, one at a time, none after
\* a failure, and the canary before the cross-instrument chunks before the rest.
SuccessorAdmits(c) ==
  /\ ~Attempted(c)
  /\ ~Running("v3")
  /\ ~HasStatus(PlanAttempts("v3"), "failed")
  /\ c \in First3 => "canary3" \in Ready
  /\ c \in Rest3 => Ready = FirstH1

\* The same rules as 0023 installs them.
SuccessorTrigger(c, n) ==
  /\ n = 1
  /\ \A a \in PlanAttempts("v3") : a.status = "succeeded"
  /\ \/ c = "canary3"
     \/ c \in First3 /\ "canary3" \in Ready
     \/ c \in Rest3 /\ Cardinality(Ready) = Cardinality(FirstH1)

\* Mutant of PermittedKeys: a running attempt is forgotten.
PermittedKeysWhileRunning ==
  LET stage == IF Ready = FirstH1 THEN Rest3
               ELSE IF "canary3" \in Ready THEN First3 ELSE {"canary3"}
  IN IF HasStatus(PlanAttempts("v3"), "failed")
     THEN {}
     ELSE {c \in stage : ~Attempted(c)}

\* successor_readiness: the chunks an operator is told may be executed now.
PermittedKeys ==
  LET stage == IF Ready = FirstH1 THEN Rest3
               ELSE IF "canary3" \in Ready THEN First3 ELSE {"canary3"}
  IN IF HasStatus(PlanAttempts("v3"), "failed") \/ Running("v3")
     THEN {}
     ELSE {c \in stage : ~Attempted(c)}
AcceptedKeys == {c \in Chunks["v3"] : inv[c].attempt # 0}
ReadinessStatus ==
  LET attempted == {c \in Chunks["v3"] : Attempted(c)}
      all == attempted = Chunks["v3"]
  IN IF "v3" \notin plans THEN "not_materialized"
     ELSE IF HasStatus(PlanAttempts("v3"), "failed") THEN "blocked_by_failed_attempt"
     ELSE IF Running("v3") THEN "attempt_in_progress"
     ELSE IF all /\ attempted # AcceptedKeys THEN "incomplete_evidence"
     ELSE IF all THEN "complete"
     ELSE IF PermittedKeys # {} THEN "open"
     ELSE "no_eligible_chunk"

\* begin_discovery_attempt.
ServiceAdmits(c) ==
  LET p == PlanOf[c] IN
  /\ p \in plans \ sealed
  /\ ~(superseded /\ p = "v1")
  /\ Replacement(p) => ReplacementAdmits(c)
  /\ p = "v3" => SuccessorAdmits(c)
  /\ ~HasStatus(Attempts(c), "succeeded") /\ ~HasStatus(Attempts(c), "running")

\* The triggers on an attempt's insertion, in the order of their names: the
\* plan's lock and the superseded plan, then the attempt's own lineage.
SupersededTrigger(c) ==
  /\ ~(superseded /\ PlanOf[c] = "v1")
  /\ Replacement(PlanOf[c]) => ReplacementTrigger(c)

AttemptTrigger(c, n) ==
  /\ PlanOf[c] \notin sealed
  /\ n = Len(att[c]) + 1
  /\ ~HasStatus(Attempts(c), "succeeded") /\ ~HasStatus(Attempts(c), "running")
  /\ (PlanOf[c] = "v3" /\ Gov >= 23) => SuccessorTrigger(c, n)
TriggersAdmit(c, n) == SupersededTrigger(c) /\ AttemptTrigger(c, n)

-----------------------------------------------------------------------------
\* Runners.

Set(r, state) == runner' = [runner EXCEPT ![r] = state]
Fetching(x) ==
  [pc |-> "fetching", chunk |-> x.chunk, attempt |-> x.attempt, answer |-> "", wave |-> x.wave]
Fetched(x, a) ==
  [pc |-> "fetched", chunk |-> x.chunk, attempt |-> x.attempt, answer |-> a, wave |-> x.wave]
Locked(c) == \E r \in Runners : runner[r].pc = "checked" /\ runner[r].chunk = c

\* begin_discovery_attempt's checks: the chunk's row stays locked until commit.
CheckChunk(r, c, wave) ==
  /\ ~Locked(c)
  /\ ServiceAdmits(c)
  /\ (PlanOf[c] # "v3" /\ ~Replacement(PlanOf[c])) => Len(att[c]) < MaxFree[PlanOf[c]]
  /\ Set(r, [pc |-> "checked", chunk |-> c, attempt |-> Len(att[c]) + 1,
             answer |-> "", wave |-> wave])
  /\ UNCHANGED <<installed, plans, superseded, sealed, att, inv, early, faults>>

\* discover_historical_inventory: one named chunk.
Discover(r, c) == runner[r].pc = "idle" /\ CheckChunk(r, c, FALSE)

\* run_discovery_wave: its own checks, once, before the first chunk.
StartWave(r) ==
  /\ runner[r].pc = "idle"
  /\ "v2" \in plans
  /\ inv["canary2"].attempt # 0
  /\ ~RunningAnywhere
  /\ Set(r, InWave)
  /\ UNCHANGED <<installed, plans, superseded, sealed, att, inv, early, faults>>

\* The next chunk of the wave: chunks whose attempts all succeeded are skipped,
\* and any other attempted chunk stops the command.
WaveNext ==
  LET open == {i \in 1..Len(Rest2) : Attempts(Rest2[i]) = {}
                  \/ \E a \in Attempts(Rest2[i]) : a.status # "succeeded"}
  IN {Rest2[i] : i \in {i \in open : \A j \in open : i <= j}}
WaveChunk(r) ==
  /\ runner[r].pc = "wave"
  /\ \E c \in WaveNext : ~Attempted(c) /\ CheckChunk(r, c, TRUE)

\* The command ends: nothing left, bounded by --max-chunks, or refused.
WaveEnds(r) ==
  /\ runner[r].pc = "wave"
  /\ Set(r, Idle)
  /\ UNCHANGED <<installed, plans, superseded, sealed, att, inv, early, faults>>

\* The attempt and its run are inserted and committed.
InsertAttempt(r) ==
  LET c == runner[r].chunk IN
  /\ runner[r].pc = "checked"
  /\ TriggersAdmit(c, runner[r].attempt)
  /\ att' = [att EXCEPT ![c] = Append(@, [status |-> "running", code |-> ""])]
  /\ Set(r, Fetching(runner[r]))
  /\ UNCHANGED <<installed, plans, superseded, sealed, inv, early, faults>>

\* A trigger raises and the transaction is rolled back.
InsertRefused(r) ==
  /\ runner[r].pc = "checked"
  /\ ~TriggersAdmit(runner[r].chunk, runner[r].attempt)
  /\ Set(r, Idle)
  /\ UNCHANGED <<installed, plans, superseded, sealed, att, inv, early, faults>>

\* fetch_historical_inventory, outside every transaction.
Fetch(r) ==
  /\ runner[r].pc = "fetching"
  /\ \E a \in Answer[runner[r].chunk] :
       Set(r, Fetched(runner[r], a))
  /\ UNCHANGED <<installed, plans, superseded, sealed, att, inv, early, faults>>

\* _observation_aligned: from v2 on an H1 timestamp is any whole hour.
Aligned(c, a) == a = "weekend" => PlanOf[c] # "v1"

\* _validate_response.
ResponseValid(c, a) == a \in Responses \ {"unevidenced", "structure"} /\ Aligned(c, a)

\* _classify_failure, and the codes _validate_response raises.
FailureCode(a) ==
  IF a = "auth" THEN "PROVIDER_AUTH_ERROR"
  ELSE IF a = "http" THEN "PROVIDER_HTTP_ERROR"
  ELSE IF a = "malformed" THEN "PROVIDER_RESPONSE_MALFORMED"
  ELSE IF a = "limit" THEN "PROVIDER_LIMIT_SUSPECTED"
  ELSE IF a = "exception" THEN "UNKNOWN_FAILURE"
  ELSE IF a = "unevidenced" THEN "PROVIDER_EVIDENCE_MISSING"
  ELSE "STRUCTURE_INVALID"

\* semantic_inventory_hashes: what the inventory is recognised by.
Content(a) == IF a = "short" THEN "short" ELSE "accepted"

\* market_validate_discovery_observation: until 0016 the New York week applies
\* to every plan.
ObservationsAdmitted(c, a) == a = "weekend" => PlanOf[c] # "v1" /\ Gov >= 16

\* Reading the answer validates it.
Valid(r) == ResponseValid(runner[r].chunk, runner[r].answer)

MyRun(r) == att[runner[r].chunk][runner[r].attempt]

StillRunning(r) == MyRun(r).status = "running"
Terminal(c, n, status, code) ==
  att' = [att EXCEPT ![c] = [@ EXCEPT ![n] = [status |-> status, code |-> code]]]

\* _record_failure: the run, its evidence and its audit event together.
RecordFailure(r) ==
  /\ runner[r].pc = "fetched"
  /\ ~Valid(r)
  /\ StillRunning(r)
  /\ Terminal(runner[r].chunk, runner[r].attempt, "failed", FailureCode(runner[r].answer))
  /\ Set(r, Idle)
  /\ UNCHANGED <<installed, plans, superseded, sealed, inv, early, faults>>

\* _record_success: the inventory, its observations and the run together.
RecordSuccess(r) ==
  LET c == runner[r].chunk IN
  /\ runner[r].pc = "fetched"
  /\ Valid(r) /\ ObservationsAdmitted(c, runner[r].answer)
  /\ StillRunning(r)
  /\ Terminal(c, runner[r].attempt, "succeeded", "")
  /\ inv' = [inv EXCEPT ![c] = [attempt |-> runner[r].attempt, content |-> Content(runner[r].answer)]]
  /\ Set(r, IF runner[r].wave THEN InWave ELSE Idle)
  /\ UNCHANGED <<installed, plans, superseded, sealed, early, faults>>

\* The run is no longer running: the late outcome is refused.
LateOutcome(r) ==
  /\ runner[r].pc = "fetched"
  /\ ~StillRunning(r)
  /\ Set(r, Idle)
  /\ UNCHANGED <<installed, plans, superseded, sealed, att, inv, early, faults>>

Fault == faults < MaxFaults /\ faults' = faults + 1

\* The transaction of _record_success is rolled back: the database refuses the
\* observations, or something else fails.
Unstored(r) ==
  \/ ~ObservationsAdmitted(runner[r].chunk, runner[r].answer) /\ faults' = faults
  \/ Fault

\* Mutant of PersistenceFails: the inventory of the failed transaction stays.
PersistenceFailsPartly(r) ==
  /\ runner[r].pc = "fetched"
  /\ Valid(r) /\ StillRunning(r)
  /\ Unstored(r)
  /\ Terminal(runner[r].chunk, runner[r].attempt, "failed", "PERSISTENCE_FAILED")
  /\ inv' = [inv EXCEPT ![runner[r].chunk] = [attempt |-> runner[r].attempt,
                                               content |-> Content(runner[r].answer)]]
  /\ Set(r, Idle)
  /\ UNCHANGED <<installed, plans, superseded, sealed, early>>

\* run_discovery_chunk records the failure; an exception of _record_failure is
\* swallowed and leaves the attempt running.
PersistenceFails(r) ==
  /\ runner[r].pc = "fetched"
  /\ Valid(r) /\ StillRunning(r)
  /\ \/ /\ Unstored(r)
        /\ Terminal(runner[r].chunk, runner[r].attempt, "failed", "PERSISTENCE_FAILED")
     \/ Fault /\ att' = att
  /\ Set(r, Idle)
  /\ UNCHANGED <<installed, plans, superseded, sealed, inv, early>>

\* The process dies: before its attempt is committed nothing is left of it.
Crash(r) ==
  /\ runner[r].pc # "idle"
  /\ IF runner[r].pc \in {"fetching", "fetched"} THEN Fault ELSE faults' = faults
  /\ Set(r, Idle)
  /\ UNCHANGED <<installed, plans, superseded, sealed, att, inv, early>>

-----------------------------------------------------------------------------
\* The operator.

\* resolve_stale_discovery_attempt: any threshold, the runner alive or not.
ResolveStale(c) ==
  /\ Fault
  /\ PlanOf[c] \notin sealed
  /\ ~Locked(c)
  /\ \E n \in 1..Len(att[c]) :
       att[c][n].status = "running" /\ Terminal(c, n, "failed", "STALE_ATTEMPT")
  /\ UNCHANGED <<installed, plans, superseded, sealed, inv, runner, early>>

\* _registration_hashes and the accepted digests: every chunk with its accepted
\* inventory, nothing running, and the attempts of the accepted execution.
Complete(p) ==
  /\ \A c \in Chunks[p] : inv[c].content = "accepted"
  /\ ~Running(p)
  /\ \A c \in Chunks[p] : Len(att[c]) = IF c = "canary2" THEN 2 ELSE 1

\* market_validate_gate5_registration: v2 from 0018, v3 from 0024, where the
\* evidence of v3 must extend the complete evidence of v2.
Gate5Valid == Gov >= 18 /\ superseded /\ CanaryLineage /\ Complete("v2")

SuccessorSealValid ==
  /\ Gov >= 24
  /\ \A a \in PlanAttempts("v3") : a.status = "succeeded"
  /\ Complete("v3")
  /\ Complete("v2")
SealValid(p) == (p = "v2" /\ Gate5Valid) \/ (p = "v3" /\ SuccessorSealValid)

\* approve_and_register_discovery locks the plan and its chunks.
ApproveAdmitted(p) ==
  /\ p \in plans \ sealed
  /\ \A c \in Chunks[p] : ~Locked(c)
  /\ p # "v1"
  /\ p = "v2" => superseded /\ CanaryLineage
  /\ Complete(p)

ApproveAndRegister(p) ==
  /\ ApproveAdmitted(p)
  /\ SealValid(p)
  /\ sealed' = sealed \cup {p}
  /\ UNCHANGED <<installed, plans, superseded, att, inv, runner, early, faults>>

\* The preflights check the installed functions only; 0018 also refuses an
\* earlier approval.
Migrate ==
  /\ installed < Len(Migrations)
  /\ Gov = 17 => sealed = {}
  /\ installed' = installed + 1
  /\ UNCHANGED <<plans, superseded, sealed, att, inv, runner, early, faults>>

\* What the reversal of each migration looks for, and refuses to leave behind.
CanaryEvidence == superseded /\ PlanAttempts("v2") # {}

RetryEvidence == superseded /\ \E c \in Chunks["v2"] : Len(att[c]) >= 2
FullEvidence == superseded /\ \E c \in Range(Rest2) : Attempted(c)
RegistrationEvidence == sealed # {}
SuccessorEvidence == "v3" \in plans
SuccessorAuthorityEvidence == "v3" \in sealed
Evidence(m) ==
  \/ m = 15 /\ CanaryEvidence
  \/ m = 16 /\ RetryEvidence
  \/ m = 17 /\ FullEvidence
  \/ m = 18 /\ RegistrationEvidence
  \/ m = 23 /\ SuccessorEvidence
  \/ m = 24 /\ SuccessorAuthorityEvidence
Reverse ==
  /\ installed > 1
  /\ ~Evidence(Gov)
  /\ installed' = installed - 1
  /\ UNCHANGED <<plans, superseded, sealed, att, inv, runner, early, faults>>

Next ==
  \/ \E p \in Plans : CreatePlan(p) \/ ApproveAndRegister(p)
  \/ Supersede \/ Migrate \/ Reverse
  \/ \E c \in AllChunks : ResolveStale(c)
  \/ \E r \in Runners :
       \/ \E c \in AllChunks : Discover(r, c)
       \/ StartWave(r) \/ WaveChunk(r) \/ WaveEnds(r)
       \/ InsertAttempt(r) \/ InsertRefused(r) \/ Fetch(r)
       \/ RecordFailure(r) \/ RecordSuccess(r) \/ LateOutcome(r)
       \/ PersistenceFails(r) \/ Crash(r)

Spec == Init /\ [][Next]_vars
-----------------------------------------------------------------------------
\* Properties.

\* At most one attempt of a replacement plan, or of v3 once 0023 governs it,
\* runs at any time, although the service's own check is stale when the attempt
\* is inserted: two runners may have passed it for two chunks
\* (begin_discovery_attempt).
SingleFlight ==
  \A p \in {"v2", "v3"} :
    (p = "v3" /\ ~early) \/ Replacement(p) =>
      Cardinality({c \in Chunks[p] : HasStatus(Attempts(c), "running")}) <= 1

\* The successor's stages: a cross-instrument chunk is attempted only after the
\* canary's inventory, the rest only after every first H1 inventory, was
\* accepted with six earlier observations, and no chunk is attempted twice
\* (provider_observed_successor.py, MAX_ATTEMPTS_PER_CHUNK).
StagedOrder ==
  /\ (\E c \in First3 : Attempted(c)) => "canary3" \in Ready
  /\ (\E c \in Rest3 : Attempted(c)) => Ready = FirstH1
  /\ \A c \in Chunks["v3"] : Len(att[c]) <= 1

\* An inventory is the result of the one attempt of its chunk that succeeded;
\* an attempt resolved as stale or failed leaves none, however late the
\* provider's answer arrives (_record_success).
InventoryIsEarned ==
  \A c \in AllChunks :
    {n \in 1..Len(att[c]) : att[c][n].status = "succeeded"} =
      IF inv[c].attempt = 0 THEN {} ELSE {inv[c].attempt}

\* What is sealed is the accepted execution: v2 with the failed and the
\* successful canary attempt and one success elsewhere, v3 with one success
\* everywhere and its predecessor complete (approve_and_register_discovery).
SealedIsAccepted ==
  \A p \in sealed :
    /\ \A c \in Chunks[p] : /\ att[c][Len(att[c])].status = "succeeded"
                              /\ inv[c].content = "accepted"
                              /\ Len(att[c]) = IF c = "canary2" THEN 2 ELSE 1
    /\ p = "v2" => superseded /\ CanaryAttemptOne
    /\ p = "v3" => \A c \in Chunks["v2"] : inv[c].content = "accepted"

\* Evidence is never left under rules older than the ones that admitted it:
\* a reversal that would do so is refused (remove_* of 0015-0018, reverse of
\* 0023 and 0024).
EvidenceIsGoverned ==
  /\ superseded =>
       /\ PlanAttempts("v2") # {} => Gov >= 15
       /\ Len(att["canary2"]) >= 2 => Gov >= 16
       /\ (\E c \in Range(Rest2) : Attempted(c)) => Gov >= 17
  /\ "v2" \in sealed => Gov >= 18
  /\ "v3" \in sealed => Gov >= 24

\* Once v1 is superseded none of its attempts runs or starts, even one whose
\* runner had passed the service's check before (market_reject_superseded_*).
SupersededIsClosed == superseded => ~Running("v1")

\* The readiness report offers exactly the chunks the database would admit,
\* and says complete exactly when every chunk has its result, whatever has
\* failed, is running or was resolved meanwhile (successor_readiness).
ReadinessIsExact ==
  /\ ("v3" \in plans \ sealed /\ Gov >= 23) =>
       PermittedKeys = {c \in Chunks["v3"] : AttemptTrigger(c, Len(att[c]) + 1)}
  /\ ReadinessStatus = "complete" <=>
       \A c \in Chunks["v3"] : Len(att[c]) = 1 /\ inv[c].attempt = 1
  /\ ReadinessStatus # "incomplete_evidence"

\* No attempt is made, or left behind, outside the rules in force: one at a
\* time, in the order of the stages, never for a superseded plan, and under
\* rules that are not older than the ones that admitted it.
AttemptsAreGoverned ==
  /\ SingleFlight
  /\ StagedOrder
  /\ EvidenceIsGoverned
  /\ SupersededIsClosed

\* What a plan's results rest on was earned by its attempts: rows keep their
\* types, an inventory is that of the one attempt that succeeded, and only
\* complete executions with accepted inventories are sealed.
OutcomesAreEarned ==
  /\ TypeOK
  /\ InventoryIsEarned
  /\ SealedIsAccepted
=============================================================================
