--------------------------------- MODULE Study ---------------------------------
(***************************************************************************)
(* The governed failed-break v2 study: the three one-shot commands that    *)
(* write its evidence (S0, S1, exploratory returns), the v1 S0 command     *)
(* that writes to the same JobRun table, and the read-only verification of *)
(* the accepted S1 outcome.                                                *)
(*                                                                         *)
(* Each command runs one database transaction (READ COMMITTED).  Any       *)
(* number of operators may start them, again and at the same time; a       *)
(* process may be killed between any two steps, and a COMMIT already sent  *)
(* may still be carried out by the server after its client has died.       *)
(* Returns run in a child process that its parent watches.  A governed     *)
(* file is one artifact; it is intact while its digest matches its pin.    *)
(***************************************************************************)
EXTENDS ReturnCalc, Sequences

CONSTANTS
    Procs,      \* operators' processes
    Fragile,    \* the artifacts that may change (and be restored)
    Cohorts,    \* the sealed evidence the returns may find
    DevelopmentEnd, \* the end of the development partition
    MaxRuns,    \* bound: commands started
    MaxFaults   \* bound: kills, timeouts, drifts and restores

ASSUME StudyAssumption == MaxRuns \in Nat /\ MaxFaults \in Nat

(* What the database and _validate_bar hold of the sealed evidence: times   *)
(* are hours, a bar's open lies between its low and its high.               *)
ASSUME CohortsAssumption ==
    \A e \in Cohorts :
        /\ e.dir \in {"long", "short"}
        /\ e.entry \in Nat
        /\ e.h1 \subseteq Nat /\ e.conv \subseteq Nat
        /\ \A s \in e.h1 :
             /\ e.bar[s].low \in Int /\ e.bar[s].open \in Int /\ e.bar[s].high \in Int
             /\ e.bar[s].low <= e.bar[s].open /\ e.bar[s].open <= e.bar[s].high
        /\ e.spread \in Int /\ e.stop \in Int /\ e.target \in Int

V1Keys == [v1_s0 |-> 1, v1_s0_accepted |-> 2, v1_s1 |-> 3]
V1Jobs == DOMAIN V1Keys
Stages == {"s0", "s1", "returns"}
AcceptedIds == [s0 |-> 4, s1 |-> 5, strategy |-> 2]

None == [none |-> TRUE]

VARIABLES
    intact,     \* the fragile artifacts whose digest matches
    jobs,       \* committed JobRun rows
    strategies, \* primary keys of the committed v2 StrategyVersion rows
    details,    \* the job whose S1 detail rows are committed (set of keys)
    jobSeq, strategySeq, \* the next primary keys
    flight,     \* transactions whose COMMIT was sent by a client that died
    proc,       \* the processes
    runs, faults

vars == <<intact, jobs, strategies, details, jobSeq, strategySeq, flight, proc, runs, faults>>

-----------------------------------------------------------------------------
(* The committed rows.  JobRun.idempotency_key: an S0 key holds the         *)
(* strategy's primary key, those of v2 S1 and of the returns are fixed.     *)

NoTxn == [stage |-> "none", pk |-> 0, strategy |-> 0, s0 |-> 0, seen |-> {}, report |-> None]

IdempotencyKey(t) ==
    IF t.stage \in {"s1", "returns"} THEN <<t.stage>> ELSE <<t.stage, t.strategy>>

IsJob(t) == t.pk # 0
OfStage(stage) == {j \in jobs : j.stage = stage}

(* Uncommitted transactions other than p's, those in flight included.      *)
OpenTxns(p) == {proc[q].txn : q \in Procs \ {p}} \cup flight

(* An insert waits for an uncommitted row with its key and fails on a      *)
(* committed one.                                                          *)
JobKeyWaits(p, t) == \E u \in OpenTxns(p) : IsJob(u) /\ IdempotencyKey(u) = IdempotencyKey(t)

JobKeyTaken(t) == \E j \in jobs : IdempotencyKey(j) = IdempotencyKey(t)

(* StrategyVersion.content_hash and (definition, version) are unique.      *)
StrategyWaits(p) == \E u \in OpenTxns(p) : u.stage = "s0" /\ u.strategy # 0
StrategyTaken == strategies # {}

-----------------------------------------------------------------------------
(* The governance loaders: the artifacts whose digest each one checks.     *)

LoadV2Policy == {"detector"}
LoadS0Preregistration == {"s0_preregistration"}
LoadS0Outcome == {"s0_outcome"} \cup LoadS0Preregistration
LoadS1Policy == {"s1_policy"}
InspectS1Authorization == {"s1_authorization"}
VerifySources == {"repository"}
LoadS1Outcome == {"s1_outcome"} \cup InspectS1Authorization
LoadS1Acceptance == {"s1_outcome"}
VerifyGeometry == {"geometry"} \cup LoadS1Acceptance
LoadCandidatePolicy == {"s2_candidate"}
LoadGeometryV1 == {"geometry_v1"}
LoadPolicyV1 == {"s2_v1"} \cup LoadCandidatePolicy \cup LoadGeometryV1
LoadS2Policy == {"s2_v2"} \cup LoadPolicyV1 \cup VerifyGeometry
CalculatorHistory == {"calculator_v1"} \cup LoadS2Policy
CalculatorPreregistration == {"calculator"} \cup CalculatorHistory
RunnerHistory == {"runner_v1"} \cup CalculatorHistory \cup LoadS2Policy
RunnerPreregistration == {"runner"} \cup RunnerHistory \cup CalculatorPreregistration
FirstAuthorization == {"authorization1"}
FirstFailure == {"failure1"} \cup FirstAuthorization
SecondAuthorization == {"authorization2"}
SecondFailure == {"failure2"} \cup SecondAuthorization
ThirdAuthorization == {"authorization3"}
ThirdFailure == {"failure3"} \cup ThirdAuthorization
Rehearsal == {"rehearsal"}

ReturnAuthorization ==
    {"return_authorization"} \cup FirstFailure \cup SecondFailure \cup ThirdFailure
    \cup Rehearsal \cup RunnerPreregistration
ExecutionEnvironment == {"environment"}
RequireReturnAuthorization == ReturnAuthorization \cup ExecutionEnvironment
GovernedEvents == VerifyGeometry

(* validate_registered_successor, _validate_dataset_contract: the sealed   *)
(* dataset, its registration and its candles.                              *)
SealedDataset == {"dataset"}

Holds(files) == files \cap Fragile \subseteq intact

-----------------------------------------------------------------------------
(* Processes *)

Idle == [op |-> "none", pc |-> "idle", txn |-> NoTxn, seen |-> {}, event |-> None,
         watched |-> TRUE, told |-> "none", mine |-> 0, late |-> FALSE]

Is(p, op, pc) == proc[p].op = op /\ proc[p].pc = pc
Become(p, record) == proc' = [proc EXCEPT ![p] = record]
Goto(p, pc) == Become(p, [proc[p] EXCEPT !.pc = pc])
Verify(p, pc, files) == Become(p, [proc[p] EXCEPT !.pc = pc, !.seen = @ \cup files])

(* The transaction is rolled back and the operator is told why. *)

Report(p, told) == Become(p, [proc[p] EXCEPT !.pc = "done", !.txn = NoTxn, !.told = told])
Refuse(p) == Report(p, "refused")

World == <<intact, jobs, strategies, details, jobSeq, strategySeq, flight, runs, faults>>

(* Check(p, ok, pc, files): one verification step of a command. *)
Check(p, ok, pc, files) ==
    /\ IF ok /\ Holds(files) THEN Verify(p, pc, files) ELSE Refuse(p)
    /\ UNCHANGED World

Start(p, op) ==
    /\ proc[p].pc \in {"idle", "done"}
    /\ runs < MaxRuns
    /\ runs' = runs + 1
    /\ Become(p, [Idle EXCEPT !.op = op, !.pc = "begin", !.late = OfStage("returns") # {}])
    /\ UNCHANGED <<intact, jobs, strategies, details, jobSeq, strategySeq, flight, faults>>

(* Inserting the JobRun: the sequence moves on whatever becomes of the row. *)
InsertJob(p, pc, t) ==
    /\ ~JobKeyWaits(p, t)
    /\ IF JobKeyTaken(t)
       THEN Refuse(p)
       ELSE Become(p, [proc[p] EXCEPT !.pc = pc, !.txn = [t EXCEPT !.pk = jobSeq],
                          !.mine = jobSeq])
    /\ jobSeq' = jobSeq + 1
    /\ UNCHANGED <<intact, jobs, strategies, details, strategySeq, flight, runs, faults>>

(* The server carries out the COMMIT of transaction t. *)
Apply(t) ==
    /\ jobs' = jobs \cup {t}
    /\ strategies' = IF t.stage = "s0" THEN strategies \cup {t.strategy} ELSE strategies
    /\ details' = IF t.stage = "s1" THEN details \cup {t.pk} ELSE details

-----------------------------------------------------------------------------
(* execute_v2_s0_once *)

S0Begin(p) ==
    /\ Is(p, "s0", "begin")
    /\ Check(p, OfStage("s0") = {}, "strategy", LoadS0Preregistration)

(* _create_v2_strategy *)
S0CreateStrategy(p) ==
    /\ Is(p, "s0", "strategy")
    /\ ~StrategyWaits(p)
    /\ IF StrategyTaken \/ ~Holds(LoadV2Policy)
       THEN Refuse(p) /\ UNCHANGED strategySeq
       ELSE /\ Become(p, [proc[p] EXCEPT !.pc = "validate", !.seen = @ \cup LoadV2Policy,
                          !.txn = [NoTxn EXCEPT !.stage = "s0", !.strategy = strategySeq]])
            /\ strategySeq' = strategySeq + 1
    /\ UNCHANGED <<intact, jobs, strategies, details, jobSeq, flight, runs, faults>>

(* validate_v2_s0_prerequisites and derive_v2_s0_numerical_evidence: the   *)
(* strategy's key is held until the transaction ends.                      *)
S0Validate(p) ==
    /\ Is(p, "s0", "validate")
    /\ Check(p, TRUE, "insert", LoadS0Preregistration \cup LoadV2Policy \cup SealedDataset)

S0Insert(p) ==
    /\ Is(p, "s0", "insert")
    /\ InsertJob(p, "send", [proc[p].txn EXCEPT !.seen = proc[p].seen])

-----------------------------------------------------------------------------
(* run_s0 of v1: get_or_create under a key of its own configuration.  The  *)
(* three configurations of the study's history are stored already; this is *)
(* a further one.                                                          *)
V1Job == [NoTxn EXCEPT !.stage = "v1_extra", !.strategy = 1]

V1Get(p) ==
    /\ Is(p, "v1", "begin")
    /\ IF ~Holds(SealedDataset) THEN Refuse(p)
       ELSE IF JobKeyTaken(V1Job) THEN Report(p, "ok") ELSE Goto(p, "insert")
    /\ UNCHANGED World

(* The create; when another process was first, its row is taken instead.   *)
V1Create(p) ==
    /\ Is(p, "v1", "insert")
    /\ ~JobKeyWaits(p, V1Job)
    /\ IF JobKeyTaken(V1Job)
       THEN Report(p, "ok")
       ELSE Become(p, [proc[p] EXCEPT !.pc = "send", !.txn = [V1Job EXCEPT !.pk = jobSeq], !.mine = jobSeq])
    /\ jobSeq' = jobSeq + 1
    /\ UNCHANGED <<intact, jobs, strategies, details, strategySeq, flight, runs, faults>>

-----------------------------------------------------------------------------
(* execute_authorized_v2_s1 *)

(* select_persistent_v2_s0_evidence: the stored configuration hash, and so *)
(* the selection, contains the strategy's primary key.                     *)
SelectedS0 == {j \in OfStage("s0") : j.strategy = AcceptedIds.strategy}
S0Accepted == Cardinality(SelectedS0) = 1 /\ Cardinality(OfStage("s0")) = 1

(* _verify_lineage: the accepted operational ids. *)
\* Mutant of S1LineageHolds.
S1LineageHolds_AnyJob == strategies = {AcceptedIds.strategy}

S1LineageHolds ==
    /\ strategies = {AcceptedIds.strategy}
    /\ \A j \in SelectedS0 : j.pk = AcceptedIds.s0

(* _observed_pre_state, _assert_pristine *)

S1Pristine ==
    /\ Cardinality(jobs) = Cardinality(V1Jobs) + 1
    /\ details = {}
    /\ OfStage("s1") = {}

S1Begin(p) ==
    /\ Is(p, "s1", "begin")
    /\ Check(p, TRUE, "inputs", InspectS1Authorization \cup VerifySources)

(* _validated_inputs, first the accepted S0 evidence ... *)
S1Inputs(p) ==
    /\ Is(p, "s1", "inputs")
    /\ Check(p, S0Accepted, "lineage", LoadS1Policy \cup LoadS0Outcome \cup LoadV2Policy \cup SealedDataset)

(* ... then the lineage and the exact state of the database. *)
S1Lineage(p) ==
    /\ Is(p, "s1", "lineage")
    /\ Check(p, S1LineageHolds /\ S1Pristine, "project", {})

(* project_v2_s1 must give the authorised projection. *)
S1Project(p) ==
    /\ Is(p, "s1", "project")
    /\ Check(p, TRUE, "insert", SealedDataset)

(* persist_projection: the JobRun and every detail row. *)
S1Persist(p) ==
    /\ Is(p, "s1", "insert")
    /\ InsertJob(p, "send",
          [NoTxn EXCEPT !.stage = "s1", !.strategy = AcceptedIds.strategy,
                        !.s0 = AcceptedIds.s0, !.seen = proc[p].seen])

-----------------------------------------------------------------------------
(* verify_persistent_v2_s1_outcome, read only *)

SelectedS1 == {j \in OfStage("s1") : j.strategy = AcceptedIds.strategy}

(* _application_state: the exact number of rows of every table. *)
ApplicationState ==
    /\ Cardinality(jobs) = Cardinality(V1Jobs) + 2
    /\ Cardinality(details) = 1

(* reconstruct_v2_s1_outcome: the stored detail rows are the S1 job's. *)
StoredEvidence == \A j \in SelectedS1 : details = {j.pk}
V1Preserved == \A stage \in V1Jobs : \E j \in jobs : j.stage = stage
InventoryEvidence == SealedDataset

VerifySelect(p) ==
    /\ Is(p, "verify", "begin")
    /\ Check(p, S0Accepted /\ Cardinality(SelectedS1) = 1, "reconstruct", LoadS1Outcome \cup LoadS0Outcome)

VerifyReconstructed(p) ==
    /\ Is(p, "verify", "reconstruct")
    /\ IF /\ Holds(InventoryEvidence)
          /\ ApplicationState /\ StoredEvidence /\ V1Preserved
          /\ \A j \in SelectedS1 : j.pk = AcceptedIds.s1
       THEN Report(p, "accepted")
       ELSE Refuse(p)
    /\ UNCHANGED World

-----------------------------------------------------------------------------
(* read_research_once of the geometry: read only, one snapshot             *)

GeometryBegin(p) ==
    /\ Is(p, "geometry", "begin")
    /\ Check(p, TRUE, "read", LoadS1Acceptance)

(* prepare_source: the job, its lineage and its setups are the accepted    *)
(* ones.                                                                   *)
GeometrySource ==
    /\ Cardinality(OfStage("s1")) = 1
    /\ \A j \in OfStage("s1") : j.pk = AcceptedIds.s1 /\ j.strategy = AcceptedIds.strategy
    /\ details = {AcceptedIds.s1}

GeometryRead(p) ==
    /\ Is(p, "geometry", "read")
    /\ IF Holds(LoadS1Acceptance \cup SealedDataset) /\ GeometrySource
       THEN Report(p, "accepted")
       ELSE Refuse(p)
    /\ UNCHANGED World

(* The cohort of the return study: an event whose horizon reaches the end  *)
(* of development was purged from it.                                      *)
GeometryAdmits(e) == Horizon(e) # NoTime /\ Horizon(e) < DevelopmentEnd
GovernedCohort == {e \in Cohorts : GeometryAdmits(e)}

-----------------------------------------------------------------------------
(* execute_persistent: the parent checks the governance, the child works.  *)

(* verify_return_blind_lineage *)
ReturnAnchors ==
    /\ Cardinality(SelectedS0) = 1 /\ Cardinality(SelectedS1) = 1
    /\ \A j \in SelectedS0 : j.pk = AcceptedIds.s0
    /\ \A j \in SelectedS1 : j.pk = AcceptedIds.s1

LineageHolds == ReturnAnchors /\ ApplicationState /\ OfStage("returns") = {}
LineageFiles == LoadS1Outcome \cup LoadS2Policy \cup VerifyGeometry \cup LoadS0Outcome \cup SealedDataset

ReturnBegin(p) ==
    /\ Is(p, "returns", "begin")
    /\ Check(p, TRUE, "lineage", RunnerPreregistration \cup RequireReturnAuthorization \cup GovernedEvents)

(* The child fails: its error reaches the parent if there is one. *)
ChildFails(p, event) ==
    Become(p, [proc[p] EXCEPT !.pc = IF proc[p].watched THEN "error" ELSE "done",
                              !.txn = NoTxn, !.event = event])

ChildStep(p, ok, pc, files) ==
    /\ IF ok /\ Holds(files) THEN Verify(p, pc, files) ELSE ChildFails(p, proc[p].event)
    /\ UNCHANGED World

ChildLineage(p) ==
    /\ Is(p, "returns", "lineage")
    /\ ChildStep(p, LineageHolds, "absent", LineageFiles)

(* ensure_absent, then the first progress message: writing to the pipe of  *)
(* a dead parent fails.                                                    *)
ChildAbsent(p) ==
    /\ Is(p, "returns", "absent")
    /\ ChildStep(p, OfStage("returns") = {} /\ proc[p].watched, "load", {})

(* load_normalized_events and calculate_synthetic_cohort *)
ChildCalculate(p) ==
    /\ Is(p, "returns", "load")
    /\ \E e \in GovernedCohort :
         LET n == IF Holds(SealedDataset) /\ proc[p].watched THEN LoadEvent(e) ELSE Refused
             result == IF n.status = "loaded" THEN Calculate(e, n) ELSE n
         IN  IF result.status = "priced"
             THEN Become(p, [proc[p] EXCEPT !.pc = "insert", !.event = result])
             ELSE ChildFails(p, result)
    /\ UNCHANGED World

(* persist *)
ChildPersist(p) ==
    /\ Is(p, "returns", "insert")
    /\ LET t == [NoTxn EXCEPT !.stage = "returns", !.strategy = AcceptedIds.strategy,
                              !.s0 = AcceptedIds.s0, !.seen = proc[p].seen, !.report = proc[p].event]
       IN  /\ ~JobKeyWaits(p, t)
           /\ IF JobKeyTaken(t) \/ ~proc[p].watched
              THEN ChildFails(p, proc[p].event)
              ELSE Become(p, [proc[p] EXCEPT !.pc = "send", !.txn = [t EXCEPT !.pk = jobSeq], !.mine = jobSeq])
    /\ jobSeq' = jobSeq + 1
    /\ UNCHANGED <<intact, jobs, strategies, details, strategySeq, flight, runs, faults>>

(* The last progress message precedes the COMMIT. *)
ChildSend(p) ==
    /\ Is(p, "returns", "send")
    /\ ChildStep(p, proc[p].watched, "commit", {})

(* After the COMMIT the result goes through the pipe; without a parent the *)
(* child just ends.                                                        *)
ChildAnswers(p) ==
    /\ Is(p, "returns", "landed")
    /\ Goto(p, IF proc[p].watched THEN "result" ELSE "done")
    /\ UNCHANGED World

ParentReads(p) ==
    /\ proc[p].pc \in {"result", "error"}
    /\ proc[p].watched
    /\ Report(p, IF proc[p].pc = "result" THEN "ok" ELSE "refused")
    /\ UNCHANGED World

-----------------------------------------------------------------------------
(* The end of a transaction *)

\* Mutant of SendCommit.
SendCommit_Announced(p) ==
    /\ proc[p].op \in {"s0", "s1", "v1"} /\ proc[p].pc = "send"
    /\ Become(p, [proc[p] EXCEPT !.pc = "commit", !.told = "ok"])
    /\ UNCHANGED World

SendCommit(p) ==
    /\ proc[p].op \in {"s0", "s1", "v1"} /\ proc[p].pc = "send"
    /\ Goto(p, "commit")
    /\ UNCHANGED World

CommitLands(p) ==
    /\ proc[p].pc = "commit"
    /\ Apply(proc[p].txn)
    /\ Become(p, [proc[p] EXCEPT !.pc = "landed", !.txn = NoTxn])
    /\ UNCHANGED <<intact, jobSeq, strategySeq, flight, runs, faults>>

Finish(p) ==
    /\ proc[p].op \in {"s0", "s1", "v1"} /\ proc[p].pc = "landed"
    /\ Report(p, "ok")
    /\ UNCHANGED World

(* The process ends here; a COMMIT on its way stays with the server. *)
EndProcess(p, told) ==
    /\ Report(p, told)
    /\ flight' = IF proc[p].pc = "commit" THEN flight \cup {proc[p].txn} ELSE flight

Faulty == faults < MaxFaults /\ faults' = faults + 1
Running(p) == proc[p].pc \notin {"idle", "done"}

(* _operational_ceiling: SIGALRM may arrive until the timer is cleared,    *)
(* which is after the transaction has ended.                               *)
Ceiling(p) ==
    /\ proc[p].op = "s1" /\ Running(p) /\ proc[p].pc # "begin"
    /\ Faulty
    /\ EndProcess(p, "timeout")
    /\ UNCHANGED <<intact, jobs, strategies, details, jobSeq, strategySeq, runs>>

(* The operator's process is killed.  The child of a returns parent lives  *)
(* on.                                                                     *)
Kill(p) ==
    /\ Running(p) /\ proc[p].watched
    /\ Faulty
    /\ IF proc[p].op = "returns" /\ proc[p].pc \notin {"begin", "result", "error"}
       THEN /\ Become(p, [proc[p] EXCEPT !.watched = FALSE, !.told = "killed"])
            /\ UNCHANGED flight
       ELSE EndProcess(p, "killed")
    /\ UNCHANGED <<intact, jobs, strategies, details, jobSeq, strategySeq, runs>>

(* _stop_process: terminate, then kill. *)

StopProcess(p, told) == EndProcess(p, told)

(* run_isolated_worker: the time or memory ceiling, or a child that died;  *)
(* looked at before the pipe is, so an answer may be lying there.          *)
Watchdog(p) ==
    /\ proc[p].op = "returns" /\ Running(p) /\ proc[p].pc # "begin" /\ proc[p].watched
    /\ Faulty
    /\ StopProcess(p, "failed")
    /\ UNCHANGED <<intact, jobs, strategies, details, jobSeq, strategySeq, runs>>

FlightLands(t) ==
    /\ Apply(t)
    /\ flight' = flight \ {t}
    /\ UNCHANGED <<intact, jobSeq, strategySeq, proc, runs, faults>>

FlightLost(t) ==
    /\ flight' = flight \ {t}
    /\ UNCHANGED <<intact, jobs, strategies, details, jobSeq, strategySeq, proc, runs, faults>>

(* A governed file is edited or put back.  The dataset is append-only: a   *)
(* conflicting candle stays.                                               *)
Drift(a) ==
    /\ a \in intact
    /\ Faulty
    /\ intact' = intact \ {a}
    /\ UNCHANGED <<jobs, strategies, details, jobSeq, strategySeq, flight, proc, runs>>

Restore(a) ==
    /\ a \notin intact /\ a # "dataset"
    /\ Faulty
    /\ intact' = intact \cup {a}
    /\ UNCHANGED <<jobs, strategies, details, jobSeq, strategySeq, flight, proc, runs>>

Quiet == (\A p \in Procs : ~Running(p)) /\ flight = {}

(* Every command has ended: nothing is left to do. *)
Over == Quiet /\ runs = MaxRuns /\ faults = MaxFaults /\ UNCHANGED vars

-----------------------------------------------------------------------------
Init ==
    /\ intact = Fragile
    /\ jobs = {[NoTxn EXCEPT !.stage = s, !.pk = V1Keys[s], !.strategy = 1] : s \in V1Jobs}
    /\ strategies = {} /\ details = {}
    /\ jobSeq = Cardinality(V1Jobs) + 1 /\ strategySeq = 2
    /\ flight = {}
    /\ proc = [p \in Procs |-> Idle]
    /\ runs = 0 /\ faults = 0

Operations == {"s0", "s1", "returns", "v1", "verify", "geometry"}

Next ==
    \/ \E p \in Procs :
        \/ \E op \in Operations : Start(p, op)
        \/ S0Begin(p) \/ S0CreateStrategy(p) \/ S0Validate(p) \/ S0Insert(p)
        \/ V1Get(p) \/ V1Create(p)
        \/ S1Begin(p) \/ S1Inputs(p) \/ S1Lineage(p) \/ S1Project(p) \/ S1Persist(p)
        \/ VerifySelect(p) \/ VerifyReconstructed(p)
        \/ GeometryBegin(p) \/ GeometryRead(p)
        \/ ReturnBegin(p) \/ ChildLineage(p) \/ ChildAbsent(p) \/ ChildCalculate(p)
        \/ ChildPersist(p) \/ ChildSend(p) \/ ChildAnswers(p) \/ ParentReads(p)
        \/ SendCommit(p) \/ CommitLands(p) \/ Finish(p)
        \/ Ceiling(p) \/ Kill(p) \/ Watchdog(p)
    \/ \E t \in flight : FlightLands(t) \/ FlightLost(t)
    \/ \E a \in Fragile : Drift(a) \/ Restore(a)
    \/ Over

Spec == Init /\ [][Next]_vars

-----------------------------------------------------------------------------
(* Properties *)

(* Every variable keeps its type; a process holds a transaction only while *)
(* its command is at work.                                                 *)
TypeOK ==
    /\ intact \subseteq Fragile
    /\ \A j \in jobs : j.pk \in 1..(jobSeq - 1)
    /\ strategies \subseteq 2..(strategySeq - 1)
    /\ details \subseteq {j.pk : j \in jobs}
    /\ \A p \in Procs :
         /\ proc[p].op \in Operations \cup {"none"}
         /\ ~Running(p) => proc[p].txn = NoTxn
    /\ runs \in 0..MaxRuns /\ faults \in 0..MaxFaults

(* Each stage is stored at most once, however often and however            *)
(* concurrently its command is run, killed and run again                   *)
(* (execute_v2_s0_once, persist_projection, DjangoResultStore.persist).    *)
OneRowPerStage ==
    /\ \A stage \in Stages : Cardinality(OfStage(stage)) <= 1
    /\ Cardinality(strategies) <= 1
    /\ \A i, j \in jobs : i.pk = j.pk => i = j

(* The files a stored row must have been checked against, whichever loader *)
(* does it: a stage verifies everything the study froze before it.         *)
FrozenBefore ==
    [s0 |-> {"detector", "s0_preregistration", "dataset"},
     s1 |-> {"detector", "s0_preregistration", "s0_outcome", "dataset", "s1_policy",
             "s1_authorization", "repository"},
     returns |-> {"s0_preregistration", "s0_outcome", "dataset", "s1_authorization", "s1_outcome",
                  "geometry", "s2_candidate", "geometry_v1", "s2_v1", "s2_v2", "calculator_v1",
                  "calculator", "runner_v1", "runner", "authorization1", "failure1",
                  "authorization2", "failure2", "authorization3", "failure3", "rehearsal",
                  "return_authorization", "environment"}]

(* A row of a stage was written by a process that had verified all the     *)
(* governance the stage rests on.                                          *)
RowsAreGoverned ==
    \A j \in jobs : j.stage \in Stages => FrozenBefore[j.stage] \subseteq j.seen

(* A stage builds on the stored row of the stage before it, under the      *)
(* accepted keys, and S1's detail rows are there exactly when its job is.  *)
StagesAreBound ==
    /\ \A j \in OfStage("s0") : j.strategy \in strategies
    /\ \A j \in OfStage("s1") :
         \E i \in OfStage("s0") : i.pk = j.s0 /\ i.pk = 4 /\ i.strategy = 2 /\ j.strategy = 2
    /\ details = {j.pk : j \in OfStage("s1")}
    /\ \A j \in OfStage("returns") : \E i \in OfStage("s1") : i.pk = 5 /\ i.s0 = 4

(* An operator told of success has a stored row, one told of a refusal has *)
(* none, now or later.                                                     *)
ReportsMatchRows ==
    \A p \in Procs :
        /\ proc[p].told = "ok" /\ proc[p].op \in Stages =>
              \E j \in jobs : j.pk = proc[p].mine /\ j.stage = proc[p].op
        /\ proc[p].told = "refused" => \A t \in jobs \cup flight : t.pk # 0 => t.pk # proc[p].mine

(* Once a timeout or a ceiling has been reported, only a COMMIT that had   *)
(* already been sent may still land (_stop_process before the report).     *)
NothingStartsAfterReport ==
    \A p \in Procs : proc[p].txn # NoTxn => proc[p].told \in {"none", "killed"}

(* Post-entry prices are read only by a process that verified everything   *)
(* above it, with the accepted S1 evidence stored, and never by a command  *)
(* started after the result was stored.                                    *)
OutcomesAreSealed ==
    \A p \in Procs : proc[p].event # None =>
        /\ FrozenBefore.returns \subseteq proc[p].seen
        /\ \E j \in OfStage("s1") : j.pk = 5 /\ details = {5}
        /\ ~proc[p].late

(* Left alone, the study goes on: when no attempt has failed after an      *)
(* insert, no file has changed and no v1 count was added, what a stage     *)
(* stored is exactly what the next stage demands.                          *)
NominalPathIsOpen ==
    /\ Quiet /\ intact = Fragile /\ OfStage("v1_extra") = {}
    /\ jobSeq = Cardinality(jobs) + 1 /\ strategySeq = Cardinality(strategies) + 2
    => CASE OfStage("s0") = {} -> ~StrategyTaken
         [] OfStage("s0") # {} /\ OfStage("s1") = {} -> S0Accepted /\ S1LineageHolds /\ S1Pristine
         [] OfStage("s1") # {} /\ OfStage("returns") = {} -> LineageHolds
         [] OTHER -> TRUE

(* A verified S1 outcome, and the source of a geometry, is the accepted    *)
(* one, complete.                                                          *)
VerifiedIsComplete ==
    \A p \in Procs : proc[p].told = "accepted" =>
        /\ details = {5}
        /\ \E i \in OfStage("s0"), j \in OfStage("s1") : i.pk = 4 /\ j.pk = 5

(* An event the calculator resolved can be priced, since the times fixed   *)
(* before the prices are read cover the exit, every rollover and every     *)
(* mark; the one exception is an exit they do not foresee.                 *)
ResolvedEventsArePriced ==
    \A p \in Procs :
        LET result == proc[p].event
        IN  result # None /\ result.status \in {"priced", "unpriced"} =>
              (result.status = "unpriced" <=> Unforeseen(result.event, result.exit))

(* Every price in a stored result was known at the time it stands for.     *)
NoLookAhead ==
    \A j \in OfStage("returns") : \A u \in j.report.used : u[2] <= u[1]

(* The exit never flatters: no order of the ticks inside the last bar, gap *)
(* openings included, would have filled worse than what is reported.       *)
ExitIsPessimistic ==
    \A j \in OfStage("returns") :
        LET e == j.report.event
            exit == j.report.exit
        IN  exit.terminal \in {"STOP", "TARGET"} =>
              \A x \in TickExits(e, exit.bar) : Sign(e) * exit.price <= Sign(e) * x

(* A stage is stored once, by a process that had verified what the stage   *)
(* rests on, and bound to the stage before it; the path of a study that    *)
(* nothing disturbs stays open.                                            *)
StagesAreGoverned ==
    /\ TypeOK
    /\ OneRowPerStage
    /\ RowsAreGoverned
    /\ StagesAreBound
    /\ NominalPathIsOpen

(* What an operator is told is what happened and what will happen, also    *)
(* after a timeout, a ceiling or a kill.                                   *)
ReportsAreHonest ==
    /\ ReportsMatchRows
    /\ NothingStartsAfterReport
    /\ VerifiedIsComplete

(* A return is computed from outcomes that were sealed until then, on      *)
(* prices known at their time, for every event whose exit was foreseen,    *)
(* and exits at the worst fill the bar allows.                             *)
ReturnsAreHonest ==
    /\ OutcomesAreSealed
    /\ ResolvedEventsArePriced
    /\ NoLookAhead
    /\ ExitIsPessimistic
=============================================================================
