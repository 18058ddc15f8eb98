------------------------------ MODULE StudyProofs ------------------------------
(* Theorems about Study, for any number of processes, fragile files, commands  *)
(* and faults, and for any sealed evidence.                                    *)
EXTENDS Study, FiniteSetTheorems, WellFoundedInduction, TLAPS

-----------------------------------------------------------------------------
(* Types.                                                                     *)

Artifacts ==
  RunnerPreregistration \cup RequireReturnAuthorization \cup LineageFiles
    \cup InspectS1Authorization \cup VerifySources \cup LoadS1Policy \cup LoadV2Policy

\* What a process may know of the event it calculates.
ResultOf(e) ==
  LET n == LoadEvent(e) IN IF n.status = "loaded" THEN Calculate(e, n) ELSE n
Results ==
  {None, Refused} \cup {ResultOf(e) : e \in GovernedCohort}
Priced == {x \in {ResultOf(e) : e \in GovernedCohort} : x.status = "priced"}

Txns ==
  [stage : Stages \cup V1Jobs \cup {"v1_extra", "none"}, pk : Nat, strategy : Nat,
   s0 : Nat, seen : SUBSET Artifacts, report : Results]

\* The steps of each command.
Steps ==
  [none |-> {"idle"},
   s0 |-> {"begin", "strategy", "validate", "insert", "send", "commit", "landed", "done"},
   v1 |-> {"begin", "insert", "send", "commit", "landed", "done"},
   s1 |-> {"begin", "inputs", "lineage", "project", "insert", "send", "commit", "landed",
           "done"},
   verify |-> {"begin", "reconstruct", "done"},
   geometry |-> {"begin", "read", "done"},
   returns |-> {"begin", "lineage", "absent", "load", "insert", "send", "commit", "landed",
                "result", "error", "done"}]

Processes ==
  [op : {"none", "s0", "v1", "s1", "verify", "geometry", "returns"},
   pc : {"idle", "begin", "strategy", "validate", "insert", "send", "commit", "landed", "done",
         "inputs", "lineage", "project", "reconstruct", "read", "absent", "load", "result",
         "error"},
   txn : Txns,
   seen : SUBSET Artifacts, event : Results, watched : BOOLEAN,
   told : {"none", "ok", "refused", "accepted", "timeout", "failed", "killed"},
   mine : Nat, late : BOOLEAN]

-----------------------------------------------------------------------------
(* What holds of one process by itself.                                       *)

\* The stage whose key or name the process's transaction holds.
StageOf(r) ==
  CASE r.op = "s0" /\ r.pc \in {"validate", "insert", "send", "commit"} -> "s0"
    [] r.op \in {"s1", "returns"} /\ r.pc \in {"send", "commit"} -> r.op
    [] r.op = "v1" /\ r.pc \in {"send", "commit"} -> "v1_extra"
    [] OTHER -> "none"

\* The transaction is the one its step has come to.
TxnOf(r) ==
  /\ r.txn.stage = StageOf(r)
  /\ StageOf(r) = "none" => r.txn = NoTxn
  /\ r.pc \notin {"send", "commit"} => r.txn.pk = 0
  /\ r.pc \in {"send", "commit"} =>
       /\ r.txn.pk # 0 /\ r.txn.pk = r.mine
       /\ r.op \in Stages => FrozenBefore[r.op] \subseteq r.txn.seen
       /\ r.op \in {"s1", "returns"} =>
            r.txn.strategy = AcceptedIds.strategy /\ r.txn.s0 = AcceptedIds.s0
       /\ r.op = "returns" => r.txn.report \in Priced

\* What has been verified on the way to a step.
SeenBy(r) ==
  CASE r.op = "s0" /\ r.pc = "strategy" -> LoadS0Preregistration
    [] r.op = "s0" /\ r.pc = "validate" -> LoadS0Preregistration \cup LoadV2Policy
    [] r.op = "s0" /\ r.pc = "insert" -> FrozenBefore.s0
    [] r.op = "s1" /\ r.pc = "inputs" -> InspectS1Authorization \cup VerifySources
    [] r.op = "s1" /\ r.pc \in {"lineage", "project", "insert"} -> FrozenBefore.s1
    [] r.op = "returns" /\ r.pc = "lineage" ->
         RunnerPreregistration \cup RequireReturnAuthorization \cup GovernedEvents
    [] r.op = "returns" /\ r.pc \in {"absent", "load", "insert"} -> FrozenBefore.returns
    [] OTHER -> {}

\* An operator is told at the end; only the parent of a child that goes on may
\* be killed before.
ToldAtEnd(r) ==
  /\ r.told # "none" /\ r.pc # "done" => r.told = "killed" /\ ~r.watched
  /\ ~r.watched => r.op = "returns" /\ r.told = "killed" /\ r.pc # "begin"
  /\ r.told = "accepted" => r.op \in {"verify", "geometry"}

Local(r) ==
  /\ r.pc \in Steps[r.op]
  /\ TxnOf(r) /\ SeenBy(r) \subseteq r.seen /\ ToldAtEnd(r)
  /\ r.event # None => r.op = "returns" /\ FrozenBefore.returns \subseteq r.seen
  /\ r.op = "returns" /\ r.pc = "insert" => r.event \in Priced

-----------------------------------------------------------------------------
(* What holds of the rows.                                                    *)

\* t has a key, and was verified against what its stage rests on.
RowOf(t) ==
  /\ t \in Txns /\ t.pk # 0 /\ t.stage # "none"
  /\ t.stage \in Stages => FrozenBefore[t.stage] \subseteq t.seen
  /\ t.stage \in {"s1", "returns"} =>
       t.strategy = AcceptedIds.strategy /\ t.s0 = AcceptedIds.s0
  /\ t.stage = "returns" => t.report \in Priced

\* The accepted rows are stored.
S0Stored ==
  \E i \in OfStage("s0") : i.pk = AcceptedIds.s0 /\ i.strategy = AcceptedIds.strategy
S1Stored == \E i \in OfStage("s1") : i.pk = AcceptedIds.s1

V1Rows == {[NoTxn EXCEPT !.stage = s, !.pk = V1Keys[s], !.strategy = 1] : s \in V1Jobs}

\* A transaction of stage s1 or of the returns finds what it is bound to.
BoundTo(stage) ==
  /\ stage = "s1" => S0Stored
  /\ stage = "returns" => S1Stored

RowsInv ==
  /\ \A t \in jobs \cup flight :
       RowOf(t) /\ t.pk < jobSeq /\ t.strategy < strategySeq /\ BoundTo(t.stage)
       /\ (t.stage = "s0" => 2 <= t.strategy)
  /\ \A t \in flight : t.stage \notin V1Jobs
  /\ {j \in jobs : j.stage \in V1Jobs} = V1Rows
  /\ strategies = {j.strategy : j \in OfStage("s0")}
  /\ details = {j.pk : j \in OfStage("s1")}
  /\ jobSeq \in Nat /\ strategySeq \in Nat /\ 4 <= jobSeq /\ 2 <= strategySeq

\* Two transactions do not share a key, and not a stage of the study.
Apart(t, u) ==
  /\ t.pk # 0 => t.pk # u.pk
  /\ t.stage \in Stages => t.stage # u.stage

\* No other transaction, open or committed, has p's.
RowsApart == \A t, u \in jobs \cup flight : t # u => Apart(t, u)
FlightApart == \A t \in flight : t \notin jobs

\* The key p's last insert took is in no row yet.
Fresh(r) == r.pc \notin {"landed", "result"} /\ (r.pc = "done" => r.told = "refused")

\* No row has what p's insert took, until its own is committed.
Owns(r) ==
  /\ r.mine < jobSeq /\ r.txn.strategy < strategySeq
  /\ r.txn.stage = "s0" => 2 <= r.txn.strategy
  /\ Fresh(r) /\ r.mine # 0 => \A t \in jobs \cup flight : t.pk # r.mine
  /\ \A t \in jobs \cup flight : Apart(r.txn, t)

\* What a process has learnt of the rows: committed rows stay.
Learnt(r) ==
  /\ (r.pc \in {"landed", "result"} \/ r.told = "ok") /\ r.op \in Stages =>
       \E j \in jobs : j.pk = r.mine /\ j.stage = r.op
  /\ r.op = "s1" /\ r.pc = "lineage" => SelectedS0 # {}
  /\ r.op = "s1" /\ r.pc \in {"project", "insert", "send", "commit"} => S0Stored
  /\ r.op = "returns" /\ (r.pc \in {"absent", "load", "insert", "send", "commit"}
                            \/ r.event # None) => S1Stored
  /\ r.op = "verify" /\ r.pc = "reconstruct" => SelectedS1 # {}
  /\ r.told = "accepted" => S1Stored
  /\ r.late => OfStage("returns") # {}
  /\ r.op = "returns" /\ (r.pc \in {"load", "insert"} \/ r.event # None) => ~r.late

ProcsApart ==
  \A p, q \in Procs : p # q =>
    /\ Apart(proc[p].txn, proc[q].txn)
    /\ proc[p].mine # 0 => proc[p].mine # proc[q].mine

TypeInv ==
  /\ intact \subseteq Fragile /\ runs \in 0..MaxRuns /\ faults \in 0..MaxFaults
  /\ proc \in [Procs -> Processes] /\ IsFiniteSet(jobs)

IInv ==
  /\ TypeInv
  /\ \A p \in Procs : Local(proc[p]) /\ Owns(proc[p]) /\ Learnt(proc[p])
  /\ RowsInv /\ RowsApart /\ FlightApart /\ ProcsApart

-----------------------------------------------------------------------------
(* The three kinds of a process's step, and what it may become.               *)

\* Only p's entry changes.
Alone(p) == \A q \in Procs \ {p} : proc'[q] = proc[q]

RowsStay ==
  /\ UNCHANGED <<jobs, strategies, details>>
  /\ jobSeq' \in {jobSeq, jobSeq + 1} /\ strategySeq' \in {strategySeq, strategySeq + 1}

\* p keeps its transaction or gives it up.
Stays(p) ==
  /\ RowsStay /\ flight' = flight
  /\ proc'[p].txn \in {proc[p].txn, NoTxn}
  /\ proc'[p].mine \in {proc[p].mine, 0}
  /\ Fresh(proc'[p]) => Fresh(proc[p]) \/ proc'[p].mine = 0

\* p inserts under keys that no other transaction has.
Opens(p) ==
  /\ RowsStay /\ flight' = flight
  /\ \/ proc'[p].txn.pk = 0 /\ proc'[p].mine = proc[p].mine /\ Fresh(proc[p])
     \/ proc'[p].txn.pk = jobSeq /\ proc'[p].mine = jobSeq /\ jobSeq' = jobSeq + 1
  /\ proc'[p].txn.stage \in Stages =>
       \A u \in jobs \cup OpenTxns(p) : u.stage # proc'[p].txn.stage
  /\ proc'[p].txn.strategy < strategySeq'
  /\ proc'[p].txn.stage = "s0" => 2 <= proc'[p].txn.strategy

\* The client ends with its COMMIT on the way.
Sends(p) ==
  /\ proc[p].pc = "commit" /\ UNCHANGED <<jobs, strategies, details, jobSeq, strategySeq>>
  /\ flight' = flight \cup {proc[p].txn}
  /\ proc'[p].txn = NoTxn /\ proc'[p].mine = proc[p].mine /\ ~Fresh(proc'[p])

Lands(p) ==
  /\ proc[p].pc = "commit" /\ Apply(proc[p].txn)
  /\ UNCHANGED <<jobSeq, strategySeq, flight>>
  /\ proc'[p].txn = NoTxn /\ proc'[p].mine = proc[p].mine /\ ~Fresh(proc'[p])

\* What is shown of every action of a process.
Orderly(p) ==
  /\ intact' \subseteq Fragile /\ runs' \in 0..MaxRuns /\ faults' \in 0..MaxFaults
  /\ proc' \in [Procs -> Processes] /\ Alone(p)
  /\ Local(proc'[p]) /\ Learnt(proc[p])'
  /\ Stays(p) \/ Opens(p) \/ Sends(p) \/ Lands(p)

-----------------------------------------------------------------------------
(* The loaders.                                                               *)

LEMMA ArtifactsOfStages ==
  /\ FrozenBefore.s0 \subseteq LoadS0Preregistration \cup LoadV2Policy \cup SealedDataset
  /\ FrozenBefore.s1 \subseteq InspectS1Authorization \cup VerifySources \cup LoadS1Policy
                               \cup LoadS0Outcome \cup LoadV2Policy \cup SealedDataset
  /\ FrozenBefore.returns \subseteq RunnerPreregistration \cup RequireReturnAuthorization
                                    \cup GovernedEvents \cup LineageFiles
  BY DEF FrozenBefore, LoadS0Preregistration, LoadV2Policy, SealedDataset,
         InspectS1Authorization, VerifySources, LoadS1Policy, LoadS0Outcome,
         RunnerPreregistration, RequireReturnAuthorization, GovernedEvents, LineageFiles,
         RunnerHistory, CalculatorPreregistration, CalculatorHistory, LoadS2Policy,
         LoadPolicyV1, LoadGeometryV1, LoadCandidatePolicy, VerifyGeometry, LoadS1Acceptance,
         LoadS1Outcome, ReturnAuthorization, ExecutionEnvironment, FirstFailure,
         FirstAuthorization, SecondFailure, SecondAuthorization, ThirdFailure,
         ThirdAuthorization, Rehearsal

LEMMA ArtifactsAreKnown ==
  /\ LoadS0Preregistration \subseteq Artifacts /\ LoadV2Policy \subseteq Artifacts
  /\ SealedDataset \subseteq Artifacts /\ InspectS1Authorization \subseteq Artifacts
  /\ VerifySources \subseteq Artifacts /\ LoadS1Policy \subseteq Artifacts
  /\ LoadS0Outcome \subseteq Artifacts /\ LoadS1Outcome \subseteq Artifacts
  /\ LoadS1Acceptance \subseteq Artifacts /\ RunnerPreregistration \subseteq Artifacts
  /\ RequireReturnAuthorization \subseteq Artifacts /\ GovernedEvents \subseteq Artifacts
  /\ LineageFiles \subseteq Artifacts
  BY DEF Artifacts, LineageFiles, LoadS0Outcome, LoadS0Preregistration, LoadS1Outcome,
         SealedDataset, GovernedEvents, VerifyGeometry, LoadS1Acceptance, LoadS2Policy

LEMMA Becoming ==
  ASSUME NEW p \in Procs, NEW r \in Processes, proc \in [Procs -> Processes], Become(p, r)
  PROVE  proc' \in [Procs -> Processes] /\ proc'[p] = r /\ Alone(p)
  BY DEF Become, Alone

-----------------------------------------------------------------------------
(* The end of a process.                                                      *)

\* It may be told so here.
MayReport(r, told) ==
  /\ r.pc \notin {"idle", "done"} /\ r.watched
  /\ told \in {"ok", "refused", "accepted", "timeout", "failed", "killed"}
  /\ told = "refused" => r.pc \notin {"landed", "result"}
  /\ told = "ok" => r.op \notin Stages \/ r.pc \in {"landed", "result"}
  /\ told = "accepted" => r.op \in {"verify", "geometry"} /\ S1Stored

LEMMA ReportIsOrderly ==
  ASSUME IInv, NEW p \in Procs, NEW told, Report(p, told), MayReport(proc[p], told), RowsStay,
         intact' \subseteq Fragile, runs' \in 0..MaxRuns, faults' \in 0..MaxFaults,
         \/ flight' = flight
         \/ /\ proc[p].pc = "commit" /\ told # "refused"
            /\ flight' = flight \cup {proc[p].txn} /\ UNCHANGED <<jobSeq, strategySeq>>
  PROVE  Orderly(p)
PROOF
<1> DEFINE r == [proc[p] EXCEPT !.pc = "done", !.txn = NoTxn, !.told = told]
<1>1. proc \in [Procs -> Processes] /\ proc[p] \in Processes /\ Local(proc[p]) /\ Learnt(proc[p])
  BY DEF IInv, TypeInv
<1>2. NoTxn \in Txns
  BY DEF NoTxn, Txns, Results
<1>3. r \in Processes
  BY <1>1, <1>2 DEF MayReport, Processes
<1>4. proc' \in [Procs -> Processes] /\ proc'[p] = r /\ Alone(p)
  BY <1>1, <1>3, Becoming DEF Report
<1>5. Local(r)
  BY <1>1, <1>3, SMTT(30)
  DEF MayReport, Processes, Local, TxnOf, StageOf, SeenBy, ToldAtEnd, Steps, NoTxn
<1>6. Learnt(proc[p])'
  BY <1>1, <1>3, <1>4 DEF RowsStay, MayReport, Processes, Learnt, S0Stored, S1Stored,
     SelectedS0, SelectedS1, OfStage
<1>7. Stays(p) \/ Sends(p)
  BY <1>1, <1>3, <1>4 DEF Stays, Sends, RowsStay, MayReport, Processes, Fresh
<1> QED  BY <1>4, <1>5, <1>6, <1>7 DEF Orderly

\* The transaction has sent no COMMIT.
LEMMA RefusalIsOrderly ==
  ASSUME IInv, NEW p \in Procs, Refuse(p), proc[p].watched, Running(p),
         proc[p].pc \notin {"landed", "result"}, RowsStay, flight' = flight,
         UNCHANGED <<intact, runs, faults>>
  PROVE  Orderly(p)
PROOF
<1>1. Report(p, "refused")
  BY DEF Refuse
<1>2. MayReport(proc[p], "refused")
  BY DEF MayReport, Running
<1>3. intact' \subseteq Fragile /\ runs' \in 0..MaxRuns /\ faults' \in 0..MaxFaults
  BY DEF IInv, TypeInv
<1> QED  BY <1>1, <1>2, <1>3, ReportIsOrderly

LEMMA OnlyReturnsAreUnwatched ==
  ASSUME IInv, NEW p \in Procs
  PROVE  /\ proc[p].op # "returns" => proc[p].watched
         /\ proc[p].pc = "begin" => proc[p].watched
  BY DEF IInv, TypeInv, Processes, Local, ToldAtEnd

-----------------------------------------------------------------------------
(* A process that goes on.                                                    *)

\* p becomes r: of the rows r holds no more than p did.
MayBecome(p, r) ==
  /\ r \in Processes /\ Local(r) /\ Learnt(r)
  /\ r.txn \in {proc[p].txn, NoTxn} /\ r.mine \in {proc[p].mine, 0}
  /\ Fresh(r) => Fresh(proc[p]) \/ r.mine = 0

LEMMA BecomingIsOrderly ==
  ASSUME IInv, NEW p \in Procs, NEW r, Become(p, r), MayBecome(p, r), RowsStay,
         flight' = flight, intact' \subseteq Fragile, runs' \in 0..MaxRuns,
         faults' \in 0..MaxFaults
  PROVE  Orderly(p)
PROOF
<1>1. proc' \in [Procs -> Processes] /\ proc'[p] = r /\ Alone(p)
  BY Becoming DEF MayBecome, IInv, TypeInv
<1>2. Learnt(proc[p])'
  BY <1>1 DEF MayBecome, RowsStay, Learnt, S0Stored, S1Stored, SelectedS0, SelectedS1, OfStage
<1>3. Stays(p)
  BY <1>1 DEF MayBecome, Stays
<1> QED  BY <1>1, <1>2, <1>3 DEF MayBecome, Orderly

Verified(r, pc, files) == [r EXCEPT !.pc = pc, !.seen = @ \cup files]
Steady == {"begin", "strategy", "validate", "insert", "send", "commit", "inputs", "lineage",
           "project", "reconstruct", "read", "absent", "load"}

LEMMA VerifiedProcess ==
  ASSUME NEW r \in Processes, NEW pc \in Steady, NEW files \in SUBSET Artifacts
  PROVE  /\ Verified(r, pc, files) \in Processes
         /\ Verified(r, pc, files).txn = r.txn /\ Verified(r, pc, files).mine = r.mine
         /\ Verified(r, pc, files).pc = pc
  BY DEF Processes, Steady, Verified

LEMMA CheckIsOrderly ==
  ASSUME IInv, NEW p \in Procs, NEW ok, NEW pc \in Steady,
         NEW files \in SUBSET Artifacts, Check(p, ok, pc, files),
         proc[p].watched, proc[p].pc \in Steady,
         ok => /\ Local(Verified(proc[p], pc, files))
               /\ Learnt(Verified(proc[p], pc, files))
  PROVE  Orderly(p)
PROOF
<1>1. RowsStay /\ flight' = flight /\ UNCHANGED <<intact, runs, faults>>
  BY DEF Check, World, RowsStay
<1>2. intact' \subseteq Fragile /\ runs' \in 0..MaxRuns /\ faults' \in 0..MaxFaults
  BY <1>1 DEF IInv, TypeInv
<1>3. proc[p] \in Processes
  BY DEF IInv, TypeInv
<1>4. CASE ok /\ Holds(files)
  <2>1. Become(p, Verified(proc[p], pc, files))
    BY <1>4 DEF Check, Verify, Verified
  <2>2. MayBecome(p, Verified(proc[p], pc, files))
    <3> HIDE DEF Processes
    <3>1. Verified(proc[p], pc, files) \in Processes
      BY <1>3, VerifiedProcess
    <3>2. Verified(proc[p], pc, files).txn = proc[p].txn
      BY <1>3, VerifiedProcess
    <3>3. Verified(proc[p], pc, files).mine = proc[p].mine
      BY <1>3, VerifiedProcess
    <3>4. Fresh(proc[p])
      BY DEF Fresh, Steady
    <3> QED  BY <1>4, <3>1, <3>2, <3>3, <3>4 DEF MayBecome
  <2> QED  BY <1>1, <1>2, <2>1, <2>2, BecomingIsOrderly
<1>5. CASE ~(ok /\ Holds(files))
  BY <1>1, <1>5, RefusalIsOrderly DEF Check, Running, Steady
<1> QED  BY <1>4, <1>5

\* The steps that only verify, and what each has verified and learnt.
LEMMA SelectedIsThere ==
  ASSUME NEW S, Cardinality(S) = 1
  PROVE  S # {}
  BY FS_EmptySet

LEMMA S0BeginIsOrderly ==
  ASSUME IInv, NEW p \in Procs, S0Begin(p)
  PROVE  Orderly(p)
PROOF
<1> DEFINE files == LoadS0Preregistration
           r == Verified(proc[p], "strategy", files)
<1>1. /\ proc[p] \in Processes /\ Local(proc[p]) /\ Learnt(proc[p])
      /\ proc[p].watched /\ proc[p].pc \in Steady
  BY OnlyReturnsAreUnwatched DEF IInv, TypeInv, S0Begin, Is, Steady
<1>2. files \in SUBSET Artifacts
  BY ArtifactsAreKnown
<1>3. Check(p, OfStage("s0") = {}, "strategy", files) /\ "strategy" \in Steady
  BY DEF S0Begin, Steady
<1>4. LoadS0Preregistration \subseteq files
  OBVIOUS
<1> HIDE DEF files
<1>5. r \in Processes
  BY <1>1, <1>2, <1>3, VerifiedProcess
<1>6. Local(r)
  BY <1>1, <1>5, <1>4 DEF S0Begin, Is, Verified, Processes, Local, TxnOf, StageOf,
     SeenBy, ToldAtEnd, Steps, Stages
<1>7. Learnt(r)
  BY <1>1 DEF S0Begin, Is, Verified, Processes, Learnt
<1> QED  BY <1>1, <1>2, <1>3, <1>6, <1>7, CheckIsOrderly

LEMMA S0ValidateIsOrderly ==
  ASSUME IInv, NEW p \in Procs, S0Validate(p)
  PROVE  Orderly(p)
PROOF
<1> DEFINE files == LoadS0Preregistration \cup LoadV2Policy \cup SealedDataset
           r == Verified(proc[p], "insert", files)
<1>1. /\ proc[p] \in Processes /\ Local(proc[p]) /\ Learnt(proc[p])
      /\ proc[p].watched /\ proc[p].pc \in Steady
  BY OnlyReturnsAreUnwatched DEF IInv, TypeInv, S0Validate, Is, Steady
<1>2. files \in SUBSET Artifacts
  BY ArtifactsAreKnown
<1>3. Check(p, TRUE, "insert", files) /\ "insert" \in Steady
  BY DEF S0Validate, Steady
<1>4. FrozenBefore.s0 \subseteq files
  BY ArtifactsOfStages
<1> HIDE DEF files
<1>5. r \in Processes
  BY <1>1, <1>2, <1>3, VerifiedProcess
<1>6. Local(r)
  BY <1>1, <1>5, <1>4 DEF S0Validate, Is, Verified, Processes, Local, TxnOf, StageOf,
     SeenBy, ToldAtEnd, Steps, Stages
<1>7. Learnt(r)
  BY <1>1 DEF S0Validate, Is, Verified, Processes, Learnt
<1> QED  BY <1>1, <1>2, <1>3, <1>6, <1>7, CheckIsOrderly

LEMMA S1BeginIsOrderly ==
  ASSUME IInv, NEW p \in Procs, S1Begin(p)
  PROVE  Orderly(p)
PROOF
<1> DEFINE files == InspectS1Authorization \cup VerifySources
           r == Verified(proc[p], "inputs", files)
<1>1. /\ proc[p] \in Processes /\ Local(proc[p]) /\ Learnt(proc[p])
      /\ proc[p].watched /\ proc[p].pc \in Steady
  BY OnlyReturnsAreUnwatched DEF IInv, TypeInv, S1Begin, Is, Steady
<1>2. files \in SUBSET Artifacts
  BY ArtifactsAreKnown
<1>3. Check(p, TRUE, "inputs", files) /\ "inputs" \in Steady
  BY DEF S1Begin, Steady
<1>4. InspectS1Authorization \cup VerifySources \subseteq files
  OBVIOUS
<1> HIDE DEF files
<1>5. r \in Processes
  BY <1>1, <1>2, <1>3, VerifiedProcess
<1>6. Local(r)
  BY <1>1, <1>5, <1>4 DEF S1Begin, Is, Verified, Processes, Local, TxnOf, StageOf,
     SeenBy, ToldAtEnd, Steps, Stages
<1>7. Learnt(r)
  BY <1>1 DEF S1Begin, Is, Verified, Processes, Learnt
<1> QED  BY <1>1, <1>2, <1>3, <1>6, <1>7, CheckIsOrderly

LEMMA S1InputsIsOrderly ==
  ASSUME IInv, NEW p \in Procs, S1Inputs(p)
  PROVE  Orderly(p)
PROOF
<1> DEFINE files == LoadS1Policy \cup LoadS0Outcome \cup LoadV2Policy \cup SealedDataset
           r == Verified(proc[p], "lineage", files)
<1>1. /\ proc[p] \in Processes /\ Local(proc[p]) /\ Learnt(proc[p])
      /\ proc[p].watched /\ proc[p].pc \in Steady
  BY OnlyReturnsAreUnwatched DEF IInv, TypeInv, S1Inputs, Is, Steady
<1>2. files \in SUBSET Artifacts
  BY ArtifactsAreKnown
<1>3. Check(p, S0Accepted, "lineage", files) /\ "lineage" \in Steady
  BY DEF S1Inputs, Steady
<1>4. FrozenBefore.s1 \subseteq InspectS1Authorization \cup VerifySources \cup files
  BY ArtifactsOfStages
<1> HIDE DEF files
<1>5. r \in Processes
  BY <1>1, <1>2, <1>3, VerifiedProcess
<1>6. Local(r)
  BY <1>1, <1>5, <1>4 DEF S1Inputs, Is, Verified, Processes, Local, TxnOf, StageOf,
     SeenBy, ToldAtEnd, Steps, Stages
<1>7. S0Accepted => SelectedS0 # {}
  BY SelectedIsThere DEF S0Accepted
<1>8. (S0Accepted) => Learnt(r)
  BY <1>1, <1>7 DEF S1Inputs, Is, Verified, Processes, Learnt
<1> QED  BY <1>1, <1>2, <1>3, <1>6, <1>8, CheckIsOrderly

LEMMA S1LineageIsOrderly ==
  ASSUME IInv, NEW p \in Procs, S1Lineage(p)
  PROVE  Orderly(p)
PROOF
<1> DEFINE files == {}
           r == Verified(proc[p], "project", files)
<1>1. /\ proc[p] \in Processes /\ Local(proc[p]) /\ Learnt(proc[p])
      /\ proc[p].watched /\ proc[p].pc \in Steady
  BY OnlyReturnsAreUnwatched DEF IInv, TypeInv, S1Lineage, Is, Steady
<1>2. files \in SUBSET Artifacts
  BY ArtifactsAreKnown
<1>3. Check(p, S1LineageHolds /\ S1Pristine, "project", files) /\ "project" \in Steady
  BY DEF S1Lineage, Steady
<1> HIDE DEF files
<1>4. r \in Processes
  BY <1>1, <1>2, <1>3, VerifiedProcess
<1>5. Local(r)
  BY <1>1, <1>4 DEF S1Lineage, Is, Verified, Processes, Local, TxnOf, StageOf,
     SeenBy, ToldAtEnd, Steps, Stages
<1>6. SelectedS0 # {}
  BY <1>1 DEF S1Lineage, Is, Learnt
<1>7. S1LineageHolds => S0Stored
  BY <1>6 DEF S1LineageHolds, S0Stored, SelectedS0
<1>8. (S1LineageHolds /\ S1Pristine) => Learnt(r)
  BY <1>1, <1>6, <1>7 DEF S1Lineage, Is, Verified, Processes, Learnt
<1> QED  BY <1>1, <1>2, <1>3, <1>5, <1>8, CheckIsOrderly

LEMMA S1ProjectIsOrderly ==
  ASSUME IInv, NEW p \in Procs, S1Project(p)
  PROVE  Orderly(p)
PROOF
<1> DEFINE files == SealedDataset
           r == Verified(proc[p], "insert", files)
<1>1. /\ proc[p] \in Processes /\ Local(proc[p]) /\ Learnt(proc[p])
      /\ proc[p].watched /\ proc[p].pc \in Steady
  BY OnlyReturnsAreUnwatched DEF IInv, TypeInv, S1Project, Is, Steady
<1>2. files \in SUBSET Artifacts
  BY ArtifactsAreKnown
<1>3. Check(p, TRUE, "insert", files) /\ "insert" \in Steady
  BY DEF S1Project, Steady
<1> HIDE DEF files
<1>4. r \in Processes
  BY <1>1, <1>2, <1>3, VerifiedProcess
<1>5. Local(r)
  BY <1>1, <1>4 DEF S1Project, Is, Verified, Processes, Local, TxnOf, StageOf,
     SeenBy, ToldAtEnd, Steps, Stages
<1>6. Learnt(r)
  BY <1>1 DEF S1Project, Is, Verified, Processes, Learnt
<1> QED  BY <1>1, <1>2, <1>3, <1>5, <1>6, CheckIsOrderly

LEMMA VerifySelectIsOrderly ==
  ASSUME IInv, NEW p \in Procs, VerifySelect(p)
  PROVE  Orderly(p)
PROOF
<1> DEFINE files == LoadS1Outcome \cup LoadS0Outcome
           r == Verified(proc[p], "reconstruct", files)
<1>1. /\ proc[p] \in Processes /\ Local(proc[p]) /\ Learnt(proc[p])
      /\ proc[p].watched /\ proc[p].pc \in Steady
  BY OnlyReturnsAreUnwatched DEF IInv, TypeInv, VerifySelect, Is, Steady
<1>2. files \in SUBSET Artifacts
  BY ArtifactsAreKnown
<1>3. Check(p, S0Accepted /\ Cardinality(SelectedS1) = 1, "reconstruct", files) /\ "reconstruct" \in Steady
  BY DEF VerifySelect, Steady
<1> HIDE DEF files
<1>4. r \in Processes
  BY <1>1, <1>2, <1>3, VerifiedProcess
<1>5. Local(r)
  BY <1>1, <1>4 DEF VerifySelect, Is, Verified, Processes, Local, TxnOf, StageOf,
     SeenBy, ToldAtEnd, Steps, Stages
<1>6. Cardinality(SelectedS1) = 1 => SelectedS1 # {}
  BY SelectedIsThere
<1>7. (S0Accepted /\ Cardinality(SelectedS1) = 1) => Learnt(r)
  BY <1>1, <1>6 DEF VerifySelect, Is, Verified, Processes, Learnt
<1> QED  BY <1>1, <1>2, <1>3, <1>5, <1>7, CheckIsOrderly

LEMMA GeometryBeginIsOrderly ==
  ASSUME IInv, NEW p \in Procs, GeometryBegin(p)
  PROVE  Orderly(p)
PROOF
<1> DEFINE files == LoadS1Acceptance
           r == Verified(proc[p], "read", files)
<1>1. /\ proc[p] \in Processes /\ Local(proc[p]) /\ Learnt(proc[p])
      /\ proc[p].watched /\ proc[p].pc \in Steady
  BY OnlyReturnsAreUnwatched DEF IInv, TypeInv, GeometryBegin, Is, Steady
<1>2. files \in SUBSET Artifacts
  BY ArtifactsAreKnown
<1>3. Check(p, TRUE, "read", files) /\ "read" \in Steady
  BY DEF GeometryBegin, Steady
<1> HIDE DEF files
<1>4. r \in Processes
  BY <1>1, <1>2, <1>3, VerifiedProcess
<1>5. Local(r)
  BY <1>1, <1>4 DEF GeometryBegin, Is, Verified, Processes, Local, TxnOf, StageOf,
     SeenBy, ToldAtEnd, Steps, Stages
<1>6. Learnt(r)
  BY <1>1 DEF GeometryBegin, Is, Verified, Processes, Learnt
<1> QED  BY <1>1, <1>2, <1>3, <1>5, <1>6, CheckIsOrderly

LEMMA ReturnBeginIsOrderly ==
  ASSUME IInv, NEW p \in Procs, ReturnBegin(p)
  PROVE  Orderly(p)
PROOF
<1> DEFINE files == RunnerPreregistration \cup RequireReturnAuthorization \cup GovernedEvents
           r == Verified(proc[p], "lineage", files)
<1>1. /\ proc[p] \in Processes /\ Local(proc[p]) /\ Learnt(proc[p])
      /\ proc[p].watched /\ proc[p].pc \in Steady
  BY OnlyReturnsAreUnwatched DEF IInv, TypeInv, ReturnBegin, Is, Steady
<1>2. files \in SUBSET Artifacts
  BY ArtifactsAreKnown
<1>3. Check(p, TRUE, "lineage", files) /\ "lineage" \in Steady
  BY DEF ReturnBegin, Steady
<1>4. RunnerPreregistration \cup RequireReturnAuthorization \cup GovernedEvents \subseteq files
  OBVIOUS
<1> HIDE DEF files
<1>5. r \in Processes
  BY <1>1, <1>2, <1>3, VerifiedProcess
<1>6. Local(r)
  BY <1>1, <1>5, <1>4 DEF ReturnBegin, Is, Verified, Processes, Local, TxnOf, StageOf,
     SeenBy, ToldAtEnd, Steps, Stages
<1>7. Learnt(r)
  BY <1>1 DEF ReturnBegin, Is, Verified, Processes, Learnt
<1> QED  BY <1>1, <1>2, <1>3, <1>6, <1>7, CheckIsOrderly

-----------------------------------------------------------------------------
(* The child of the returns.                                                  *)

LEMMA ChildFailsOrderly ==
  ASSUME IInv, NEW p \in Procs, NEW event \in Results, ChildFails(p, event),
         proc[p].op = "returns", proc[p].pc \in {"lineage", "absent", "load", "insert", "send"},
         event # None => proc[p].pc = "load" \/ event = proc[p].event,
         RowsStay, flight' = flight, UNCHANGED <<intact, runs, faults>>
  PROVE  Orderly(p)
PROOF
<1> DEFINE r == [proc[p] EXCEPT !.pc = IF proc[p].watched THEN "error" ELSE "done",
                                !.txn = NoTxn, !.event = event]
<1>1. proc[p] \in Processes /\ Local(proc[p]) /\ Learnt(proc[p])
  BY DEF IInv, TypeInv
<1>2. NoTxn \in Txns
  BY DEF NoTxn, Txns, Results
<1>3. r \in Processes
  BY <1>1, <1>2 DEF Processes
<1>4. Local(r)
  BY <1>1, <1>3 DEF Processes, Local, TxnOf, StageOf, SeenBy, ToldAtEnd, Steps, NoTxn
<1>5. Learnt(r)
  BY <1>1, <1>3, <1>4 DEF Processes, Learnt, Local, ToldAtEnd
<1>6. Fresh(proc[p])
  BY DEF Fresh
<1>7. MayBecome(p, r)
  BY <1>1, <1>3, <1>4, <1>5, <1>6 DEF MayBecome, Processes
<1>8. Become(p, r)
  BY DEF ChildFails
<1>9. intact' \subseteq Fragile /\ runs' \in 0..MaxRuns /\ faults' \in 0..MaxFaults
  BY DEF IInv, TypeInv
<1> HIDE DEF r
<1> QED  BY <1>7, <1>8, <1>9, BecomingIsOrderly

LEMMA ChildStepIsOrderly ==
  ASSUME IInv, NEW p \in Procs, NEW ok, NEW pc \in Steady,
         NEW files \in SUBSET Artifacts, ChildStep(p, ok, pc, files),
         proc[p].op = "returns", proc[p].pc \in {"lineage", "absent", "load", "insert", "send"},
         ok => /\ Local(Verified(proc[p], pc, files))
               /\ Learnt(Verified(proc[p], pc, files))
  PROVE  Orderly(p)
PROOF
<1>1. RowsStay /\ flight' = flight /\ UNCHANGED <<intact, runs, faults>>
  BY DEF ChildStep, World, RowsStay
<1>2. intact' \subseteq Fragile /\ runs' \in 0..MaxRuns /\ faults' \in 0..MaxFaults
  BY <1>1 DEF IInv, TypeInv
<1>3. proc[p] \in Processes
  BY DEF IInv, TypeInv
<1>4. CASE ok /\ Holds(files)
  <2>1. Become(p, Verified(proc[p], pc, files))
    BY <1>4 DEF ChildStep, Verify, Verified
  <2>2. Verified(proc[p], pc, files) \in Processes
    BY <1>3, VerifiedProcess
  <2>3. Verified(proc[p], pc, files).txn = proc[p].txn
    BY <1>3, VerifiedProcess
  <2>4. Verified(proc[p], pc, files).mine = proc[p].mine
    BY <1>3, VerifiedProcess
  <2>5. Fresh(proc[p])
    BY DEF Fresh
  <2>6. MayBecome(p, Verified(proc[p], pc, files))
    BY <1>4, <2>2, <2>3, <2>4, <2>5 DEF MayBecome
  <2> QED  BY <1>1, <1>2, <2>1, <2>6, BecomingIsOrderly
<1>5. CASE ~(ok /\ Holds(files))
  <2>1. ChildFails(p, proc[p].event) /\ proc[p].event \in Results
    BY <1>3, <1>5 DEF ChildStep, Processes
  <2> QED  BY <1>1, <2>1, ChildFailsOrderly
<1> QED  BY <1>4, <1>5

LEMMA ChildLineageIsOrderly ==
  ASSUME IInv, NEW p \in Procs, ChildLineage(p)
  PROVE  Orderly(p)
PROOF
<1> DEFINE files == LineageFiles
           r == Verified(proc[p], "absent", files)
<1>1. /\ proc[p] \in Processes /\ Local(proc[p]) /\ Learnt(proc[p])
      /\ proc[p].op = "returns"
      /\ proc[p].pc \in {"lineage", "absent", "load", "insert", "send"}
  BY DEF IInv, TypeInv, ChildLineage, Is
<1>2. files \in SUBSET Artifacts
  BY ArtifactsAreKnown
<1>3. ChildStep(p, LineageHolds, "absent", files) /\ "absent" \in Steady
  BY DEF ChildLineage, Steady
<1>4. FrozenBefore.returns \subseteq RunnerPreregistration \cup RequireReturnAuthorization
                                    \cup GovernedEvents \cup files
  BY ArtifactsOfStages
<1> HIDE DEF files
<1>5. r \in Processes
  BY <1>1, <1>2, <1>3, VerifiedProcess
<1>6. Local(r)
  BY <1>1, <1>5, <1>4 DEF ChildLineage, Is, Verified, Processes, Local, TxnOf, StageOf,
     SeenBy, ToldAtEnd, Steps, Stages
<1>7. LineageHolds => SelectedS1 # {}
  BY SelectedIsThere DEF LineageHolds, ReturnAnchors
<1>8. LineageHolds => S1Stored
  BY <1>7 DEF LineageHolds, ReturnAnchors, SelectedS1, S1Stored, AcceptedIds
<1>9. (LineageHolds) => Learnt(r)
  BY <1>1, <1>7, <1>8 DEF ChildLineage, Is, Verified, Processes, Learnt
<1> QED  BY <1>1, <1>2, <1>3, <1>6, <1>9, ChildStepIsOrderly

LEMMA ChildAbsentIsOrderly ==
  ASSUME IInv, NEW p \in Procs, ChildAbsent(p)
  PROVE  Orderly(p)
PROOF
<1> DEFINE files == {}
           r == Verified(proc[p], "load", files)
<1>1. /\ proc[p] \in Processes /\ Local(proc[p]) /\ Learnt(proc[p])
      /\ proc[p].op = "returns"
      /\ proc[p].pc \in {"lineage", "absent", "load", "insert", "send"}
  BY DEF IInv, TypeInv, ChildAbsent, Is
<1>2. files \in SUBSET Artifacts
  BY ArtifactsAreKnown
<1>3. ChildStep(p, OfStage("returns") = {} /\ proc[p].watched, "load", files) /\ "load" \in Steady
  BY DEF ChildAbsent, Steady
<1> HIDE DEF files
<1>4. r \in Processes
  BY <1>1, <1>2, <1>3, VerifiedProcess
<1>5. Local(r)
  BY <1>1, <1>4 DEF ChildAbsent, Is, Verified, Processes, Local, TxnOf, StageOf,
     SeenBy, ToldAtEnd, Steps, Stages
<1>6. (OfStage("returns") = {} /\ proc[p].watched) => Learnt(r)
  BY <1>1 DEF ChildAbsent, Is, Verified, Processes, Learnt
<1> QED  BY <1>1, <1>2, <1>3, <1>5, <1>6, ChildStepIsOrderly

LEMMA ChildSendIsOrderly ==
  ASSUME IInv, NEW p \in Procs, ChildSend(p)
  PROVE  Orderly(p)
PROOF
<1> DEFINE files == {}
           r == Verified(proc[p], "commit", files)
<1>1. /\ proc[p] \in Processes /\ Local(proc[p]) /\ Learnt(proc[p])
      /\ proc[p].op = "returns"
      /\ proc[p].pc \in {"lineage", "absent", "load", "insert", "send"}
  BY DEF IInv, TypeInv, ChildSend, Is
<1>2. files \in SUBSET Artifacts
  BY ArtifactsAreKnown
<1>3. ChildStep(p, proc[p].watched, "commit", files) /\ "commit" \in Steady
  BY DEF ChildSend, Steady
<1> HIDE DEF files
<1>4. r \in Processes
  BY <1>1, <1>2, <1>3, VerifiedProcess
<1>5. Local(r)
  BY <1>1, <1>4 DEF ChildSend, Is, Verified, Processes, Local, TxnOf, StageOf,
     SeenBy, ToldAtEnd, Steps, Stages
<1>6. (proc[p].watched) => Learnt(r)
  BY <1>1 DEF ChildSend, Is, Verified, Processes, Learnt
<1> QED  BY <1>1, <1>2, <1>3, <1>5, <1>6, ChildStepIsOrderly

LEMMA ChildCalculateIsOrderly ==
  ASSUME IInv, NEW p \in Procs, ChildCalculate(p)
  PROVE  Orderly(p)
PROOF
<1>1. /\ proc[p] \in Processes /\ Local(proc[p]) /\ Learnt(proc[p])
      /\ proc[p].op = "returns" /\ proc[p].pc = "load"
  BY DEF IInv, TypeInv, ChildCalculate, Is
<1>2. RowsStay /\ flight' = flight /\ UNCHANGED <<intact, runs, faults>>
  BY DEF ChildCalculate, World, RowsStay
<1>3. PICK e \in GovernedCohort :
        \/ /\ ResultOf(e).status = "priced"
           /\ Become(p, [proc[p] EXCEPT !.pc = "insert", !.event = ResultOf(e)])
        \/ ChildFails(p, ResultOf(e))
        \/ ChildFails(p, Refused)
  <2>1. PICK e \in GovernedCohort :
          LET n == IF Holds(SealedDataset) /\ proc[p].watched THEN LoadEvent(e) ELSE Refused
              result == IF n.status = "loaded" THEN Calculate(e, n) ELSE n
          IN  IF result.status = "priced"
              THEN Become(p, [proc[p] EXCEPT !.pc = "insert", !.event = result])
              ELSE ChildFails(p, result)
    BY DEF ChildCalculate
  <2>2. Refused.status = "refused"
    BY DEF Refused
  <2> QED  BY <2>1, <2>2 DEF ResultOf
<1>4. ResultOf(e) \in Results /\ Refused \in Results
  BY DEF Results
<1>5. CASE /\ ResultOf(e).status = "priced"
           /\ Become(p, [proc[p] EXCEPT !.pc = "insert", !.event = ResultOf(e)])
  <2> DEFINE r == [proc[p] EXCEPT !.pc = "insert", !.event = ResultOf(e)]
  <2>0. ResultOf(e) \in Priced
    BY <1>5 DEF Priced
  <2>1. r \in Processes
    BY <1>1, <1>4 DEF Processes
  <2>2. Local(r)
    BY <1>1, <2>0, <2>1 DEF Processes, Local, TxnOf, StageOf, SeenBy, ToldAtEnd, Steps
  <2>3. Learnt(r)
    BY <1>1, <2>1 DEF Processes, Learnt
  <2>4. MayBecome(p, r)
    BY <1>1, <2>1, <2>2, <2>3 DEF MayBecome, Processes, Fresh
  <2>5. Become(p, r)
    BY <1>3, <1>5
  <2>6. intact' \subseteq Fragile /\ runs' \in 0..MaxRuns /\ faults' \in 0..MaxFaults
    BY <1>2 DEF IInv, TypeInv
  <2> HIDE DEF r
  <2> QED  BY <1>2, <2>4, <2>5, <2>6, BecomingIsOrderly
<1>6. CASE ChildFails(p, ResultOf(e)) \/ ChildFails(p, Refused)
  BY <1>1, <1>2, <1>4, <1>6, ChildFailsOrderly
<1> QED  BY <1>3, <1>5, <1>6

-----------------------------------------------------------------------------
(* Inserting.                                                                 *)

\* A transaction of S1 or of the returns has its stage to itself when it has
\* its key to itself: the key of these stages is fixed.
LEMMA KeyIsOfStage ==
  ASSUME IInv, NEW p \in Procs, NEW t, t.stage \in {"s1", "returns"},
         ~JobKeyWaits(p, t), ~JobKeyTaken(t)
  PROVE  \A u \in jobs \cup OpenTxns(p) : u.stage # t.stage
PROOF
<1>1. SUFFICES ASSUME NEW u \in jobs \cup OpenTxns(p), u.stage = t.stage
               PROVE  FALSE
  OBVIOUS
<1>2. IdempotencyKey(u) = IdempotencyKey(t)
  BY <1>1 DEF IdempotencyKey
<1>3. CASE u \in jobs
  BY <1>2, <1>3 DEF JobKeyTaken
<1>4. CASE u \in flight
  BY <1>2, <1>4 DEF JobKeyWaits, OpenTxns, IsJob, IInv, RowsInv, RowOf
<1>5. CASE u \in {proc[q].txn : q \in Procs \ {p}}
  <2>1. PICK q \in Procs \ {p} : u = proc[q].txn
    BY <1>5
  <2>2. proc[q] \in Processes /\ TxnOf(proc[q])
    BY DEF IInv, TypeInv, Local
  <2>3. u.pk # 0
    BY <1>1, <2>1, <2>2 DEF TxnOf, StageOf, Processes
  <2> QED  BY <1>2, <2>1, <2>3 DEF JobKeyWaits, OpenTxns, IsJob
<1> QED  BY <1>1, <1>3, <1>4, <1>5 DEF OpenTxns

\* p becomes r, with a transaction under keys that nobody else has.
MayOpen(p, r) ==
  /\ r \in Processes /\ Local(r) /\ Learnt(r)
  /\ r.txn.stage \in Stages => \A u \in jobs \cup OpenTxns(p) : u.stage # r.txn.stage
  /\ r.txn.stage = "s0" => 2 <= r.txn.strategy

LEMMA OpeningIsOrderly ==
  ASSUME IInv, NEW p \in Procs, NEW r, Become(p, r), MayOpen(p, r), RowsStay,
         flight' = flight, UNCHANGED <<intact, runs, faults>>,
         r.txn.strategy < strategySeq',
         \/ r.txn.pk = 0 /\ r.mine = proc[p].mine /\ Fresh(proc[p])
         \/ r.txn.pk = jobSeq /\ r.mine = jobSeq /\ jobSeq' = jobSeq + 1
  PROVE  Orderly(p)
PROOF
<1>1. proc' \in [Procs -> Processes] /\ proc'[p] = r /\ Alone(p)
  BY Becoming DEF MayOpen, IInv, TypeInv
<1>2. Learnt(proc[p])'
  BY <1>1 DEF MayOpen, RowsStay, Learnt, S0Stored, S1Stored, SelectedS0, SelectedS1, OfStage
<1>3. Opens(p)
  BY <1>1 DEF MayOpen, Opens
<1>4. intact' \subseteq Fragile /\ runs' \in 0..MaxRuns /\ faults' \in 0..MaxFaults
  BY DEF IInv, TypeInv
<1> QED  BY <1>1, <1>2, <1>3, <1>4 DEF MayOpen, Orderly

LEMMA S0CreateStrategyIsOrderly ==
  ASSUME IInv, NEW p \in Procs, S0CreateStrategy(p)
  PROVE  Orderly(p)
PROOF
<1>1. /\ proc[p] \in Processes /\ Local(proc[p]) /\ Learnt(proc[p]) /\ proc[p].watched
      /\ proc[p].op = "s0" /\ proc[p].pc = "strategy"
  BY OnlyReturnsAreUnwatched DEF IInv, TypeInv, S0CreateStrategy, Is
<1>2. strategySeq \in Nat /\ 2 <= strategySeq
  BY DEF IInv, RowsInv
<1>3. RowsStay /\ flight' = flight /\ UNCHANGED <<intact, runs, faults>>
  BY <1>2 DEF S0CreateStrategy, RowsStay
<1>4. CASE StrategyTaken \/ ~Holds(LoadV2Policy)
  BY <1>1, <1>3, <1>4, RefusalIsOrderly DEF S0CreateStrategy, Running
<1>5. CASE ~(StrategyTaken \/ ~Holds(LoadV2Policy))
  <2> DEFINE t == [NoTxn EXCEPT !.stage = "s0", !.strategy = strategySeq]
             r == [proc[p] EXCEPT !.pc = "validate", !.seen = @ \cup LoadV2Policy, !.txn = t]
  <2>1. Become(p, r) /\ strategySeq' = strategySeq + 1
    BY <1>5 DEF S0CreateStrategy
  <2>2. t \in Txns /\ t.stage = "s0" /\ t.strategy = strategySeq /\ t.pk = 0
    BY <1>2 DEF Txns, NoTxn, Stages, Results
  <2> HIDE DEF t
  <2>3. r \in Processes
    BY <1>1, <2>2, ArtifactsAreKnown DEF Processes
  <2>4. Local(r)
    BY <1>1, <2>2, <2>3 DEF Processes, Local, TxnOf, StageOf, SeenBy, ToldAtEnd, Steps
  <2>5. Learnt(r)
    BY <1>1, <2>3 DEF Processes, Learnt
  <2>6. \A u \in jobs : u.stage # "s0"
    BY <1>5 DEF StrategyTaken, IInv, RowsInv, OfStage
  <2>7. \A u \in flight : u.stage = "s0" => u.strategy # 0
    BY DEF IInv, RowsInv
  <2>8. \A q \in Procs \ {p} : proc[q].txn.stage = "s0" => proc[q].txn.strategy # 0
    BY DEF IInv, Owns
  <2>9. \A u \in jobs \cup OpenTxns(p) : u.stage # "s0"
    BY <2>6, <2>7, <2>8 DEF S0CreateStrategy, StrategyWaits, OpenTxns
  <2>10. r.txn = t /\ r.mine = proc[p].mine /\ Fresh(proc[p])
    BY <1>1 DEF Processes, Fresh
  <2> HIDE DEF r
  <2>11. MayOpen(p, r)
    BY <1>2, <2>2, <2>3, <2>4, <2>5, <2>9, <2>10 DEF MayOpen
  <2> QED  BY <1>2, <1>3, <2>1, <2>2, <2>10, <2>11, OpeningIsOrderly
<1> QED  BY <1>4, <1>5

\* The JobRun of p's stage, t, is inserted or refused.
LEMMA InsertJobIsOrderly ==
  ASSUME IInv, NEW p \in Procs, NEW t \in Txns, InsertJob(p, "send", t),
         proc[p].op \in {"s0", "s1"}, proc[p].pc = "insert", proc[p].op = t.stage,
         FrozenBefore[t.stage] \subseteq t.seen, t.strategy < strategySeq,
         t.stage = "s0" => 2 <= t.strategy /\ proc[p].txn.stage = "s0",
         t.stage = "s1" => t.strategy = AcceptedIds.strategy /\ t.s0 = AcceptedIds.s0
  PROVE  Orderly(p)
PROOF
<1>1. /\ proc[p] \in Processes /\ Local(proc[p]) /\ Learnt(proc[p]) /\ proc[p].watched
      /\ jobSeq \in Nat /\ 4 <= jobSeq /\ strategySeq \in Nat
  BY OnlyReturnsAreUnwatched DEF IInv, TypeInv, RowsInv
<1>2. RowsStay /\ flight' = flight /\ UNCHANGED <<intact, runs, faults>> /\ jobSeq' = jobSeq + 1
      /\ strategySeq' = strategySeq
  BY DEF InsertJob, RowsStay
<1>3. CASE JobKeyTaken(t)
  BY <1>1, <1>2, <1>3, RefusalIsOrderly DEF InsertJob, Running
<1>4. CASE ~JobKeyTaken(t)
  <2> DEFINE u == [t EXCEPT !.pk = jobSeq]
             r == [proc[p] EXCEPT !.pc = "send", !.txn = u, !.mine = jobSeq]
  <2>1. Become(p, r)
    BY <1>4 DEF InsertJob
  <2>2. /\ u \in Txns /\ u.pk = jobSeq /\ u.stage = t.stage /\ u.strategy = t.strategy
        /\ u.s0 = t.s0 /\ u.seen = t.seen
    BY <1>1 DEF Txns
  <2> HIDE DEF u
  <2>3. r \in Processes
    BY <1>1, <2>2 DEF Processes
  <2>4. Local(r)
    BY <1>1, <2>2, <2>3 DEF Processes, Local, TxnOf, StageOf, SeenBy, ToldAtEnd, Steps, Stages
  <2>5. Learnt(r)
    BY <1>1, <2>3 DEF Processes, Learnt, Local, ToldAtEnd
  <2>6. ASSUME t.stage = "s0", NEW v \in jobs \cup OpenTxns(p)
        PROVE  v.stage # "s0"
    <3>1. Apart(proc[p].txn, v)
      BY <2>6 DEF IInv, Owns, ProcsApart, OpenTxns
    <3> QED  BY <2>6, <3>1 DEF Apart, Stages
  <2>7. t.stage = "s1" => \A v \in jobs \cup OpenTxns(p) : v.stage # t.stage
    BY <1>4, KeyIsOfStage DEF InsertJob
  <2>8. \A v \in jobs \cup OpenTxns(p) : v.stage # u.stage
    BY <2>2, <2>6, <2>7
  <2>9. r.txn = u /\ r.mine = jobSeq
    BY <1>1 DEF Processes
  <2> HIDE DEF r
  <2>10. MayOpen(p, r)
    BY <2>2, <2>3, <2>4, <2>5, <2>8, <2>9 DEF MayOpen
  <2> QED  BY <1>2, <2>1, <2>2, <2>9, <2>10, OpeningIsOrderly
<1> QED  BY <1>3, <1>4

LEMMA S0InsertIsOrderly ==
  ASSUME IInv, NEW p \in Procs, S0Insert(p)
  PROVE  Orderly(p)
PROOF
<1>1. /\ proc[p] \in Processes /\ Local(proc[p]) /\ proc[p].op = "s0" /\ proc[p].pc = "insert"
  BY DEF IInv, TypeInv, S0Insert, Is
<1>2. proc[p].txn \in Txns /\ proc[p].seen \in SUBSET Artifacts
  BY <1>1 DEF Processes
<1>3. proc[p].txn.stage = "s0" /\ FrozenBefore.s0 \subseteq proc[p].seen
  BY <1>1 DEF Local, TxnOf, StageOf, SeenBy
<1>4. proc[p].txn.strategy < strategySeq /\ 2 <= proc[p].txn.strategy
  BY <1>3 DEF IInv, Owns
<1> DEFINE t == [proc[p].txn EXCEPT !.seen = proc[p].seen]
<1>5. /\ t \in Txns /\ t.stage = "s0" /\ t.strategy = proc[p].txn.strategy
      /\ t.seen = proc[p].seen
  BY <1>2, <1>3 DEF Txns
<1>6. InsertJob(p, "send", t)
  BY DEF S0Insert
<1>7. FrozenBefore[t.stage] \subseteq t.seen
  BY <1>3, <1>5 DEF FrozenBefore
<1> HIDE DEF t
<1> QED  BY <1>1, <1>3, <1>4, <1>5, <1>6, <1>7, InsertJobIsOrderly

\* What S0 stored: the strategy's key has been given out.
LEMMA AcceptedIsGivenOut ==
  ASSUME IInv, S0Stored
  PROVE  AcceptedIds.strategy < strategySeq
  BY DEF IInv, S0Stored, RowsInv, OfStage

LEMMA S1PersistIsOrderly ==
  ASSUME IInv, NEW p \in Procs, S1Persist(p)
  PROVE  Orderly(p)
PROOF
<1>1. /\ proc[p] \in Processes /\ Local(proc[p]) /\ Learnt(proc[p])
      /\ proc[p].op = "s1" /\ proc[p].pc = "insert"
  BY DEF IInv, TypeInv, S1Persist, Is
<1>2. S0Stored /\ FrozenBefore.s1 \subseteq proc[p].seen /\ proc[p].seen \in SUBSET Artifacts
  BY <1>1 DEF Local, Learnt, SeenBy, Processes
<1>3. AcceptedIds.strategy < strategySeq
  BY <1>2, AcceptedIsGivenOut
<1> DEFINE t == [NoTxn EXCEPT !.stage = "s1", !.strategy = AcceptedIds.strategy,
                              !.s0 = AcceptedIds.s0, !.seen = proc[p].seen]
<1>4. /\ t \in Txns /\ t.stage = "s1" /\ t.strategy = AcceptedIds.strategy
      /\ t.s0 = AcceptedIds.s0 /\ t.seen = proc[p].seen
  BY <1>2 DEF Txns, NoTxn, AcceptedIds, Stages, Results
<1>5. InsertJob(p, "send", t)
  BY DEF S1Persist
<1>6. FrozenBefore[t.stage] \subseteq t.seen
  BY <1>2, <1>4 DEF FrozenBefore
<1> HIDE DEF t
<1> QED  BY <1>1, <1>3, <1>4, <1>5, <1>6, InsertJobIsOrderly

LEMMA ChildPersistIsOrderly ==
  ASSUME IInv, NEW p \in Procs, ChildPersist(p)
  PROVE  Orderly(p)
PROOF
<1>1. /\ proc[p] \in Processes /\ Local(proc[p]) /\ Learnt(proc[p])
      /\ proc[p].op = "returns" /\ proc[p].pc = "insert"
      /\ jobSeq \in Nat /\ 4 <= jobSeq /\ strategySeq \in Nat
  BY DEF IInv, TypeInv, RowsInv, ChildPersist, Is
<1>2. /\ S1Stored /\ FrozenBefore.returns \subseteq proc[p].seen
      /\ proc[p].seen \in SUBSET Artifacts /\ proc[p].event \in Results
  BY <1>1 DEF Local, Learnt, SeenBy, Processes
<1>3. S0Stored
  BY <1>2 DEF S1Stored, IInv, RowsInv, BoundTo, OfStage
<1>4. RowsStay /\ flight' = flight /\ UNCHANGED <<intact, runs, faults>>
      /\ jobSeq' = jobSeq + 1 /\ strategySeq' = strategySeq
  BY DEF ChildPersist, RowsStay
<1> DEFINE t == [NoTxn EXCEPT !.stage = "returns", !.strategy = AcceptedIds.strategy,
                              !.s0 = AcceptedIds.s0, !.seen = proc[p].seen,
                              !.report = proc[p].event]
<1>5. CASE JobKeyTaken(t) \/ ~proc[p].watched
  <2>1. ChildFails(p, proc[p].event)
    BY <1>5 DEF ChildPersist
  <2> QED  BY <1>1, <1>2, <1>4, <2>1, ChildFailsOrderly
<1>6. CASE ~(JobKeyTaken(t) \/ ~proc[p].watched)
  <2> DEFINE u == [t EXCEPT !.pk = jobSeq]
             r == [proc[p] EXCEPT !.pc = "send", !.txn = u, !.mine = jobSeq]
  <2>1. Become(p, r) /\ ~JobKeyWaits(p, t)
    BY <1>6 DEF ChildPersist
  <2>2. t \in Txns /\ t.stage = "returns" /\ t.strategy = AcceptedIds.strategy
        /\ t.s0 = AcceptedIds.s0 /\ t.seen = proc[p].seen /\ t.report = proc[p].event
    BY <1>2 DEF Txns, NoTxn, AcceptedIds, Stages, Results
  <2> HIDE DEF t
  <2>3. \A v \in jobs \cup OpenTxns(p) : v.stage # t.stage
    BY <1>6, <2>1, <2>2, KeyIsOfStage
  <2>4. /\ u \in Txns /\ u.pk = jobSeq /\ u.stage = "returns" /\ u.strategy = AcceptedIds.strategy
        /\ u.s0 = AcceptedIds.s0 /\ u.seen = proc[p].seen /\ u.report \in Priced
    BY <1>1, <2>2 DEF Txns, Local
  <2> HIDE DEF u
  <2>5. r \in Processes
    BY <1>1, <2>4 DEF Processes
  <2>6. Local(r)
    BY <1>1, <1>2, <2>4, <2>5 DEF Processes, Local, TxnOf, StageOf, SeenBy, ToldAtEnd, Steps,
       Stages, FrozenBefore
  <2>7. Learnt(r)
    BY <1>1, <2>5 DEF Processes, Learnt, Local, ToldAtEnd
  <2>8. r.txn = u /\ r.mine = jobSeq
    BY <1>1 DEF Processes
  <2> HIDE DEF r
  <2>9. MayOpen(p, r)
    BY <2>2, <2>3, <2>4, <2>5, <2>6, <2>7, <2>8 DEF MayOpen
  <2>10. r.txn.strategy < strategySeq'
    BY <1>3, <1>4, <2>4, <2>8, AcceptedIsGivenOut
  <2> QED  BY <1>4, <2>1, <2>8, <2>9, <2>10, <2>4, OpeningIsOrderly
<1> QED  BY <1>5, <1>6

LEMMA V1CreateIsOrderly ==
  ASSUME IInv, NEW p \in Procs, V1Create(p)
  PROVE  Orderly(p)
PROOF
<1>1. /\ proc[p] \in Processes /\ Local(proc[p]) /\ Learnt(proc[p]) /\ proc[p].watched
      /\ proc[p].op = "v1" /\ proc[p].pc = "insert"
      /\ jobSeq \in Nat /\ 4 <= jobSeq /\ strategySeq \in Nat /\ 2 <= strategySeq
  BY OnlyReturnsAreUnwatched DEF IInv, TypeInv, RowsInv, V1Create, Is
<1>2. RowsStay /\ flight' = flight /\ UNCHANGED <<intact, runs, faults>>
      /\ jobSeq' = jobSeq + 1 /\ strategySeq' = strategySeq
  BY DEF V1Create, RowsStay
<1>3. CASE JobKeyTaken(V1Job)
  <2>1. Report(p, "ok")
    BY <1>3 DEF V1Create
  <2>2. MayReport(proc[p], "ok")
    BY <1>1 DEF MayReport, Stages
  <2>3. intact' \subseteq Fragile /\ runs' \in 0..MaxRuns /\ faults' \in 0..MaxFaults
    BY <1>2 DEF IInv, TypeInv
  <2> QED  BY <1>2, <2>1, <2>2, <2>3, ReportIsOrderly
<1>4. CASE ~JobKeyTaken(V1Job)
  <2> DEFINE u == [V1Job EXCEPT !.pk = jobSeq]
             r == [proc[p] EXCEPT !.pc = "send", !.txn = u, !.mine = jobSeq]
  <2>1. Become(p, r)
    BY <1>4 DEF V1Create
  <2>2. u \in Txns /\ u.pk = jobSeq /\ u.stage = "v1_extra" /\ u.strategy = 1
    BY <1>1 DEF Txns, V1Job, NoTxn, Results
  <2> HIDE DEF u
  <2>3. r \in Processes
    BY <1>1, <2>2 DEF Processes
  <2>4. Local(r)
    BY <1>1, <2>2, <2>3 DEF Processes, Local, TxnOf, StageOf, SeenBy, ToldAtEnd, Steps, Stages
  <2>5. Learnt(r)
    BY <1>1, <2>3 DEF Processes, Learnt, Stages
  <2>6. r.txn = u /\ r.mine = jobSeq
    BY <1>1 DEF Processes
  <2> HIDE DEF r
  <2>7. MayOpen(p, r)
    BY <2>2, <2>3, <2>4, <2>5, <2>6 DEF MayOpen, Stages
  <2> QED  BY <1>1, <1>2, <2>1, <2>2, <2>6, <2>7, OpeningIsOrderly
<1> QED  BY <1>3, <1>4

-----------------------------------------------------------------------------
(* Reports, commits and faults.                                               *)

LEMMA WorldStays ==
  ASSUME IInv, UNCHANGED World
  PROVE  /\ RowsStay /\ flight' = flight /\ UNCHANGED <<intact, runs, faults>>
         /\ intact' \subseteq Fragile /\ runs' \in 0..MaxRuns /\ faults' \in 0..MaxFaults
  BY DEF World, RowsStay, IInv, TypeInv

LEMMA VerdictsAreOrderly ==
  ASSUME IInv, NEW p \in Procs, VerifyReconstructed(p) \/ GeometryRead(p)
  PROVE  Orderly(p)
PROOF
<1>1. /\ proc[p] \in Processes /\ Learnt(proc[p]) /\ proc[p].watched
      /\ proc[p].op \in {"verify", "geometry"} /\ proc[p].pc \in {"reconstruct", "read"}
  BY OnlyReturnsAreUnwatched DEF IInv, TypeInv, VerifyReconstructed, GeometryRead, Is
<1>2. UNCHANGED World
  BY DEF VerifyReconstructed, GeometryRead
<1>3. CASE Refuse(p)
  BY <1>1, <1>2, <1>3, WorldStays, RefusalIsOrderly DEF Running
<1>4. CASE ~Refuse(p)
  <2>1. Report(p, "accepted")
    BY <1>4 DEF VerifyReconstructed, GeometryRead
  <2>2. S1Stored
    <3>1. CASE VerifyReconstructed(p)
      <4>1. SelectedS1 # {} /\ \A j \in SelectedS1 : j.pk = AcceptedIds.s1
        BY <1>1, <1>4, <3>1 DEF VerifyReconstructed, Is, Learnt
      <4> QED  BY <4>1 DEF SelectedS1, S1Stored
    <3>2. CASE GeometryRead(p)
      <4>1. GeometrySource
        BY <1>4, <3>2 DEF GeometryRead
      <4>2. OfStage("s1") # {} /\ \A j \in OfStage("s1") : j.pk = AcceptedIds.s1
        BY <4>1, SelectedIsThere DEF GeometrySource
      <4> QED  BY <4>2 DEF S1Stored
    <3> QED  BY <3>1, <3>2
  <2>3. MayReport(proc[p], "accepted")
    BY <1>1, <2>2 DEF MayReport
  <2> QED  BY <1>2, <2>1, <2>3, WorldStays, ReportIsOrderly
<1> QED  BY <1>3, <1>4

LEMMA V1GetIsOrderly ==
  ASSUME IInv, NEW p \in Procs, V1Get(p)
  PROVE  Orderly(p)
PROOF
<1>1. /\ proc[p] \in Processes /\ Local(proc[p]) /\ Learnt(proc[p]) /\ proc[p].watched
      /\ proc[p].op = "v1" /\ proc[p].pc = "begin"
  BY OnlyReturnsAreUnwatched DEF IInv, TypeInv, V1Get, Is
<1>2. UNCHANGED World
  BY DEF V1Get
<1>3. CASE Refuse(p)
  BY <1>1, <1>2, <1>3, WorldStays, RefusalIsOrderly DEF Running
<1>4. CASE Report(p, "ok")
  <2>1. MayReport(proc[p], "ok")
    BY <1>1 DEF MayReport, Stages
  <2> QED  BY <1>2, <1>4, <2>1, WorldStays, ReportIsOrderly
<1>5. CASE Goto(p, "insert")
  <2> DEFINE r == [proc[p] EXCEPT !.pc = "insert"]
  <2>1. r \in Processes
    BY <1>1 DEF Processes
  <2>2. Local(r)
    BY <1>1, <2>1 DEF Processes, Local, TxnOf, StageOf, SeenBy, ToldAtEnd, Steps
  <2>3. Learnt(r)
    BY <1>1, <2>1 DEF Processes, Learnt
  <2>4. MayBecome(p, r)
    BY <1>1, <2>1, <2>2, <2>3 DEF MayBecome, Processes, Fresh
  <2>5. Become(p, r)
    BY <1>5 DEF Goto
  <2> HIDE DEF r
  <2> QED  BY <1>2, <2>4, <2>5, WorldStays, BecomingIsOrderly
<1> QED  BY <1>3, <1>4, <1>5 DEF V1Get

LEMMA StartIsOrderly ==
  ASSUME IInv, NEW p \in Procs, NEW op \in Operations, Start(p, op)
  PROVE  Orderly(p)
PROOF
<1> DEFINE r == [Idle EXCEPT !.op = op, !.pc = "begin", !.late = OfStage("returns") # {}]
<1>1. NoTxn \in Txns /\ None \in Results
  BY DEF NoTxn, Txns, Results
<1>2. /\ r.op = op /\ r.pc = "begin" /\ r.late = (OfStage("returns") # {}) /\ r.txn = NoTxn
      /\ r.seen = {} /\ r.event = None /\ r.watched = TRUE /\ r.told = "none" /\ r.mine = 0
      /\ r \in Processes
  BY <1>1 DEF Idle, Processes, Operations
<1> HIDE DEF r
<1>3. Local(r)
  BY <1>2 DEF Local, TxnOf, StageOf, SeenBy, ToldAtEnd, Steps, NoTxn, Operations
<1>4. Learnt(r)
  BY <1>2 DEF Learnt
<1>5. MayBecome(p, r)
  BY <1>2, <1>3, <1>4 DEF MayBecome
<1>6. Become(p, r)
  BY DEF Start, r
<1>7. RowsStay /\ flight' = flight /\ runs' \in 0..MaxRuns /\ UNCHANGED <<intact, faults>>
  BY StudyAssumption DEF Start, RowsStay, IInv, TypeInv
<1>8. intact' \subseteq Fragile /\ faults' \in 0..MaxFaults
  BY <1>7 DEF IInv, TypeInv
<1> QED  BY <1>5, <1>6, <1>7, <1>8, BecomingIsOrderly

\* The steps that only move on.
LEMMA MovesAreOrderly ==
  ASSUME IInv, NEW p \in Procs, ChildAnswers(p) \/ SendCommit(p)
  PROVE  Orderly(p)
PROOF
<1>1. proc[p] \in Processes /\ Local(proc[p]) /\ Learnt(proc[p])
  BY DEF IInv, TypeInv
<1>2. UNCHANGED World
  BY DEF ChildAnswers, SendCommit
<1>3. CASE ChildAnswers(p)
  <2> DEFINE r == [proc[p] EXCEPT !.pc = IF proc[p].watched THEN "result" ELSE "done"]
  <2>1. proc[p].op = "returns" /\ proc[p].pc = "landed"
    BY <1>3 DEF ChildAnswers, Is
  <2>2. r \in Processes
    BY <1>1 DEF Processes
  <2>3. Local(r)
    BY <1>1, <2>1, <2>2 DEF Processes, Local, TxnOf, StageOf, SeenBy, ToldAtEnd, Steps
  <2>4. Learnt(r)
    BY <1>1, <2>1, <2>2 DEF Processes, Learnt
  <2>5. MayBecome(p, r)
    BY <1>1, <2>1, <2>2, <2>3, <2>4 DEF MayBecome, Processes, Fresh, Local, ToldAtEnd
  <2>6. Become(p, r)
    BY <1>3 DEF ChildAnswers, Goto
  <2> HIDE DEF r
  <2> QED  BY <1>2, <2>5, <2>6, WorldStays, BecomingIsOrderly
<1>4. CASE SendCommit(p)
  <2> DEFINE r == [proc[p] EXCEPT !.pc = "commit"]
  <2>1. proc[p].op \in {"s0", "s1", "v1"} /\ proc[p].pc = "send"
    BY <1>4 DEF SendCommit
  <2>2. r \in Processes
    BY <1>1 DEF Processes
  <2>3. Local(r)
    BY <1>1, <2>1, <2>2 DEF Processes, Local, TxnOf, StageOf, SeenBy, ToldAtEnd, Steps
  <2>4. Learnt(r)
    BY <1>1, <2>1, <2>2 DEF Processes, Learnt
  <2>5. MayBecome(p, r)
    BY <1>1, <2>1, <2>2, <2>3, <2>4 DEF MayBecome, Processes, Fresh
  <2>6. Become(p, r)
    BY <1>4 DEF SendCommit, Goto
  <2> HIDE DEF r
  <2> QED  BY <1>2, <2>5, <2>6, WorldStays, BecomingIsOrderly
<1> QED  BY <1>3, <1>4

LEMMA CommitLandsIsOrderly ==
  ASSUME IInv, NEW p \in Procs, CommitLands(p)
  PROVE  Orderly(p)
PROOF
<1> DEFINE r == [proc[p] EXCEPT !.pc = "landed", !.txn = NoTxn]
<1>1. proc[p] \in Processes /\ Local(proc[p]) /\ Learnt(proc[p]) /\ proc \in [Procs -> Processes]
  BY DEF IInv, TypeInv
<1>2. proc[p].pc = "commit" /\ jobs' = jobs \cup {proc[p].txn}
  BY DEF CommitLands, Apply
<1>3. NoTxn \in Txns
  BY DEF NoTxn, Txns, Results
<1>4. r \in Processes
  BY <1>1, <1>3 DEF Processes
<1>5. Local(r)
  BY <1>1, <1>2, <1>4 DEF Processes, Local, TxnOf, StageOf, SeenBy, ToldAtEnd, Steps, NoTxn
<1>6. proc' \in [Procs -> Processes] /\ proc'[p] = r /\ Alone(p)
  BY <1>1, <1>4, Becoming DEF CommitLands
<1>7. proc[p].op \in Stages => proc[p].txn.pk = proc[p].mine /\ proc[p].txn.stage = proc[p].op
  BY <1>1, <1>2 DEF Local, TxnOf, StageOf, Stages
<1>8. r.op \in Stages => \E j \in jobs' : j.pk = r.mine /\ j.stage = r.op
  BY <1>1, <1>2, <1>7 DEF Processes
<1>9. Learnt(proc[p])'
  BY <1>1, <1>2, <1>4, <1>6, <1>8 DEF Processes, Learnt, S0Stored, S1Stored, SelectedS0,
     SelectedS1, OfStage, Local, ToldAtEnd
<1>10. Lands(p)
  BY <1>1, <1>2, <1>4, <1>6 DEF CommitLands, Lands, Processes, Fresh
<1>11. intact' \subseteq Fragile /\ runs' \in 0..MaxRuns /\ faults' \in 0..MaxFaults
  BY DEF CommitLands, IInv, TypeInv
<1> QED  BY <1>5, <1>6, <1>9, <1>10, <1>11 DEF Orderly

\* The reports that end a process, the answer to its operator included.
LEMMA EndsAreOrderly ==
  ASSUME IInv, NEW p \in Procs, ParentReads(p) \/ Finish(p)
  PROVE  Orderly(p)
PROOF
<1>1. proc[p] \in Processes /\ Local(proc[p]) /\ UNCHANGED World
  BY DEF IInv, TypeInv, ParentReads, Finish
<1>2. CASE ParentReads(p) /\ proc[p].pc = "error"
  <2>1. Refuse(p) /\ proc[p].watched
    BY <1>2 DEF ParentReads, Refuse
  <2> QED  BY <1>1, <1>2, <2>1, WorldStays, RefusalIsOrderly DEF Running
<1>3. CASE ParentReads(p) /\ proc[p].pc = "result"
  <2>1. Report(p, "ok") /\ proc[p].watched
    BY <1>3 DEF ParentReads
  <2>2. MayReport(proc[p], "ok")
    BY <1>3, <2>1 DEF MayReport
  <2> QED  BY <1>1, <2>1, <2>2, WorldStays, ReportIsOrderly
<1>4. CASE Finish(p)
  <2>1. Report(p, "ok") /\ proc[p].pc = "landed" /\ proc[p].watched
    BY <1>4, OnlyReturnsAreUnwatched DEF Finish
  <2>2. MayReport(proc[p], "ok")
    BY <2>1 DEF MayReport
  <2> QED  BY <1>1, <2>1, <2>2, WorldStays, ReportIsOrderly
<1> QED  BY <1>2, <1>3, <1>4 DEF ParentReads

LEMMA EndProcessIsOrderly ==
  ASSUME IInv, NEW p \in Procs, NEW told \in {"timeout", "failed", "killed"},
         EndProcess(p, told), Faulty, Running(p), proc[p].watched,
         UNCHANGED <<intact, jobs, strategies, details, jobSeq, strategySeq, runs>>
  PROVE  Orderly(p)
PROOF
<1>1. Report(p, told) /\ MayReport(proc[p], told)
  BY DEF EndProcess, MayReport, Running
<1>2. RowsStay /\ UNCHANGED <<jobSeq, strategySeq>>
  BY DEF RowsStay
<1>3. intact' \subseteq Fragile /\ runs' \in 0..MaxRuns /\ faults' \in 0..MaxFaults
  BY StudyAssumption DEF IInv, TypeInv, Faulty
<1>4. CASE proc[p].pc = "commit"
  <2>1. flight' = flight \cup {proc[p].txn} /\ told # "refused"
    BY <1>4 DEF EndProcess
  <2> QED  BY <1>1, <1>2, <1>3, <1>4, <2>1, ReportIsOrderly
<1>5. CASE proc[p].pc # "commit"
  <2>1. flight' = flight
    BY <1>5 DEF EndProcess
  <2> QED  BY <1>1, <1>2, <1>3, <2>1, ReportIsOrderly
<1> QED  BY <1>4, <1>5

LEMMA FaultsAreOrderly ==
  ASSUME IInv, NEW p \in Procs, Ceiling(p) \/ Kill(p) \/ Watchdog(p)
  PROVE  Orderly(p)
PROOF
<1>1. CASE Ceiling(p)
  <2>1. proc[p].watched
    BY <1>1, OnlyReturnsAreUnwatched DEF Ceiling
  <2> QED  BY <1>1, <2>1, EndProcessIsOrderly DEF Ceiling
<1>2. CASE Watchdog(p)
  BY <1>2, EndProcessIsOrderly DEF Watchdog, StopProcess
<1>3. CASE Kill(p)
  <2>1. CASE proc[p].op = "returns" /\ proc[p].pc \notin {"begin", "result", "error"}
    <3> DEFINE r == [proc[p] EXCEPT !.watched = FALSE, !.told = "killed"]
    <3>1. proc[p] \in Processes /\ Local(proc[p]) /\ Learnt(proc[p])
      BY DEF IInv, TypeInv
    <3>2. r \in Processes
      BY <3>1 DEF Processes
    <3>3. Local(r)
      BY <2>1, <3>1, <3>2, SMTT(30)
      DEF Processes, Local, TxnOf, StageOf, SeenBy, ToldAtEnd, Steps
    <3>4. Learnt(r)
      BY <3>1, <3>2 DEF Processes, Learnt
    <3>5. MayBecome(p, r)
      BY <1>3, <3>1, <3>2, <3>3, <3>4 DEF MayBecome, Processes, Fresh, Kill, Running
    <3>6. Become(p, r) /\ flight' = flight
      BY <1>3, <2>1 DEF Kill
    <3>7. RowsStay /\ intact' \subseteq Fragile /\ runs' \in 0..MaxRuns
      BY <1>3 DEF Kill, RowsStay, IInv, TypeInv
    <3>8. faults' \in 0..MaxFaults
      BY <1>3, StudyAssumption DEF Kill, Faulty, IInv, TypeInv
    <3> HIDE DEF r
    <3> QED  BY <3>5, <3>6, <3>7, <3>8, BecomingIsOrderly
  <2>2. CASE ~(proc[p].op = "returns" /\ proc[p].pc \notin {"begin", "result", "error"})
    BY <1>3, <2>2, EndProcessIsOrderly DEF Kill
  <2> QED  BY <2>1, <2>2
<1> QED  BY <1>1, <1>2, <1>3

-----------------------------------------------------------------------------
(* The invariant, kind by kind.                                               *)

\* Everything IInv says of the rows and of what processes own of them.
RowsAndOwners ==
  /\ \A q \in Procs : Owns(proc[q])
  /\ RowsInv /\ RowsApart /\ FlightApart /\ ProcsApart /\ IsFiniteSet(jobs)

\* The transaction of a process about to commit is a proper row.
LEMMA CommittingRow ==
  ASSUME IInv, NEW p \in Procs, proc[p].pc = "commit"
  PROVE  /\ RowOf(proc[p].txn) /\ proc[p].txn.pk < jobSeq /\ proc[p].txn.strategy < strategySeq
         /\ proc[p].txn.stage = "s0" => 2 <= proc[p].txn.strategy
         /\ BoundTo(proc[p].txn.stage)
         /\ proc[p].txn.stage \notin V1Jobs /\ proc[p].txn.pk = proc[p].mine
         /\ proc[p].txn \notin jobs \cup flight
PROOF
<1>1. proc[p] \in Processes /\ Local(proc[p]) /\ Learnt(proc[p]) /\ Owns(proc[p])
  BY DEF IInv, TypeInv
<1>2. proc[p].op \in {"s0", "s1", "v1", "returns"}
  BY <1>1 DEF Local, Steps, Processes
<1>3. proc[p].txn.stage = IF proc[p].op = "v1" THEN "v1_extra" ELSE proc[p].op
  BY <1>1, <1>2 DEF Local, TxnOf, StageOf
<1>4. proc[p].txn \in Txns /\ proc[p].txn.pk # 0 /\ proc[p].txn.pk = proc[p].mine
  BY <1>1 DEF Local, TxnOf, Processes
<1>5. RowOf(proc[p].txn)
  BY <1>1, <1>2, <1>3, <1>4 DEF RowOf, Local, TxnOf, Stages, FrozenBefore
<1>6. BoundTo(proc[p].txn.stage)
  BY <1>1, <1>2, <1>3 DEF BoundTo, Learnt
<1>7. proc[p].txn.stage \notin V1Jobs
  BY <1>2, <1>3 DEF V1Jobs, V1Keys
<1>8. proc[p].txn \notin jobs \cup flight
  BY <1>1, <1>4 DEF Owns, Apart
<1> QED  BY <1>1, <1>4, <1>5, <1>6, <1>7, <1>8 DEF Owns

LEMMA RowsStayProper ==
  ASSUME RowsInv, RowsStay, flight' = flight
  PROVE  RowsInv'
PROOF
<1>1. jobs' = jobs /\ strategies' = strategies /\ details' = details
  BY DEF RowsStay
<1>2. jobSeq \in Nat /\ strategySeq \in Nat /\ 4 <= jobSeq /\ 2 <= strategySeq
  BY DEF RowsInv
<1>3. jobSeq' \in Nat /\ strategySeq' \in Nat /\ 4 <= jobSeq' /\ 2 <= strategySeq'
      /\ jobSeq <= jobSeq' /\ strategySeq <= strategySeq'
  BY <1>2 DEF RowsStay
<1>4. \A t \in jobs \cup flight : RowOf(t)  /\ BoundTo(t.stage)'
       /\ (t.stage = "s0" => 2 <= t.strategy)
  BY <1>1 DEF RowsInv, BoundTo, S0Stored, S1Stored, OfStage
<1>5. \A t \in jobs \cup flight : t.pk < jobSeq' /\ t.strategy < strategySeq'
  BY <1>2, <1>3, <1>4 DEF RowsInv, RowOf, Txns
<1>6. OfStage("s0")' = OfStage("s0") /\ OfStage("s1")' = OfStage("s1")
  BY <1>1 DEF OfStage
<1>7. \A t \in (jobs \cup flight)' : 
       RowOf(t)' /\ t.pk < jobSeq' /\ t.strategy < strategySeq' /\ BoundTo(t.stage)'
       /\ (t.stage = "s0" => 2 <= t.strategy)
  BY <1>1, <1>4, <1>5 DEF RowOf
<1>8. {j \in jobs : j.stage \in V1Jobs}' = V1Rows
  BY <1>1 DEF RowsInv
<1> QED  BY <1>1, <1>3, <1>7, <1>6, <1>8 DEF RowsInv

LEMMA StaysKeepsRows ==
  ASSUME IInv, NEW p \in Procs, Alone(p), Stays(p), proc' \in [Procs -> Processes]
  PROVE  RowsAndOwners'
PROOF
<1>1. RowsInv'
  BY RowsStayProper DEF IInv, Stays
<1>2. RowsApart' /\ FlightApart' /\ IsFiniteSet(jobs)'
  BY DEF IInv, TypeInv, Stays, RowsStay, RowsApart, Apart, FlightApart
<1>3. \A q \in Procs : Owns(proc[q])'
  <2>1. ASSUME NEW q \in Procs
        PROVE  Owns(proc[q])'
    <3>1. proc[q] \in Processes /\ proc'[q] \in Processes /\ Owns(proc[q])
      BY DEF IInv, TypeInv
    <3>2. jobSeq \in Nat /\ 4 <= jobSeq /\ strategySeq \in Nat /\ 2 <= strategySeq
      BY DEF IInv, RowsInv
    <3>3. proc[q].mine \in Nat /\ proc[q].txn.strategy \in Nat /\ proc'[q].txn.strategy \in Nat
      BY <3>1 DEF Processes, Txns
    <3>4. CASE q # p
      BY <3>1, <3>2, <3>3, <3>4 DEF Alone, Stays, RowsStay, Owns, Apart, Fresh
    <3>5. CASE q = p
      BY <3>1, <3>2, <3>3, <3>5 DEF Stays, RowsStay, Owns, Apart, NoTxn, Stages
    <3> QED  BY <3>4, <3>5
  <2> QED  BY <2>1
<1>4. ProcsApart'
  <2>1. ASSUME NEW q \in Procs, NEW o \in Procs, q # o
        PROVE  Apart(proc[q].txn, proc[o].txn)' /\ (proc'[q].mine # 0 => proc'[q].mine # proc'[o].mine)
    <3>1. Apart(proc[q].txn, proc[o].txn) /\ (proc[q].mine # 0 => proc[q].mine # proc[o].mine)
      BY <2>1 DEF IInv, ProcsApart
    <3> QED  BY <2>1, <3>1 DEF Alone, Stays, Apart, NoTxn, Stages
  <2> QED  BY <2>1 DEF ProcsApart
<1> QED  BY <1>1, <1>2, <1>3, <1>4 DEF RowsAndOwners

LEMMA OpensKeepsRows ==
  ASSUME IInv, NEW p \in Procs, Alone(p), Opens(p), proc' \in [Procs -> Processes]
  PROVE  RowsAndOwners'
PROOF
<1>1. RowsInv'
  BY RowsStayProper DEF IInv, Opens
<1>2. RowsApart' /\ FlightApart' /\ IsFiniteSet(jobs)'
  BY DEF IInv, TypeInv, Opens, RowsStay, RowsApart, Apart, FlightApart
<1>3. jobSeq \in Nat /\ 4 <= jobSeq /\ strategySeq \in Nat /\ 2 <= strategySeq
  BY DEF IInv, RowsInv
<1>4. \A q \in Procs : /\ proc[q] \in Processes /\ proc'[q] \in Processes /\ Owns(proc[q])
                       /\ proc[q].mine \in Nat /\ proc[q].mine < jobSeq
                       /\ proc[q].txn.pk \in {0, proc[q].mine}
  BY DEF IInv, TypeInv, Owns, Processes, Local, TxnOf, StageOf
<1>5. \A t \in jobs \cup flight : t.pk \in Nat /\ t.pk < jobSeq
  BY DEF IInv, RowsInv, RowOf, Txns
<1>6. \A q \in Procs : Owns(proc[q])'
  <2>1. ASSUME NEW q \in Procs
        PROVE  Owns(proc[q])'
    <3>1. CASE q # p
      BY <1>3, <1>4, <3>1 DEF Alone, Opens, RowsStay, Owns, Apart, Fresh, Processes, Txns
    <3>2. CASE q = p
      <4>1. proc'[p].mine < jobSeq' /\ proc'[p].txn.strategy < strategySeq'
        BY <1>3, <1>4 DEF Opens, RowsStay
      <4>2. Fresh(proc'[p]) /\ proc'[p].mine # 0 => \A t \in jobs \cup flight : t.pk # proc'[p].mine
        BY <1>3, <1>4, <1>5 DEF Opens, Owns
      <4>3. \A t \in jobs \cup flight : Apart(proc'[p].txn, t)
        BY <1>3, <1>4, <1>5 DEF Opens, Apart, OpenTxns
      <4> QED  BY <3>2, <4>1, <4>2, <4>3 DEF Opens, RowsStay, Owns, Apart, Fresh
    <3> QED  BY <3>1, <3>2
  <2> QED  BY <2>1
<1>7. ProcsApart'
  <2>1. ASSUME NEW q \in Procs \ {p}
        PROVE  /\ Apart(proc'[p].txn, proc'[q].txn) /\ Apart(proc'[q].txn, proc'[p].txn)
               /\ proc'[p].mine # 0 => proc'[p].mine # proc'[q].mine
               /\ proc'[q].mine # 0 => proc'[q].mine # proc'[p].mine
    <3>1. proc'[q] = proc[q]
      BY DEF Alone
    <3>2. proc[p].mine # 0 => proc[p].mine # proc[q].mine
      BY DEF IInv, ProcsApart
    <3>3. proc[q].txn \in OpenTxns(p)
      BY DEF OpenTxns
    <3> QED  BY <1>3, <1>4, <3>1, <3>2, <3>3 DEF Opens, Apart
  <2>2. ASSUME NEW q \in Procs \ {p}, NEW o \in Procs \ {p}, q # o
        PROVE  Apart(proc'[q].txn, proc'[o].txn) /\ (proc'[q].mine # 0 => proc'[q].mine # proc'[o].mine)
    BY <2>2 DEF Alone, IInv, ProcsApart
  <2> QED  BY <2>1, <2>2 DEF ProcsApart, Apart
<1> QED  BY <1>1, <1>2, <1>6, <1>7 DEF RowsAndOwners

LEMMA SendsKeepsRows ==
  ASSUME IInv, NEW p \in Procs, Alone(p), Sends(p), proc' \in [Procs -> Processes]
  PROVE  RowsAndOwners'
PROOF
<1> DEFINE t == proc[p].txn
<1>1. /\ RowOf(t) /\ t.pk < jobSeq /\ t.strategy < strategySeq
      /\ t.stage = "s0" => 2 <= t.strategy
      /\ BoundTo(t.stage) /\ t.stage \notin V1Jobs /\ t.pk = proc[p].mine
      /\ t \notin jobs \cup flight
  BY CommittingRow DEF Sends
<1>2. /\ jobs' = jobs /\ strategies' = strategies /\ details' = details
      /\ jobSeq' = jobSeq /\ strategySeq' = strategySeq /\ flight' = flight \cup {t}
      /\ proc'[p].txn = NoTxn /\ proc'[p].mine = t.pk /\ ~Fresh(proc'[p])
  BY <1>1 DEF Sends
<1>3. Owns(proc[p]) /\ RowsInv /\ RowsApart /\ FlightApart
  BY DEF IInv
<1> HIDE DEF t
<1>4. RowsInv'
  <2>1. OfStage("s0")' = OfStage("s0") /\ OfStage("s1")' = OfStage("s1")
    BY <1>2 DEF OfStage
  <2>2. \A u \in (jobs \cup flight)' :
          RowOf(u)' /\ u.pk < jobSeq' /\ u.strategy < strategySeq' /\ BoundTo(u.stage)'
          /\ (u.stage = "s0" => 2 <= u.strategy)
    BY <1>1, <1>2, <1>3, <2>1 DEF RowsInv, RowOf, BoundTo, S0Stored, S1Stored
  <2>3. {j \in jobs : j.stage \in V1Jobs}' = V1Rows
    BY <1>2, <1>3 DEF RowsInv
  <2> QED  BY <1>1, <1>2, <1>3, <2>1, <2>2, <2>3 DEF RowsInv
<1>5. \A u \in jobs \cup flight : Apart(t, u) /\ Apart(u, t)
  BY <1>3 DEF Owns, Apart, t
<1>6. RowsApart' /\ FlightApart' /\ IsFiniteSet(jobs)'
  BY <1>1, <1>2, <1>3, <1>5 DEF IInv, TypeInv, RowsApart, FlightApart, Apart
<1>7. \A q \in Procs \ {p} :
        /\ proc'[q] = proc[q] /\ Owns(proc[q]) /\ Apart(proc[q].txn, t) /\ Apart(t, proc[q].txn)
        /\ proc[q].mine # 0 => proc[q].mine # t.pk
  BY <1>1 DEF Alone, IInv, ProcsApart, Apart, t
<1>8. ASSUME NEW q \in Procs
      PROVE  Owns(proc[q])'
  <2>1. CASE q # p
    BY <1>2, <1>7, <2>1 DEF Owns, Apart, Fresh
  <2>2. CASE q = p
    BY <1>1, <1>2, <1>3, <2>2 DEF Owns, Apart, NoTxn, IInv, RowsInv, Stages
  <2> QED  BY <2>1, <2>2
<1>9. ProcsApart'
  <2>1. ASSUME NEW q \in Procs, NEW o \in Procs, q # o
        PROVE  Apart(proc[q].txn, proc[o].txn)' /\ (proc'[q].mine # 0 => proc'[q].mine # proc'[o].mine)
    <3>1. Apart(proc[q].txn, proc[o].txn) /\ (proc[q].mine # 0 => proc[q].mine # proc[o].mine)
      BY <2>1 DEF IInv, ProcsApart
    <3> QED  BY <1>1, <1>2, <1>7, <2>1, <3>1 DEF Apart, NoTxn, Stages
  <2> QED  BY <2>1 DEF ProcsApart
<1> QED  BY <1>4, <1>6, <1>8, <1>9 DEF RowsAndOwners

\* The server carries out the COMMIT of t, a process's or one on its way.
LEMMA ApplyKeepsRows ==
  ASSUME RowsInv, RowsApart, FlightApart, IsFiniteSet(jobs), NEW t, Apply(t), RowOf(t),
         t.pk < jobSeq, t.strategy < strategySeq, t.stage = "s0" => 2 <= t.strategy,
         BoundTo(t.stage), t.stage \notin V1Jobs, t \notin jobs,
         \A u \in (jobs \cup flight) \ {t} : Apart(t, u),
         flight' = flight \ {t}, jobSeq' = jobSeq, strategySeq' = strategySeq
  PROVE  RowsInv' /\ RowsApart' /\ FlightApart' /\ IsFiniteSet(jobs)'
PROOF
<1>1. /\ jobs' = jobs \cup {t}
      /\ strategies' = IF t.stage = "s0" THEN strategies \cup {t.strategy} ELSE strategies
      /\ details' = IF t.stage = "s1" THEN details \cup {t.pk} ELSE details
  BY DEF Apply
<1>2. OfStage("s0")' = (IF t.stage = "s0" THEN OfStage("s0") \cup {t} ELSE OfStage("s0"))
  BY <1>1 DEF OfStage
<1>3. OfStage("s1")' = (IF t.stage = "s1" THEN OfStage("s1") \cup {t} ELSE OfStage("s1"))
  BY <1>1 DEF OfStage
<1>4. (S0Stored => S0Stored') /\ (S1Stored => S1Stored')
  BY <1>2, <1>3 DEF S0Stored, S1Stored
<1>5. \A u \in (jobs \cup flight)' :
        RowOf(u)' /\ u.pk < jobSeq' /\ u.strategy < strategySeq' /\ BoundTo(u.stage)'
        /\ (u.stage = "s0" => 2 <= u.strategy)
  BY <1>1, <1>4 DEF RowsInv, RowOf, BoundTo
<1>6. {j \in jobs : j.stage \in V1Jobs}' = V1Rows
  BY <1>1 DEF RowsInv
<1>7. strategies' = {j.strategy : j \in OfStage("s0")'}
  BY <1>1, <1>2 DEF RowsInv
<1>8. details' = {j.pk : j \in OfStage("s1")'}
  BY <1>1, <1>3 DEF RowsInv
<1>9. RowsInv'
  BY <1>1, <1>5, <1>6, <1>7, <1>8 DEF RowsInv
<1>10. RowsApart' /\ FlightApart'
  BY <1>1 DEF RowsApart, FlightApart, Apart
<1>11. IsFiniteSet(jobs)'
  BY <1>1, FS_AddElement
<1> QED  BY <1>9, <1>10, <1>11

LEMMA LandsKeepsRows ==
  ASSUME IInv, NEW p \in Procs, Alone(p), Lands(p), proc' \in [Procs -> Processes]
  PROVE  RowsAndOwners'
PROOF
<1> DEFINE t == proc[p].txn
<1>1. /\ RowOf(t) /\ t.pk < jobSeq /\ t.strategy < strategySeq
      /\ t.stage = "s0" => 2 <= t.strategy
      /\ BoundTo(t.stage) /\ t.stage \notin V1Jobs /\ t.pk = proc[p].mine
      /\ t \notin jobs \cup flight
  BY CommittingRow DEF Lands
<1>2. /\ Apply(t) /\ jobSeq' = jobSeq /\ strategySeq' = strategySeq /\ flight' = flight
      /\ proc'[p].txn = NoTxn /\ proc'[p].mine = t.pk /\ ~Fresh(proc'[p])
  BY <1>1 DEF Lands
<1>3. Owns(proc[p]) /\ RowsInv /\ RowsApart /\ FlightApart /\ IsFiniteSet(jobs)
  BY DEF IInv, TypeInv
<1> HIDE DEF t
<1>4. \A u \in jobs \cup flight : Apart(t, u)
  BY <1>3 DEF Owns, t
<1>5. flight' = flight \ {t}
  BY <1>1, <1>2
<1>6. RowsInv' /\ RowsApart' /\ FlightApart' /\ IsFiniteSet(jobs)'
  BY <1>1, <1>2, <1>3, <1>4, <1>5, ApplyKeepsRows
<1>7. jobs' = jobs \cup {t}
  BY <1>2 DEF Apply
<1>8. \A q \in Procs \ {p} :
        /\ proc'[q] = proc[q] /\ Owns(proc[q]) /\ Apart(proc[q].txn, t)
        /\ proc[q].mine # 0 => proc[q].mine # t.pk
  BY <1>1 DEF Alone, IInv, ProcsApart, Apart, t
<1>9. ASSUME NEW q \in Procs
      PROVE  Owns(proc[q])'
  <2>1. CASE q # p
    BY <1>2, <1>7, <1>8, <2>1 DEF Owns, Apart, Fresh
  <2>2. CASE q = p
    BY <1>1, <1>2, <1>3, <2>2 DEF Owns, Apart, NoTxn, RowsInv, Stages
  <2> QED  BY <2>1, <2>2
<1>10. ProcsApart'
  <2>1. ASSUME NEW q \in Procs, NEW o \in Procs, q # o
        PROVE  Apart(proc[q].txn, proc[o].txn)' /\ (proc'[q].mine # 0 => proc'[q].mine # proc'[o].mine)
    <3>1. Apart(proc[q].txn, proc[o].txn) /\ (proc[q].mine # 0 => proc[q].mine # proc[o].mine)
      BY <2>1 DEF IInv, ProcsApart
    <3> QED  BY <1>1, <1>2, <1>8, <2>1, <3>1 DEF Apart, NoTxn, Stages
  <2> QED  BY <2>1 DEF ProcsApart
<1> QED  BY <1>6, <1>9, <1>10 DEF RowsAndOwners

LEMMA FlightStepsKeepRows ==
  ASSUME IInv, NEW t \in flight, FlightLands(t) \/ FlightLost(t)
  PROVE  RowsAndOwners' /\ jobs \subseteq jobs' /\ UNCHANGED <<proc, runs, faults, intact>>
PROOF
<1>1. /\ RowOf(t) /\ t.pk < jobSeq /\ t.strategy < strategySeq
      /\ t.stage = "s0" => 2 <= t.strategy
      /\ BoundTo(t.stage) /\ t.stage \notin V1Jobs /\ t \notin jobs
  BY DEF IInv, RowsInv, FlightApart
<1>2. /\ flight' = flight \ {t} /\ jobSeq' = jobSeq /\ strategySeq' = strategySeq
      /\ UNCHANGED <<proc, runs, faults, intact>>
  BY DEF FlightLands, FlightLost
<1>3. RowsInv /\ RowsApart /\ FlightApart /\ IsFiniteSet(jobs)
  BY DEF IInv, TypeInv
<1>4. CASE FlightLands(t)
  <2>1. Apply(t) /\ jobs' = jobs \cup {t}
    BY <1>4 DEF FlightLands, Apply
  <2>2. \A u \in (jobs \cup flight) \ {t} : Apart(t, u)
    BY <1>3 DEF RowsApart
  <2>3. RowsInv' /\ RowsApart' /\ FlightApart' /\ IsFiniteSet(jobs)'
    BY <1>1, <1>2, <1>3, <2>1, <2>2, ApplyKeepsRows
  <2>4. (jobs \cup flight)' = jobs \cup flight
    BY <1>2, <2>1
  <2>5. \A q \in Procs : Owns(proc[q])'
    BY <1>2, <2>4 DEF IInv, Owns, Apart, Fresh
  <2>6. ProcsApart'
    BY <1>2 DEF IInv, ProcsApart, Apart
  <2> QED  BY <1>2, <2>1, <2>3, <2>5, <2>6 DEF RowsAndOwners
<1>5. CASE FlightLost(t)
  <2>1. jobs' = jobs /\ strategies' = strategies /\ details' = details
    BY <1>5 DEF FlightLost
  <2>2. OfStage("s0")' = OfStage("s0") /\ OfStage("s1")' = OfStage("s1")
    BY <2>1 DEF OfStage
  <2>3. \A u \in (jobs \cup flight)' :
          RowOf(u)' /\ u.pk < jobSeq' /\ u.strategy < strategySeq' /\ BoundTo(u.stage)'
          /\ (u.stage = "s0" => 2 <= u.strategy)
    BY <1>2, <1>3, <2>1, <2>2 DEF RowsInv, RowOf, BoundTo, S0Stored, S1Stored
  <2>4. {j \in jobs : j.stage \in V1Jobs}' = V1Rows
    BY <1>3, <2>1 DEF RowsInv
  <2>5. RowsInv'
    BY <1>2, <1>3, <2>1, <2>2, <2>3, <2>4 DEF RowsInv
  <2>6. RowsApart' /\ FlightApart' /\ IsFiniteSet(jobs)'
    BY <1>2, <1>3, <2>1 DEF RowsApart, FlightApart, Apart
  <2>7. \A q \in Procs : Owns(proc[q])'
    BY <1>2, <2>1 DEF IInv, Owns, Apart, Fresh
  <2>8. ProcsApart'
    BY <1>2 DEF IInv, ProcsApart, Apart
  <2> QED  BY <1>2, <2>1, <2>5, <2>6, <2>7, <2>8 DEF RowsAndOwners
<1> QED  BY <1>4, <1>5

\* A process that does not move knows what it knew.
LEMMA LearntStays ==
  ASSUME NEW q, Learnt(proc[q]), proc'[q] = proc[q], jobs \subseteq jobs'
  PROVE  Learnt(proc[q])'
  BY DEF Learnt, S0Stored, S1Stored, SelectedS0, SelectedS1, OfStage

LEMMA OrderlyKeepsInv ==
  ASSUME IInv, NEW p \in Procs, Orderly(p)
  PROVE  IInv'
PROOF
<1>1. Alone(p) /\ proc' \in [Procs -> Processes]
  BY DEF Orderly
<1>2. RowsAndOwners'
  BY <1>1, StaysKeepsRows, OpensKeepsRows, SendsKeepsRows, LandsKeepsRows DEF Orderly
<1>3. jobs \subseteq jobs'
  BY DEF Orderly, Stays, Opens, Sends, Lands, RowsStay, Apply
<1>4. ASSUME NEW q \in Procs
      PROVE  Local(proc'[q]) /\ Learnt(proc[q])'
  <2>1. CASE q = p
    BY <2>1 DEF Orderly
  <2>2. CASE q # p
    <3>1. proc'[q] = proc[q] /\ Local(proc[q]) /\ Learnt(proc[q])
      BY <2>2 DEF Orderly, Alone, IInv
    <3> QED  BY <1>3, <3>1, LearntStays
  <2> QED  BY <2>1, <2>2
<1>5. TypeInv'
  BY <1>1, <1>2 DEF Orderly, TypeInv, RowsAndOwners
<1>6. \A q \in Procs : Local(proc[q])'
  BY <1>4 DEF Local, TxnOf, StageOf, SeenBy, ToldAtEnd
<1> QED  BY <1>2, <1>4, <1>5, <1>6 DEF IInv, RowsAndOwners

-----------------------------------------------------------------------------
(* The invariant holds.                                                       *)

\* The rows of the study's history.
V1Row(s, k) == [NoTxn EXCEPT !.stage = s, !.pk = k, !.strategy = 1]

LEMMA V1JobsAre ==
  /\ V1Jobs = {"v1_s0", "v1_s0_accepted", "v1_s1"}
  /\ V1Keys["v1_s0"] = 1 /\ V1Keys["v1_s0_accepted"] = 2 /\ V1Keys["v1_s1"] = 3
  /\ Cardinality(V1Jobs) = 3
PROOF
<1>1. V1Jobs = {"v1_s0", "v1_s0_accepted", "v1_s1"}
  BY DEF V1Jobs, V1Keys
<1>2. IsFiniteSet({"v1_s1"}) /\ Cardinality({"v1_s1"}) = 1
  BY FS_Singleton
<1>3. /\ IsFiniteSet({"v1_s1"} \cup {"v1_s0_accepted"})
      /\ Cardinality({"v1_s1"} \cup {"v1_s0_accepted"}) = 2
  BY <1>2, FS_AddElement
<1>4. Cardinality(({"v1_s1"} \cup {"v1_s0_accepted"}) \cup {"v1_s0"}) = 3
  BY <1>3, FS_AddElement
<1>5. V1Jobs = ({"v1_s1"} \cup {"v1_s0_accepted"}) \cup {"v1_s0"}
  BY <1>1
<1> QED  BY <1>1, <1>4, <1>5 DEF V1Keys

LEMMA V1RowFields ==
  ASSUME NEW s \in V1Jobs, NEW k \in Nat
  PROVE  /\ V1Row(s, k) \in Txns /\ V1Row(s, k).stage = s /\ V1Row(s, k).pk = k
         /\ V1Row(s, k).strategy = 1
PROOF
<1>1. NoTxn \in Txns
  BY DEF NoTxn, Txns, Results
<1> QED  BY <1>1 DEF V1Row, Txns

LEMMA V1RowsAre ==
  /\ V1Rows = {V1Row("v1_s0", 1), V1Row("v1_s0_accepted", 2), V1Row("v1_s1", 3)}
  /\ \A t \in V1Rows : /\ t \in Txns /\ t.pk \in 1..3 /\ t.strategy = 1 /\ t.stage \in V1Jobs
  /\ \A t, u \in V1Rows : t # u => t.pk # u.pk
  /\ \A s \in V1Jobs : \E t \in V1Rows : t.stage = s
  /\ \A k \in 1..3 : \E t \in V1Rows : t.pk = k
  /\ IsFiniteSet(V1Rows) /\ Cardinality(V1Rows) = 3
PROOF
<1> DEFINE a == V1Row("v1_s0", 1)
           b == V1Row("v1_s0_accepted", 2)
           c == V1Row("v1_s1", 3)
<1>1. V1Rows = {a, b, c}
  <2>1. V1Rows = {V1Row(s, V1Keys[s]) : s \in V1Jobs}
    BY DEF V1Rows, V1Row
  <2> QED  BY <2>1, V1JobsAre
<1>2. a \in Txns /\ a.pk = 1 /\ a.strategy = 1 /\ a.stage = "v1_s0"
  BY V1RowFields, V1JobsAre
<1>3. b \in Txns /\ b.pk = 2 /\ b.strategy = 1 /\ b.stage = "v1_s0_accepted"
  BY V1RowFields, V1JobsAre
<1>4. c \in Txns /\ c.pk = 3 /\ c.strategy = 1 /\ c.stage = "v1_s1"
  BY V1RowFields, V1JobsAre
<1>5. a.stage \in V1Jobs /\ b.stage \in V1Jobs /\ c.stage \in V1Jobs
  BY <1>2, <1>3, <1>4, V1JobsAre
<1>6. \A s \in V1Jobs : s \in {a.stage, b.stage, c.stage}
  BY <1>2, <1>3, <1>4, V1JobsAre
<1> HIDE DEF a, b, c
<1>7. IsFiniteSet({a}) /\ Cardinality({a}) = 1
  BY FS_Singleton
<1>8. IsFiniteSet({a} \cup {b}) /\ Cardinality({a} \cup {b}) = 2
  <2>1. b \notin {a}
    BY <1>2, <1>3
  <2>2. IsFiniteSet({a} \cup {b}) /\ Cardinality({a} \cup {b}) = Cardinality({a}) + 1
    BY <1>7, <2>1, FS_AddElement
  <2> QED  BY <1>7, <2>2
<1>9. IsFiniteSet(({a} \cup {b}) \cup {c}) /\ Cardinality(({a} \cup {b}) \cup {c}) = 3
  <2>1. c \notin {a} \cup {b}
    BY <1>2, <1>3, <1>4
  <2>2. /\ IsFiniteSet(({a} \cup {b}) \cup {c})
        /\ Cardinality(({a} \cup {b}) \cup {c}) = Cardinality({a} \cup {b}) + 1
    BY <1>8, <2>1, FS_AddElement
  <2> QED  BY <1>8, <2>2
<1>10. V1Rows = ({a} \cup {b}) \cup {c}
  BY <1>1
<1>11. V1Rows = {V1Row("v1_s0", 1), V1Row("v1_s0_accepted", 2), V1Row("v1_s1", 3)}
  BY <1>1 DEF a, b, c
<1> QED  BY <1>1, <1>2, <1>3, <1>4, <1>5, <1>6, <1>9, <1>10, <1>11

LEMMA InitIsSound ==
  ASSUME Init
  PROVE  IInv
PROOF
<1>1. NoTxn \in Txns /\ None \in Results
  BY DEF NoTxn, Txns, Results
<1>2. proc \in [Procs -> Processes] /\ \A p \in Procs : proc[p] = Idle
  BY <1>1 DEF Init, Idle, Processes
<1>3. Cardinality(V1Jobs) = 3 /\ V1Jobs = {"v1_s0", "v1_s0_accepted", "v1_s1"}
  BY V1JobsAre
<1>4. jobs = V1Rows
  BY DEF Init, V1Rows
<1>5. \A t \in V1Rows : /\ t \in Txns /\ t.pk \in Nat /\ t.pk # 0 /\ t.pk < 4 /\ t.strategy = 1
                        /\ t.stage \in V1Jobs
  BY V1RowsAre
<1>6. /\ flight = {} /\ jobSeq = 4 /\ strategySeq = 2 /\ strategies = {} /\ details = {}
  BY <1>3 DEF Init
<1>7. \A s \in V1Jobs : s \notin Stages /\ s # "none"
  BY <1>3 DEF Stages
<1>8. OfStage("s0") = {} /\ OfStage("s1") = {}
  BY <1>4, <1>5, <1>7 DEF OfStage, Stages
<1>9. \A t, u \in V1Rows : t # u => t.pk # u.pk
  BY V1RowsAre
<1>10. RowsInv
  <2>1. \A t \in jobs \cup flight :
          RowOf(t) /\ t.pk < jobSeq /\ t.strategy < strategySeq /\ BoundTo(t.stage)
          /\ (t.stage = "s0" => 2 <= t.strategy)
    BY <1>4, <1>5, <1>6, <1>7 DEF RowOf, BoundTo, Stages
  <2>2. {j \in jobs : j.stage \in V1Jobs} = V1Rows
    BY <1>4, <1>5
  <2> QED  BY <1>6, <1>8, <2>1, <2>2 DEF RowsInv
<1>11. RowsApart /\ FlightApart
  BY <1>4, <1>5, <1>6, <1>7, <1>9 DEF RowsApart, FlightApart, Apart
<1>12. ProcsApart
  BY <1>2 DEF ProcsApart, Apart, Idle, NoTxn, Stages
<1>13. ASSUME NEW p \in Procs
       PROVE  Local(proc[p]) /\ Owns(proc[p]) /\ Learnt(proc[p])
  <2>1. Local(proc[p])
    <3>1. proc[p].op = "none" /\ proc[p].pc = "idle" /\ proc[p].txn = NoTxn
          /\ proc[p].event = None /\ proc[p].told = "none" /\ proc[p].watched
          /\ proc[p].seen = {}
      BY <1>2 DEF Idle
    <3>2. NoTxn.stage = "none" /\ NoTxn.pk = 0
      BY DEF NoTxn
    <3> QED  BY <3>1, <3>2 DEF Local, TxnOf, StageOf, SeenBy, ToldAtEnd, Steps
  <2>2. Owns(proc[p])
    BY <1>2, <1>6 DEF Idle, Owns, Apart, NoTxn, Stages
  <2>3. Learnt(proc[p])
    BY <1>2 DEF Idle, Learnt
  <2> QED  BY <2>1, <2>2, <2>3
<1>14. IsFiniteSet(jobs)
  BY <1>4, V1RowsAre
<1>15. TypeInv
  <2>1. 0 \in 0..MaxRuns /\ 0 \in 0..MaxFaults
    BY StudyAssumption
  <2> QED  BY <1>2, <1>14, <2>1 DEF TypeInv, Init
<1> QED  BY <1>10, <1>11, <1>12, <1>13, <1>15 DEF IInv

LEMMA NextIsSound ==
  ASSUME IInv, [Next]_vars
  PROVE  IInv'
PROOF
<1>1. CASE UNCHANGED vars
  <2>1. /\ RowsInv' /\ RowsApart' /\ FlightApart' /\ ProcsApart' /\ TypeInv'
    BY <1>1 DEF vars, IInv, RowsInv, RowOf, BoundTo, S0Stored, S1Stored, OfStage, RowsApart,
       FlightApart, ProcsApart, TypeInv, Apart
  <2>2. \A p \in Procs : Local(proc[p])' /\ Owns(proc[p])' /\ Learnt(proc[p])'
    <3> TAKE p \in Procs
    <3>1. Local(proc[p])'
      BY <1>1 DEF vars, IInv, Local, TxnOf, StageOf, SeenBy, ToldAtEnd
    <3>2. Owns(proc[p])'
      BY <1>1 DEF vars, IInv, Owns, Apart, Fresh, TxnOf
    <3>3. Learnt(proc[p])'
      BY <1>1 DEF vars, IInv, Learnt, S0Stored, S1Stored, SelectedS0, SelectedS1, OfStage
    <3> QED  BY <3>1, <3>2, <3>3
  <2> QED  BY <2>1, <2>2 DEF IInv
<1>2. ASSUME NEW p \in Procs, Orderly(p)
      PROVE  IInv'
  BY <1>2, OrderlyKeepsInv
<1>3. ASSUME NEW t \in flight, FlightLands(t) \/ FlightLost(t)
      PROVE  IInv'
  <2>1. /\ RowsAndOwners' /\ jobs \subseteq jobs' /\ proc' = proc /\ runs' = runs
        /\ faults' = faults /\ intact' = intact
    BY <1>3, FlightStepsKeepRows
  <2>2. \A q \in Procs : Learnt(proc[q])'
    BY <2>1, LearntStays DEF IInv
  <2>3. \A q \in Procs : Local(proc[q])'
    BY <2>1 DEF IInv, Local, TxnOf, StageOf, SeenBy, ToldAtEnd
  <2> QED  BY <2>1, <2>2, <2>3 DEF IInv, TypeInv, RowsAndOwners
<1>4. ASSUME NEW a \in Fragile, Drift(a) \/ Restore(a)
      PROVE  IInv'
  <2>1. /\ jobs' = jobs /\ strategies' = strategies /\ details' = details /\ jobSeq' = jobSeq
        /\ strategySeq' = strategySeq /\ flight' = flight /\ proc' = proc /\ runs' = runs
        /\ intact' \subseteq Fragile /\ faults' \in 0..MaxFaults
    BY <1>4, StudyAssumption DEF Drift, Restore, Faulty, IInv, TypeInv
  <2>2. /\ RowsInv' /\ RowsApart' /\ FlightApart' /\ ProcsApart'
    BY <2>1 DEF IInv, RowsInv, RowOf, BoundTo, S0Stored, S1Stored, OfStage, RowsApart,
       FlightApart, ProcsApart, Apart
  <2>3. \A q \in Procs : Local(proc[q])' /\ Owns(proc[q])' /\ Learnt(proc[q])'
    <3> TAKE q \in Procs
    <3>1. Local(proc[q])'
      BY <2>1 DEF IInv, Local, TxnOf, StageOf, SeenBy, ToldAtEnd
    <3>2. Owns(proc[q])'
      BY <2>1 DEF IInv, Owns, Apart, Fresh, TxnOf
    <3>3. Learnt(proc[q])'
      BY <2>1 DEF IInv, Learnt, S0Stored, S1Stored, SelectedS0, SelectedS1, OfStage
    <3> QED  BY <3>1, <3>2, <3>3
  <2> QED  BY <2>1, <2>2, <2>3 DEF IInv, TypeInv
<1>5. ASSUME NEW p \in Procs, NEW op \in Operations, Start(p, op)
      PROVE  IInv'
  BY <1>2, <1>5, StartIsOrderly
<1>6. ASSUME NEW p \in Procs,
             \/ S0Begin(p) \/ S0CreateStrategy(p) \/ S0Validate(p) \/ S0Insert(p)
             \/ V1Get(p) \/ V1Create(p)
             \/ S1Begin(p) \/ S1Inputs(p) \/ S1Lineage(p) \/ S1Project(p) \/ S1Persist(p)
             \/ VerifySelect(p) \/ VerifyReconstructed(p)
             \/ GeometryBegin(p) \/ GeometryRead(p)
      PROVE  IInv'
  BY <1>2, <1>6, S0BeginIsOrderly, S0CreateStrategyIsOrderly, S0ValidateIsOrderly,
     S0InsertIsOrderly, V1GetIsOrderly, V1CreateIsOrderly, S1BeginIsOrderly, S1InputsIsOrderly,
     S1LineageIsOrderly, S1ProjectIsOrderly, S1PersistIsOrderly, VerifySelectIsOrderly,
     VerdictsAreOrderly, GeometryBeginIsOrderly
<1>7. ASSUME NEW p \in Procs,
             \/ ReturnBegin(p) \/ ChildLineage(p) \/ ChildAbsent(p) \/ ChildCalculate(p)
             \/ ChildPersist(p) \/ ChildSend(p) \/ ChildAnswers(p) \/ ParentReads(p)
             \/ SendCommit(p) \/ CommitLands(p) \/ Finish(p)
             \/ Ceiling(p) \/ Kill(p) \/ Watchdog(p)
      PROVE  IInv'
  BY <1>2, <1>7, ReturnBeginIsOrderly, ChildLineageIsOrderly, ChildAbsentIsOrderly,
     ChildCalculateIsOrderly, ChildPersistIsOrderly, ChildSendIsOrderly, MovesAreOrderly,
     EndsAreOrderly, CommitLandsIsOrderly, FaultsAreOrderly
<1> QED  BY <1>1, <1>3, <1>4, <1>5, <1>6, <1>7 DEF Next, Over

LEMMA InvariantHolds ==
  Spec => []IInv
PROOF
<1>1. Init => IInv
  BY InitIsSound
<1>2. IInv /\ [Next]_vars => IInv'
  BY NextIsSound
<1> QED  BY <1>1, <1>2, PTL DEF Spec

-----------------------------------------------------------------------------
(* The properties.                                                            *)

LEMMA InvImpliesTypeOK ==
  ASSUME IInv
  PROVE  TypeOK
PROOF
<1>1. \A j \in jobs : j.pk \in 1..(jobSeq - 1)
  BY DEF IInv, RowsInv, RowOf, Txns
<1>2. strategies \subseteq 2..(strategySeq - 1)
  BY DEF IInv, RowsInv, RowOf, Txns, OfStage
<1>3. details \subseteq {j.pk : j \in jobs}
  BY DEF IInv, RowsInv, OfStage
<1>4. ASSUME NEW p \in Procs
      PROVE  proc[p].op \in Operations \cup {"none"} /\ (~Running(p) => proc[p].txn = NoTxn)
  <2>1. proc[p] \in Processes /\ Local(proc[p])
    BY DEF IInv, TypeInv
  <2> QED  BY <2>1 DEF Processes, Operations, Running, Local, TxnOf, StageOf
<1> QED  BY <1>1, <1>2, <1>3, <1>4 DEF IInv, TypeInv, TypeOK

LEMMA AtMostOne ==
  ASSUME NEW S, \A x, y \in S : x = y
  PROVE  IsFiniteSet(S) /\ Cardinality(S) <= 1 /\ (S # {} => Cardinality(S) = 1)
PROOF
<1>1. CASE S = {}
  BY <1>1, FS_EmptySet
<1>2. CASE S # {}
  <2>1. PICK x \in S : S = {x}
    BY <1>2
  <2>2. IsFiniteSet({x}) /\ Cardinality({x}) = 1
    BY FS_Singleton
  <2> QED  BY <2>1, <2>2
<1> QED  BY <1>1, <1>2

LEMMA StageIsSingle ==
  ASSUME IInv, NEW stage \in Stages
  PROVE  \A i, j \in OfStage(stage) : i = j
  BY DEF IInv, RowsApart, Apart, OfStage

LEMMA InvImpliesOneRow ==
  ASSUME IInv
  PROVE  OneRowPerStage
PROOF
<1>1. \A stage \in Stages : Cardinality(OfStage(stage)) <= 1
  BY StageIsSingle, AtMostOne
<1>2. \A x, y \in strategies : x = y
  BY StageIsSingle DEF IInv, RowsInv, Stages
<1>3. Cardinality(strategies) <= 1
  BY <1>2, AtMostOne
<1>4. \A i, j \in jobs : i.pk = j.pk => i = j
  BY DEF IInv, RowsApart, Apart, RowsInv, RowOf
<1> QED  BY <1>1, <1>3, <1>4 DEF OneRowPerStage

LEMMA InvImpliesBound ==
  ASSUME IInv
  PROVE  RowsAreGoverned /\ StagesAreBound
PROOF
<1>1. RowsAreGoverned
  BY DEF IInv, RowsInv, RowOf, RowsAreGoverned
<1>2. \A j \in OfStage("s0") : j.strategy \in strategies
  BY DEF IInv, RowsInv
<1>3. AcceptedIds.s0 = 4 /\ AcceptedIds.s1 = 5 /\ AcceptedIds.strategy = 2
  BY DEF AcceptedIds
<1>4. \A j \in OfStage("s1") : S0Stored /\ j.s0 = 4 /\ j.strategy = 2
  BY <1>3 DEF OfStage, IInv, RowsInv, RowOf, BoundTo
<1>5. \A j \in OfStage("s1") :
        \E i \in OfStage("s0") : i.pk = j.s0 /\ i.pk = 4 /\ i.strategy = 2 /\ j.strategy = 2
  BY <1>3, <1>4 DEF S0Stored
<1>6. \A j \in OfStage("returns") : S1Stored
  BY DEF OfStage, IInv, RowsInv, BoundTo
<1>7. \A j \in OfStage("returns") : \E i \in OfStage("s1") : i.pk = 5 /\ i.s0 = 4
  BY <1>3, <1>4, <1>6 DEF S1Stored
<1>8. details = {j.pk : j \in OfStage("s1")}
  BY DEF IInv, RowsInv
<1> QED  BY <1>1, <1>2, <1>5, <1>7, <1>8 DEF StagesAreBound

\* While nothing but the study's rows are stored, and every key given out is
\* in one of them, the keys are the accepted ones.
Undisturbed ==
  /\ OfStage("v1_extra") = {}
  /\ jobSeq = Cardinality(jobs) + 1 /\ strategySeq = Cardinality(strategies) + 2

LEMMA JobsByStage ==
  ASSUME IInv, OfStage("v1_extra") = {}
  PROVE  jobs = V1Rows \cup OfStage("s0") \cup OfStage("s1") \cup OfStage("returns")
PROOF
<1>1. \A j \in jobs : j.stage \in Stages \cup V1Jobs \cup {"v1_extra", "none"} /\ j.stage # "none"
  BY DEF IInv, RowsInv, RowOf, Txns
<1>2. \A j \in jobs : j.stage \in V1Jobs => j \in V1Rows
  BY DEF IInv, RowsInv
<1>3. V1Rows \subseteq jobs
  BY DEF IInv, RowsInv
<1> QED  BY <1>1, <1>2, <1>3 DEF OfStage, Stages

\* Of S0: its strategy and its job are the accepted ones.
LEMMA FirstStageIsAccepted ==
  ASSUME IInv, Undisturbed, OfStage("s0") # {}, OfStage("s1") = {}
  PROVE  /\ S0Accepted /\ S1LineageHolds /\ S1Pristine
PROOF
<1>1. PICK i \in OfStage("s0") : OfStage("s0") = {i}
  BY StageIsSingle DEF Stages
<1>2. OfStage("returns") = {}
  BY DEF IInv, RowsInv, BoundTo, S1Stored, OfStage
<1>3. jobs = V1Rows \cup {i}
  BY <1>1, <1>2, JobsByStage DEF Undisturbed
<1>4. i \notin V1Rows /\ i \in jobs /\ i.stage = "s0"
  <2>1. i.stage = "s0" /\ i \in jobs
    BY <1>1 DEF OfStage
  <2>2. "s0" \notin V1Jobs
    BY V1JobsAre
  <2> QED  BY <2>1, <2>2, V1RowsAre
<1>5. Cardinality(jobs) = 4 /\ jobSeq = 5
  <2>1. IsFiniteSet(V1Rows) /\ Cardinality(V1Rows) = 3
    BY V1RowsAre
  <2>2. Cardinality(V1Rows \cup {i}) = Cardinality(V1Rows) + 1
    BY <1>4, <2>1, FS_AddElement
  <2> QED  BY <1>3, <2>1, <2>2 DEF Undisturbed
<1>6. strategies = {i.strategy} /\ details = {}
  BY <1>1 DEF IInv, RowsInv
<1>7. Cardinality(strategies) = 1 /\ strategySeq = 3
  <2>1. Cardinality({i.strategy}) = 1
    BY FS_Singleton
  <2> QED  BY <1>6, <2>1 DEF Undisturbed
<1>8. i.strategy = 2
  BY <1>4, <1>7 DEF IInv, RowsInv, RowOf, Txns
<1>9. i.pk \in Nat /\ i.pk # 0 /\ i.pk < 5
  BY <1>4, <1>5 DEF IInv, RowsInv, RowOf, Txns
<1>10. \A t \in V1Rows : t.pk # i.pk
  BY <1>3, <1>4, <1>9 DEF IInv, RowsApart, Apart
<1>11. i.pk = 4
  <2>1. i.pk \notin 1..3
    BY <1>10, V1RowsAre
  <2> QED  BY <1>9, <2>1
<1>12. SelectedS0 = {i}
  BY <1>1, <1>8 DEF SelectedS0, AcceptedIds
<1>13. Cardinality(SelectedS0) = 1 /\ Cardinality(OfStage("s0")) = 1
  BY <1>1, <1>12, FS_Singleton
<1>14. S1LineageHolds
  BY <1>6, <1>8, <1>11, <1>12 DEF S1LineageHolds, AcceptedIds
<1>15. S1Pristine
  BY <1>5, <1>6, V1JobsAre DEF S1Pristine
<1> QED  BY <1>13, <1>14, <1>15 DEF S0Accepted

LEMMA SecondStageIsAccepted ==
  ASSUME IInv, Undisturbed, OfStage("s1") # {}, OfStage("returns") = {}
  PROVE  LineageHolds
PROOF
<1>1. PICK k \in OfStage("s1") : OfStage("s1") = {k}
  BY StageIsSingle DEF Stages
<1>2. k \in jobs /\ k.stage = "s1"
  BY <1>1 DEF OfStage
<1>3. S0Stored /\ k.strategy = AcceptedIds.strategy
  BY <1>2 DEF IInv, RowsInv, RowOf, BoundTo
<1>4. PICK i \in OfStage("s0") : i.pk = AcceptedIds.s0 /\ i.strategy = AcceptedIds.strategy
  BY <1>3 DEF S0Stored
<1>5. OfStage("s0") = {i}
  BY <1>4, StageIsSingle DEF Stages
<1>6. i \in jobs /\ i.stage = "s0"
  BY <1>4 DEF OfStage
<1>7. i \notin V1Rows /\ k \notin V1Rows \cup {i}
  <2>1. "s0" \notin V1Jobs /\ "s1" \notin V1Jobs
    BY V1JobsAre
  <2> QED  BY <1>2, <1>6, <2>1, V1RowsAre
<1>8. jobs = (V1Rows \cup {i}) \cup {k}
  BY <1>1, <1>5, JobsByStage DEF Undisturbed
<1>9. IsFiniteSet(V1Rows \cup {i}) /\ Cardinality(V1Rows \cup {i}) = 4
  <2>1. IsFiniteSet(V1Rows) /\ Cardinality(V1Rows) = 3
    BY V1RowsAre
  <2>2. /\ IsFiniteSet(V1Rows \cup {i})
        /\ Cardinality(V1Rows \cup {i}) = Cardinality(V1Rows) + 1
    BY <1>7, <2>1, FS_AddElement
  <2> QED  BY <2>1, <2>2
<1>10. Cardinality(jobs) = 5 /\ jobSeq = 6
  BY <1>7, <1>8, <1>9, FS_AddElement DEF Undisturbed
<1>11. k.pk \in Nat /\ k.pk # 0 /\ k.pk < 6
  BY <1>2, <1>10 DEF IInv, RowsInv, RowOf, Txns
<1>12. i.pk = 4
  BY <1>4 DEF AcceptedIds
<1>13. \A t \in V1Rows \cup {i} : t.pk # k.pk
  BY <1>7, <1>8, <1>11 DEF IInv, RowsApart, Apart
<1>14. k.pk = 5
  <2>1. k.pk \notin 1..3
    BY <1>13, V1RowsAre
  <2> QED  BY <1>11, <1>12, <1>13, <2>1
<1>15. SelectedS0 = {i} /\ SelectedS1 = {k}
  BY <1>1, <1>3, <1>4, <1>5 DEF SelectedS0, SelectedS1
<1>16. Cardinality(SelectedS0) = 1 /\ Cardinality(SelectedS1) = 1
  BY <1>15, FS_Singleton
<1>17. ReturnAnchors
  BY <1>4, <1>14, <1>15, <1>16 DEF ReturnAnchors, AcceptedIds
<1>18. details = {k.pk}
  BY <1>1 DEF IInv, RowsInv
<1>19. ApplicationState
  <2>1. Cardinality({k.pk}) = 1
    BY FS_Singleton
  <2> QED  BY <1>10, <1>18, <2>1, V1JobsAre DEF ApplicationState
<1> QED  BY <1>17, <1>19 DEF LineageHolds

LEMMA InvImpliesNominalPath ==
  ASSUME IInv
  PROVE  NominalPathIsOpen
PROOF
<1>1. OfStage("s0") = {} => ~StrategyTaken
  BY DEF StrategyTaken, IInv, RowsInv
<1> QED  BY <1>1, FirstStageIsAccepted, SecondStageIsAccepted DEF NominalPathIsOpen, Undisturbed

\* Each stage of the study is stored at most once, by a process that had
\* verified everything the stage rests on, and bound to the stage before it;
\* what an undisturbed stage stored is what the next one demands
\* (execute_v2_s0_once, execute_authorized_v2_s1, execute_persistent).
THEOREM StagesStayGoverned ==
  Spec => []StagesAreGoverned
PROOF
<1>1. IInv => StagesAreGoverned
  BY InvImpliesTypeOK, InvImpliesOneRow, InvImpliesBound, InvImpliesNominalPath
     DEF StagesAreGoverned
<1> QED  BY <1>1, InvariantHolds, PTL

LEMMA InvImpliesAccepted ==
  ASSUME IInv, S1Stored
  PROVE  /\ details = {5}
         /\ \E i \in OfStage("s0"), j \in OfStage("s1") : i.pk = 4 /\ j.pk = 5
PROOF
<1>1. AcceptedIds.s0 = 4 /\ AcceptedIds.s1 = 5
  BY DEF AcceptedIds
<1>2. PICK k \in OfStage("s1") : k.pk = 5
  BY <1>1 DEF S1Stored
<1>3. OfStage("s1") = {k}
  BY StageIsSingle DEF Stages
<1>4. details = {5}
  BY <1>2, <1>3 DEF IInv, RowsInv
<1>5. S0Stored
  BY <1>2 DEF OfStage, IInv, RowsInv, BoundTo
<1> QED  BY <1>1, <1>2, <1>4, <1>5 DEF S0Stored

\* What an operator was told is what the rows say, also after a timeout, a
\* ceiling or a kill: success means a stored row, a refusal that none will
\* come, and after a report no transaction goes on (Finish, ParentReads,
\* EndProcess).
THEOREM ReportsStayHonest ==
  Spec => []ReportsAreHonest
PROOF
<1>1. IInv => ReportsAreHonest
  <2> SUFFICES ASSUME IInv
               PROVE  ReportsAreHonest
    OBVIOUS
  <2>1. \A p \in Procs : proc[p] \in Processes /\ Local(proc[p]) /\ Owns(proc[p]) /\ Learnt(proc[p])
    BY DEF IInv, TypeInv
  <2>2. ReportsMatchRows
    <3>1. ASSUME NEW p \in Procs, proc[p].told = "refused", NEW t \in jobs \cup flight
          PROVE  t.pk # 0 => t.pk # proc[p].mine
      BY <2>1, <3>1 DEF Local, ToldAtEnd, Fresh, Owns
    <3>2. ASSUME NEW p \in Procs, proc[p].told = "ok", proc[p].op \in Stages
          PROVE  \E j \in jobs : j.pk = proc[p].mine /\ j.stage = proc[p].op
      BY <2>1, <3>2 DEF Learnt
    <3> QED  BY <3>1, <3>2 DEF ReportsMatchRows
  <2>3. NothingStartsAfterReport
    BY <2>1 DEF NothingStartsAfterReport, Local, TxnOf, StageOf, ToldAtEnd
  <2>4. VerifiedIsComplete
    BY <2>1, InvImpliesAccepted DEF VerifiedIsComplete, Learnt
  <2> QED  BY <2>2, <2>3, <2>4 DEF ReportsAreHonest
<1> QED  BY <1>1, InvariantHolds, PTL

-----------------------------------------------------------------------------
(* One event: its resolution and its prices.                                  *)

(* A nonempty set of naturals has a least element, and a greatest if it is    *)
(* bounded: Min and Max as FiniteSetsExt defines them are in their sets.      *)
LEMMA LeastExists ==
  ASSUME NEW S, S \subseteq Nat, S # {}
  PROVE  \E m \in S : \A n \in S : m <= n
PROOF
<1> DEFINE R == {ss \in Nat \X Nat : ss[1] < ss[2]}
<1>1. IsWellFoundedOn(R, Nat)
  BY NatLessThanWellFounded DEF OpToRel
<1>2. \A x, y \in Nat : y < x => <<y, x>> \in R
  OBVIOUS
<1> HIDE DEF R
<1>3. PICK m \in S : \A n \in S : ~(<<n, m>> \in R)
  BY <1>1, WFMin
<1>4. ASSUME NEW n \in S
      PROVE  m <= n
  <2>1. m \in Nat /\ n \in Nat /\ ~(n < m)
    BY <1>2, <1>3
  <2> QED  BY <2>1
<1> QED  BY <1>4

LEMMA MinIsLeast ==
  ASSUME NEW S, S \subseteq Nat, S # {}
  PROVE  Min(S) \in S /\ \A n \in S : Min(S) <= n
PROOF
<1>1. PICK m \in S : \A n \in S : m <= n
  BY LeastExists
<1> QED  BY <1>1 DEF Min

LEMMA MaxIsMember ==
  ASSUME NEW S, S \subseteq Nat, S # {}, NEW k \in Nat, \A n \in S : n <= k
  PROVE  Max(S) \in S
PROOF
<1> DEFINE T == {k - n : n \in S}
<1>1. \A n \in S : n \in Nat /\ k - n \in Nat
  BY SMT
<1>2. T \subseteq Nat /\ T # {}
  BY <1>1
<1> HIDE DEF T
<1>3. PICK t \in T : \A u \in T : t <= u
  BY <1>2, LeastExists
<1>4. PICK m \in S : t = k - m
  BY <1>3 DEF T
<1>5. ASSUME NEW n \in S
      PROVE  m >= n
  <2>1. t <= k - n
    BY <1>3 DEF T
  <2> QED  BY <1>1, <1>4, <2>1
<1> QED  BY <1>5 DEF Max

\* The hours of the instrument from the entry to the horizon.
StartsOf(e) == {s \in e.h1 : s >= e.entry /\ s <= Horizon(e)}

\* The bars at which the event may end, and how it ends at its bar s.
AtOpen(e, n, s) == s # e.entry /\ (StructureDue(e, n, s) \/ s = n.horizon)
Ends(e, n) == {s \in n.starts : AtOpen(e, n, s) \/ StopTouch(e, s) \/ TargetTouch(e, s)}

LeavesAtOpen(e, n, r) ==
  /\ AtOpen(e, n, r.bar) /\ r.at = r.bar
  /\ r.terminal = IF StructureDue(e, n, r.bar) THEN "DAILY_STRUCTURE" ELSE "HORIZON"
LeavesInside(e, n, r) ==
  /\ ~AtOpen(e, n, r.bar) /\ r.at = r.bar + 1
  /\ \/ r.terminal = "STOP" /\ StopTouch(e, r.bar) /\ r.price = StopFill(e, r.bar)
     \/ r.terminal = "TARGET" /\ ~StopTouch(e, r.bar) /\ TargetTouch(e, r.bar)
        /\ r.price = e.target

\* What load_normalized_events hands on of a member of the cohort.
Loads(e, n) ==
  /\ n = Normalized(e)
  /\ Horizon(e) \in e.h1 /\ e.entry \in StartsOf(e)
  /\ \A t \in DecisionTimes(e, StartsOf(e)) : ConversionAt(e, t) # {}
  /\ \A t \in RolloverTimes(e.entry, Horizon(e)) \cup MarkTimes(e.entry, Horizon(e)) :
       CompletedBy(e.h1, t) # {}

LEMMA HorizonIsAnHour ==
  ASSUME NEW e \in Cohorts, Horizon(e) # NoTime
  PROVE  Horizon(e) \in e.h1
PROOF
<1> DEFINE after == {c \in e.d : c > e.entry}
           last == {c \in after : Cardinality({x \in after : x <= c}) = HorizonSessions}
           starts == {s \in e.h1 : \E c \in last : s >= c}
<1>1. Horizon(e) = IF starts = {} THEN NoTime ELSE Min(starts)
  BY DEF Horizon
<1>2. starts \subseteq e.h1 /\ e.h1 \subseteq Nat
  BY CohortsAssumption
<1> HIDE DEF starts
<1>3. starts # {} => Min(starts) \in starts
  BY <1>2, MinIsLeast
<1> QED  BY <1>1, <1>2, <1>3

LEMMA LoadedEvent ==
  ASSUME NEW e \in Cohorts, LoadEvent(e).status = "loaded"
  PROVE  Loads(e, LoadEvent(e))
PROOF
<1>1. Refused.status = "refused"
  BY DEF Refused
<1>2. /\ Horizon(e) # NoTime /\ e.entry \in StartsOf(e) /\ LoadEvent(e) = Normalized(e)
      /\ \A t \in DecisionTimes(e, StartsOf(e)) : ConversionAt(e, t) # {}
      /\ \A t \in RolloverTimes(e.entry, Horizon(e)) \cup MarkTimes(e.entry, Horizon(e)) :
           CompletedBy(e.h1, t) # {}
  BY <1>1 DEF LoadEvent, StartsOf
<1> QED  BY <1>2, HorizonIsAnHour DEF Loads

\* What Normalized names.
LEMMA NormalizedIs ==
  ASSUME NEW e, NEW n, n = Normalized(e)
  PROVE  /\ n.horizon = Horizon(e) /\ n.starts = StartsOf(e) /\ n.status = "loaded"
         /\ n.rolls = [t \in RolloverTimes(e.entry, Horizon(e)) |-> PriorCompletion(e.h1, t)]
         /\ n.marks = [t \in MarkTimes(e.entry, Horizon(e)) |-> PriorCompletion(e.h1, t)]
         /\ n.conversions = [t \in DecisionTimes(e, StartsOf(e)) |-> Max(ConversionAt(e, t))]
PROOF
  BY DEF Normalized, StartsOf

\* The times at which it has a rollover, a mark or a conversion.
LEMMA NormalizedKeys ==
  ASSUME NEW e, NEW n, n = Normalized(e)
  PROVE  /\ DOMAIN n.rolls = RolloverTimes(e.entry, Horizon(e))
         /\ DOMAIN n.marks = MarkTimes(e.entry, Horizon(e))
         /\ DOMAIN n.conversions = DecisionTimes(e, StartsOf(e))
PROOF
<1>1. DOMAIN n.rolls = RolloverTimes(e.entry, Horizon(e))
  <2> DEFINE At(t) == PriorCompletion(e.h1, t)
             T == RolloverTimes(e.entry, Horizon(e))
  <2>1. n.rolls = [t \in T |-> At(t)]
    BY NormalizedIs
  <2> HIDE DEF At, T
  <2>2. DOMAIN n.rolls = T
    BY <2>1
  <2> QED  BY <2>2 DEF T
<1>2. DOMAIN n.marks = MarkTimes(e.entry, Horizon(e))
  <2> DEFINE At(t) == PriorCompletion(e.h1, t)
             T == MarkTimes(e.entry, Horizon(e))
  <2>1. n.marks = [t \in T |-> At(t)]
    BY NormalizedIs
  <2> HIDE DEF At, T
  <2>2. DOMAIN n.marks = T
    BY <2>1
  <2> QED  BY <2>2 DEF T
<1>3. DOMAIN n.conversions = DecisionTimes(e, StartsOf(e))
  <2> DEFINE At(t) == Max(ConversionAt(e, t))
             T == DecisionTimes(e, StartsOf(e))
  <2>1. n.conversions = [t \in T |-> At(t)]
    BY NormalizedIs
  <2> HIDE DEF At, T
  <2>2. DOMAIN n.conversions = T
    BY <2>1
  <2> QED  BY <2>2 DEF T
<1> QED  BY <1>1, <1>2, <1>3

\* The event ends at the first bar that ends it, at the latest at its horizon:
\* at the bar's open, or else at its stop, or else at its target.
LEMMA EventResolves ==
  ASSUME NEW e \in Cohorts, NEW n, Loads(e, n), NEW r, r = ResolveEvent(e, n),
         r.status = "resolved"
  PROVE  /\ EventInput(e, n)
         /\ r.bar \in StartsOf(e) /\ r.bar <= Horizon(e)
         /\ LeavesAtOpen(e, n, r) \/ LeavesInside(e, n, r)
PROOF
<1>1. /\ n.horizon = Horizon(e) /\ n.starts = StartsOf(e)
      /\ Horizon(e) \in e.h1 /\ e.entry \in StartsOf(e)
  BY NormalizedIs DEF Loads
<1>2. EventInput(e, n)
  BY DEF ResolveEvent
<1>3. e.h1 \subseteq Nat /\ e.entry \in Nat /\ Horizon(e) \in Nat /\ e.entry < Horizon(e)
  BY <1>1, <1>2, CohortsAssumption DEF EventInput
<1>4. Horizon(e) \in Ends(e, n)
  BY <1>1, <1>3 DEF Ends, AtOpen, StartsOf
<1>5. Ends(e, n) \subseteq StartsOf(e) /\ StartsOf(e) \subseteq Nat
  BY <1>1, <1>3 DEF Ends, StartsOf
<1> DEFINE last == Min(Ends(e, n))
<1>6. last \in Ends(e, n) /\ last <= Horizon(e)
  BY <1>4, <1>5, MinIsLeast
<1>7. r = IF AtOpen(e, n, last)
          THEN [status |-> "resolved", bar |-> last,
                terminal |-> IF StructureDue(e, n, last) THEN "DAILY_STRUCTURE" ELSE "HORIZON",
                at |-> last, price |-> Open(e, last)]
          ELSE IF StopTouch(e, last)
          THEN [status |-> "resolved", bar |-> last, terminal |-> "STOP", at |-> last + 1,
                price |-> StopFill(e, last)]
          ELSE [status |-> "resolved", bar |-> last, terminal |-> "TARGET", at |-> last + 1,
                price |-> e.target]
  BY <1>2 DEF ResolveEvent, Ends, AtOpen
<1> HIDE DEF last
<1>8. r.bar = last
  BY <1>7
<1>9. last \in StartsOf(e) /\ (AtOpen(e, n, last) \/ StopTouch(e, last) \/ TargetTouch(e, last))
  BY <1>5, <1>6 DEF Ends
<1>10. CASE AtOpen(e, n, last)
  <2>1. LeavesAtOpen(e, n, r)
    BY <1>7, <1>10 DEF LeavesAtOpen
  <2> QED  BY <1>2, <1>6, <1>8, <1>9, <2>1
<1>11. CASE ~AtOpen(e, n, last)
  <2>1. LeavesInside(e, n, r)
    BY <1>7, <1>9, <1>11 DEF LeavesInside
  <2> QED  BY <1>2, <1>6, <1>8, <1>9, <2>1
<1> QED  BY <1>10, <1>11

\* It ends after its entry and within its horizon.
LEMMA ExitIsWithinHorizon ==
  ASSUME NEW e \in Cohorts, NEW n, Loads(e, n), NEW r, r = ResolveEvent(e, n),
         r.status = "resolved"
  PROVE  e.entry < r.at /\ r.at <= Horizon(e) /\ r.at \in Nat
PROOF
<1>1. /\ r.bar \in StartsOf(e) /\ r.bar <= Horizon(e)
      /\ LeavesAtOpen(e, n, r) \/ LeavesInside(e, n, r)
  BY EventResolves
<1>2. n.horizon = Horizon(e) /\ Horizon(e) \in e.h1 /\ e.h1 \subseteq Nat /\ e.entry \in Nat
      /\ e.entry < Horizon(e)
  <2>1. EventInput(e, n)
    BY EventResolves
  <2> QED  BY <2>1, NormalizedIs, CohortsAssumption DEF Loads, EventInput
<1>3. r.bar \in Nat /\ e.entry <= r.bar
  BY <1>1, <1>2 DEF StartsOf
<1>4. CASE LeavesAtOpen(e, n, r)
  BY <1>1, <1>2, <1>3, <1>4 DEF LeavesAtOpen, AtOpen
<1>5. CASE LeavesInside(e, n, r)
  BY <1>1, <1>2, <1>3, <1>5 DEF LeavesInside, AtOpen
<1> QED  BY <1>1, <1>4, <1>5

\* Its exit was among the times fixed in advance, unless a daily close ended it
\* at the start of an hour that follows a gap.
LEMMA ExitIsForeseen ==
  ASSUME NEW e \in Cohorts, NEW n, Loads(e, n), NEW r, r = ResolveEvent(e, n),
         r.status = "resolved"
  PROVE  r.at \in DecisionTimes(e, StartsOf(e)) <=> ~Unforeseen(e, r)
PROOF
<1>1. /\ r.bar \in StartsOf(e) /\ r.bar <= Horizon(e)
      /\ LeavesAtOpen(e, n, r) \/ LeavesInside(e, n, r)
  BY EventResolves
<1>2. e.entry < r.at /\ r.at <= Horizon(e) /\ r.at \in Nat
  BY ExitIsWithinHorizon
<1>3. /\ n.horizon = Horizon(e) /\ Horizon(e) \in Nat /\ e.h1 \subseteq Nat /\ e.entry \in Nat
  BY NormalizedIs, CohortsAssumption DEF Loads
<1>4. r.bar \in e.h1 /\ r.bar \in Nat /\ r.bar >= e.entry
  BY <1>1, <1>3 DEF StartsOf
<1>5. (\E s \in StartsOf(e) : r.at = s + 1) <=> r.at - 1 \in e.h1
  <2>1. ASSUME NEW s \in StartsOf(e), r.at = s + 1
        PROVE  r.at - 1 \in e.h1
    BY <1>3, <2>1 DEF StartsOf
  <2>2. ASSUME r.at - 1 \in e.h1
        PROVE  \E s \in StartsOf(e) : r.at = s + 1
    <3>1. r.at - 1 \in StartsOf(e) /\ r.at = (r.at - 1) + 1
      BY <1>2, <1>3, <2>2 DEF StartsOf
    <3> QED  BY <3>1
  <2> QED  BY <2>1, <2>2
<1>6. r.at \in MarkTimes(e.entry, Horizon(e)) <=> IsMark(r.at)
  BY <1>2, <1>3 DEF MarkTimes
<1>7. r.at \in RolloverTimes(e.entry, Horizon(e)) => IsMark(r.at)
  BY DEF RolloverTimes
<1>8. r.at \in DecisionTimes(e, StartsOf(e)) <=>
        r.at = Horizon(e) \/ r.at - 1 \in e.h1 \/ IsMark(r.at)
  BY <1>2, <1>3, <1>5, <1>6, <1>7 DEF DecisionTimes
<1>9. CASE LeavesInside(e, n, r)
  <2>1. r.at - 1 \in e.h1
    BY <1>4, <1>9 DEF LeavesInside
  <2> QED  BY <1>8, <2>1 DEF Unforeseen
<1>10. CASE LeavesAtOpen(e, n, r)
  <2>1. CASE StructureDue(e, n, r.bar)
    BY <1>8, <1>10, <2>1 DEF LeavesAtOpen, Unforeseen
  <2>2. CASE ~StructureDue(e, n, r.bar)
    <3>1. r.at = Horizon(e) /\ r.terminal = "HORIZON"
      BY <1>3, <1>10, <2>2 DEF LeavesAtOpen, AtOpen
    <3> QED  BY <1>8, <3>1 DEF Unforeseen
  <2> QED  BY <2>1, <2>2
<1> QED  BY <1>1, <1>9, <1>10

\* Once resolved, only an exit that was not foreseen stays without a price:
\* rollovers and marks of the whole horizon were loaded.
LEMMA ForeseenIsPriced ==
  ASSUME NEW e \in Cohorts, ResultOf(e).status \in {"priced", "unpriced"}
  PROVE  LET x == ResultOf(e)
             n == LoadEvent(e)
         IN  /\ Loads(e, n) /\ x.event = e
             /\ x.exit = ResolveEvent(e, n) /\ x.exit.status = "resolved"
             /\ x.status = "unpriced" <=> Unforeseen(e, x.exit)
PROOF
<1> DEFINE n == LoadEvent(e)
           r == ResolveEvent(e, n)
           x == ResultOf(e)
           whole == /\ r.at \in DOMAIN n.conversions
                    /\ e.entry < r.at /\ r.at <= n.horizon
                    /\ RolloversMatch(e, n, r)
                    /\ MarksUsed(e, r) \subseteq DOMAIN n.marks
<1>1. n.status = "loaded"
  <2>1. n.status = "loaded" \/ x = Refused
    BY DEF ResultOf, LoadEvent, Normalized
  <2> QED  BY <2>1 DEF Refused
<1>2. Loads(e, n)
  BY <1>1, LoadedEvent
<1>3. x = Calculate(e, n)
  BY <1>1 DEF ResultOf
<1>4. r.status = "resolved"
  <2>1. r.status = "resolved" \/ x = r
    BY <1>3 DEF Calculate
  <2>2. r.status \in {"resolved", "unresolved"}
    BY DEF ResolveEvent
  <2> QED  BY <2>1, <2>2
<1>5. /\ x.event = e /\ x.exit = r
      /\ x.status = IF whole THEN "priced" ELSE "unpriced"
  BY <1>3, <1>4 DEF Calculate
<1>6. /\ n.horizon = Horizon(e) /\ DOMAIN n.conversions = DecisionTimes(e, StartsOf(e))
      /\ DOMAIN n.rolls = RolloverTimes(e.entry, Horizon(e))
      /\ DOMAIN n.marks = MarkTimes(e.entry, Horizon(e))
  <2>1. n = Normalized(e)
    BY <1>2 DEF Loads
  <2>2. n.horizon = Horizon(e)
    BY <2>1, NormalizedIs
  <2> QED  BY <2>1, <2>2, NormalizedKeys
<1>7. e.entry < r.at /\ r.at <= Horizon(e) /\ r.at \in Nat /\ e.entry \in Nat
      /\ Horizon(e) \in Nat
  <2>1. Horizon(e) \in e.h1 /\ e.h1 \subseteq Nat /\ e.entry \in Nat
    BY <1>2, CohortsAssumption DEF Loads
  <2> QED  BY <1>2, <1>4, <2>1, ExitIsWithinHorizon
<1>8. r.at \in DecisionTimes(e, StartsOf(e)) <=> ~Unforeseen(e, r)
  BY <1>2, <1>4, ExitIsForeseen
<1>9. RolloversMatch(e, n, r) /\ MarksUsed(e, r) \subseteq DOMAIN n.marks
  <2>1. RolloversMatch(e, n, r)
    BY <1>6 DEF RolloversMatch
  <2>2. MarkTimes(e.entry, r.at - 1) \subseteq MarkTimes(e.entry, Horizon(e))
    BY <1>7 DEF MarkTimes
  <2> QED  BY <1>6, <2>1, <2>2 DEF MarksUsed
<1>10. whole <=> ~Unforeseen(e, r)
  BY <1>6, <1>7, <1>8, <1>9
<1> HIDE DEF whole, n, r, x
<1> QED  BY <1>2, <1>4, <1>5, <1>10 DEF n, r, x

\* What a price is taken from was complete at the time it stands for.
LEMMA CompletionIsPrior ==
  ASSUME NEW starts, starts \subseteq Nat, NEW t \in Nat, CompletedBy(starts, t) # {}
  PROVE  Max(CompletedBy(starts, t)) <= t
PROOF
<1>1. ASSUME NEW c \in CompletedBy(starts, t)
      PROVE  c \in Nat /\ c <= t
  <2>1. PICK s \in starts : s + 1 <= t /\ c = s + 1
    BY DEF CompletedBy
  <2> QED  BY <2>1
<1>2. CompletedBy(starts, t) \subseteq Nat
  BY <1>1
<1> QED  BY <1>1, <1>2, MaxIsMember

LEMMA PricesAreKnown ==
  ASSUME NEW x \in Priced
  PROVE  \A u \in x.used : u[2] <= u[1]
PROOF
<1>1. PICK e \in GovernedCohort : x = ResultOf(e) /\ x.status = "priced"
  BY DEF Priced
<1> DEFINE n == LoadEvent(e)
           r == ResolveEvent(e, n)
<1>2. e \in Cohorts
  BY DEF GovernedCohort
<1>3. Loads(e, n) /\ r.status = "resolved" /\ x.exit = r
  BY <1>1, <1>2, ForeseenIsPriced
<1>4. n.status = "loaded"
  BY <1>3, NormalizedIs DEF Loads
<1>5. x = Calculate(e, n)
  BY <1>1, <1>4 DEF ResultOf
<1>6. /\ x.used = {<<t, n.marks[t]>> : t \in MarksUsed(e, r)}
                    \cup {<<t, n.rolls[t]>> : t \in {y \in DOMAIN n.rolls : y <= r.at}}
                    \cup {<<r.at, n.conversions[r.at]>>}
      /\ r.at \in DOMAIN n.conversions /\ MarksUsed(e, r) \subseteq DOMAIN n.marks
  BY <1>1, <1>3, <1>5 DEF Calculate
<1>7. /\ n.rolls = [t \in RolloverTimes(e.entry, Horizon(e)) |-> PriorCompletion(e.h1, t)]
      /\ n.marks = [t \in MarkTimes(e.entry, Horizon(e)) |-> PriorCompletion(e.h1, t)]
      /\ n.conversions = [t \in DecisionTimes(e, StartsOf(e)) |-> Max(ConversionAt(e, t))]
  BY <1>3, NormalizedIs DEF Loads
<1>8. /\ e.h1 \subseteq Nat /\ e.conv \subseteq Nat /\ e.entry \in Nat /\ Horizon(e) \in Nat
      /\ r.at \in Nat /\ e.entry < r.at
  <2>1. e.h1 \subseteq Nat /\ e.conv \subseteq Nat /\ e.entry \in Nat
    BY <1>2, CohortsAssumption
  <2>2. r.at \in Nat /\ e.entry < r.at
    BY <1>2, <1>3, ExitIsWithinHorizon
  <2> QED  BY <1>3, <2>1, <2>2 DEF Loads
<1> HIDE DEF n, r
<1>9. \A t \in MarkTimes(e.entry, Horizon(e)) \cup RolloverTimes(e.entry, Horizon(e)) :
        t \in Nat /\ PriorCompletion(e.h1, t) <= t
  <2>1. \A t \in MarkTimes(e.entry, Horizon(e)) \cup RolloverTimes(e.entry, Horizon(e)) :
          t \in Nat /\ CompletedBy(e.h1, t) # {}
    BY <1>3, <1>8 DEF Loads, MarkTimes, RolloverTimes
  <2> QED  BY <1>8, <2>1, CompletionIsPrior DEF PriorCompletion
<1>10. n.conversions[r.at] <= r.at
  <2>1. ConversionAt(e, r.at) # {} /\ r.at \in DecisionTimes(e, StartsOf(e))
    BY <1>3, <1>6, <1>7 DEF Loads
  <2>2. Max(CompletedBy(e.conv, r.at - 1)) <= r.at - 1
    BY <1>8, <2>1, CompletionIsPrior DEF ConversionAt
  <2>3. Max(CompletedBy(e.conv, r.at - 1)) \in Nat
    <3>1. /\ CompletedBy(e.conv, r.at - 1) \subseteq Nat
          /\ \A c \in CompletedBy(e.conv, r.at - 1) : c <= r.at - 1
      BY <1>8 DEF CompletedBy
    <3> QED  BY <1>8, <2>1, <3>1, MaxIsMember DEF ConversionAt
  <2> QED  BY <1>7, <1>8, <2>1, <2>2, <2>3 DEF ConversionAt
<1>11. ASSUME NEW u \in x.used
       PROVE  u[2] <= u[1]
  <2>1. CASE u \in {<<t, n.marks[t]>> : t \in MarksUsed(e, r)}
    BY <1>6, <1>7, <1>9, <2>1
  <2>2. CASE u \in {<<t, n.rolls[t]>> : t \in {y \in DOMAIN n.rolls : y <= r.at}}
    BY <1>7, <1>9, <2>2
  <2>3. CASE u = <<r.at, n.conversions[r.at]>>
    BY <1>10, <2>3
  <2> QED  BY <1>6, <1>11, <2>1, <2>2, <2>3
<1> QED  BY <1>11

\* Inside its last bar an event fills at the worst price the bar allows.
LEMMA FillIsTheWorst ==
  ASSUME NEW x \in Priced, x.exit.terminal \in {"STOP", "TARGET"},
         NEW fill \in TickExits(x.event, x.exit.bar)
  PROVE  Sign(x.event) * x.exit.price <= Sign(x.event) * fill
PROOF
<1>1. PICK e \in GovernedCohort : x = ResultOf(e) /\ x.status = "priced"
  BY DEF Priced
<1> DEFINE n == LoadEvent(e)
           r == ResolveEvent(e, n)
<1>2. e \in Cohorts
  BY DEF GovernedCohort
<1>3. Loads(e, n) /\ r.status = "resolved" /\ x.exit = r /\ x.event = e
  BY <1>1, <1>2, ForeseenIsPriced
<1>4. EventInput(e, n) /\ r.bar \in StartsOf(e) /\ LeavesInside(e, n, r)
  <2>1. EventInput(e, n) /\ r.bar \in StartsOf(e)
        /\ (LeavesAtOpen(e, n, r) \/ LeavesInside(e, n, r))
    BY <1>2, <1>3, EventResolves
  <2>2. ~LeavesAtOpen(e, n, r)
    BY <1>3 DEF LeavesAtOpen
  <2> QED  BY <2>1, <2>2
<1> HIDE DEF n, r
<1> DEFINE s == r.bar
<1>5. /\ e.dir \in {"long", "short"} /\ e.entry \in e.h1 /\ s \in e.h1
      /\ e.spread \in Int /\ e.stop \in Int /\ e.target \in Int
      /\ e.bar[s].low \in Int /\ e.bar[s].open \in Int /\ e.bar[s].high \in Int
      /\ e.bar[s].low <= e.bar[s].open /\ e.bar[s].open <= e.bar[s].high
      /\ e.bar[e.entry].open \in Int
  BY <1>2, <1>3, <1>4, CohortsAssumption DEF Loads, StartsOf
<1>6. Sign(e) * e.stop < Sign(e) * EntryPrice(e) /\ Sign(e) * EntryPrice(e) < Sign(e) * e.target
  BY <1>4 DEF EventInput
<1>7. fill \in TickExits(e, s)
  BY <1>3
<1>8. \/ r.price = StopFill(e, s) /\ StopTouch(e, s)
      \/ r.price = e.target /\ ~StopTouch(e, s)
  BY <1>4 DEF LeavesInside
<1> HIDE DEF s
<1>9. CASE e.dir = "long"
  <2>1. /\ Sign(e) = 1 /\ Open(e, s) = e.bar[s].open
        /\ StopTouch(e, s) <=> e.bar[s].low <= e.stop
        /\ EntryPrice(e) \in Int
    BY <1>5, <1>9 DEF Sign, Open, StopTouch, EntryPrice
  <2>2. e.stop < e.target
    BY <1>5, <1>6, <2>1
  <2>3. \/ (Open(e, s) <= e.stop \/ Open(e, s) >= e.target) /\ fill = Open(e, s)
        \/ Open(e, s) > e.stop /\ fill = e.stop /\ StopTouch(e, s)
        \/ Open(e, s) > e.stop /\ fill = e.target
    BY <1>5, <1>7, <2>1 DEF TickExits
  <2>4. r.price <= fill
    BY <1>5, <1>8, <2>1, <2>2, <2>3 DEF StopFill
  <2>5. r.price \in Int /\ fill \in Int
    BY <1>5, <1>8, <2>1, <2>3 DEF StopFill
  <2> QED  BY <1>3, <2>1, <2>4, <2>5
<1>10. CASE e.dir = "short"
  <2>1. /\ Sign(e) = -1 /\ Open(e, s) = e.bar[s].open + e.spread
        /\ StopTouch(e, s) <=> e.bar[s].high + e.spread >= e.stop
        /\ EntryPrice(e) \in Int
    BY <1>5, <1>10 DEF Sign, Open, StopTouch, EntryPrice
  <2>2. e.target < e.stop
    BY <1>5, <1>6, <2>1
  <2>3. \/ (Open(e, s) >= e.stop \/ Open(e, s) <= e.target) /\ fill = Open(e, s)
        \/ Open(e, s) < e.stop /\ fill = e.stop /\ StopTouch(e, s)
        \/ Open(e, s) < e.stop /\ fill = e.target
    BY <1>5, <1>7, <2>1 DEF TickExits
  <2>4. fill <= r.price
    BY <1>5, <1>8, <2>1, <2>2, <2>3 DEF StopFill
  <2>5. r.price \in Int /\ fill \in Int
    BY <1>5, <1>8, <2>1, <2>3 DEF StopFill
  <2> QED  BY <1>3, <2>1, <2>4, <2>5
<1> QED  BY <1>5, <1>9, <1>10

LEMMA InvImpliesSealed ==
  ASSUME IInv, NEW p \in Procs, proc[p].event # None
  PROVE  /\ FrozenBefore.returns \subseteq proc[p].seen
         /\ \E j \in OfStage("s1") : j.pk = 5 /\ details = {5}
         /\ ~proc[p].late
PROOF
<1>1. Local(proc[p]) /\ Learnt(proc[p]) /\ proc[p].op = "returns"
  BY DEF IInv, Local
<1>2. S1Stored /\ ~proc[p].late
  BY <1>1 DEF Learnt
<1> QED  BY <1>1, <1>2, InvImpliesAccepted DEF Local

\* A return is computed only by a process that verified everything above it and
\* never when a result was already there (ensure_absent); what it stores was
\* known at its time, fills at the worst price its bar allows, and is there for
\* every event whose exit was foreseen (load_normalized_events, resolve_event).
THEOREM ReturnsStayHonest ==
  Spec => []ReturnsAreHonest
PROOF
<1>1. IInv => ReturnsAreHonest
  <2> SUFFICES ASSUME IInv
               PROVE  ReturnsAreHonest
    OBVIOUS
  <2>1. OutcomesAreSealed
    BY InvImpliesSealed DEF OutcomesAreSealed
  <2>2. ResolvedEventsArePriced
    <3>1. ASSUME NEW p \in Procs, NEW x, x = proc[p].event, x # None,
                 x.status \in {"priced", "unpriced"}
          PROVE  x.status = "unpriced" <=> Unforeseen(x.event, x.exit)
      <4>1. x \in Results
        BY <3>1 DEF IInv, TypeInv, Processes
      <4>2. PICK e \in GovernedCohort : x = ResultOf(e)
        BY <3>1, <4>1 DEF Results, Refused
      <4>3. e \in Cohorts
        BY DEF GovernedCohort
      <4> QED  BY <3>1, <4>2, <4>3, ForeseenIsPriced
    <3> QED  BY <3>1 DEF ResolvedEventsArePriced
  <2>3. \A j \in OfStage("returns") : j.report \in Priced
    BY DEF IInv, RowsInv, RowOf, OfStage
  <2>4. NoLookAhead
    BY <2>3, PricesAreKnown DEF NoLookAhead
  <2>5. ExitIsPessimistic
    BY <2>3, FillIsTheWorst DEF ExitIsPessimistic
  <2> QED  BY <2>1, <2>2, <2>4, <2>5 DEF ReturnsAreHonest
<1> QED  BY <1>1, InvariantHolds, PTL
================================================================================
