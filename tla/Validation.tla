------------------------------ MODULE Validation ------------------------------
(***************************************************************************)
(* The offline validation of the strategies (phase 5.5): a private cache   *)
(* of acquired candles (validation_acquisition.py), its frozen manifest    *)
(* and the projection sent to the workers (validation_data.py,             *)
(* validation_worker.py), the append-only catalog of daily checkpoints     *)
(* (validation_registration.py), the batch and the workers that fill it    *)
(* (validation_batch.py), and the published reports.                       *)
(*                                                                         *)
(* Everything is a file that outlives its processes.  A process may die    *)
(* between any two of its transactions and loses what it had proved; two   *)
(* processes of one group may run at once; files may be lost or altered    *)
(* below SQLite while no process has them open, and source files edited at *)
(* any time, at most Faults times.                                         *)
(* A process imports its code, opens its files and compares the source     *)
(* hashes in one step.  A registration is named by the sources it hashes.  *)
(***************************************************************************)
EXTENDS ValidationReports, TLC

CONSTANTS
    Procs,
    Requests,    \* the chunks of the plan, in order
    Period,      \* of each request: "development" or "sealed"
    Contents,    \* what the provider may answer for a development chunk
    Acquired,    \* what it had answered when the catalogs are followed
    Batches,     \* the strategies of the worker's group, batch by batch
    BatchDays,   \* days of one call of run
    Limit,       \* chunks one acquisition run fetches at most
    Mine,        \* the strategies the owner runs by hand, a bound
    MaxFiles,    \* files of the owner's reports, a bound
    Faults       \* crashes, losses, alterations and edits

\* The requests include development chunks, whose candles there are; names of
\* strategies, instruments and marks differ.
ASSUME ValidationAssumption ==
    /\ Requests \in Seq(Range(Requests)) /\ \E r \in Range(Requests) : Period[r] = "development"
    /\ Contents # {} /\ None \notin Contents /\ \A k \in {"worker", "manual"} : Acquired[k] \subseteq Contents
    /\ EndDay \in Nat /\ BatchDays \in Nat \ {0} /\ {Faults, Limit} \subseteq Nat
    /\ Pairs \in Seq(Range(Pairs)) /\ Pairs # <<>> /\ OVERLAYS \in Seq(Range(OVERLAYS))
    /\ "completed" \notin Range(Pairs) /\ NoBaseline \notin Strategies
    /\ Batches \in Seq(Seq(Strategies) \ {<<>>}) /\ Batches # <<>> /\ Mine \subseteq Strategies

VARIABLES
    kind,      \* the part followed: the acquisition, a worker group's catalog, the owner's
    sources,   \* the source files: as frozen, or edited
    store,     \* the acquisition cache
    frozen,    \* the manifest of acquired-coverage.json
    transfer,  \* the projection
    catalog,   \* registrations and checkpoints
    files,     \* reports and completion marks
    proc,      \* the processes
    reads,     \* history: the periods whose candles were read
    refused,   \* history: why processes ended without finishing
    harm,      \* history: what was lost, altered or edited
    faults

vars == <<kind, sources, store, frozen, transfer, catalog, files, proc, reads, refused, harm, faults>>

NotFrozen == {}
NoFile == [regs |-> {}, chunks |-> {}, era |-> 0]

-----------------------------------------------------------------------------
(* Processes.                                                              *)

Idle == [pc |-> "idle", tries |-> 0, count |-> 0, got |-> None, reg |-> "none", data |-> None, proofs |-> <<>>,
         batch |-> 1, pair |-> 1, turn |-> 1, cursors |-> <<>>, chain |-> <<>>, day |-> 0, until |-> 0,
         pred |-> <<>>, todo |-> <<>>, published |-> {}]

Is(p, pc) == proc[p].pc = pc
Become(p, record) == proc' = [proc EXCEPT ![p] = record]

\* What a process ends on without blaming a file: it comes too early, another
\* one is at work, or the provider fails.
Waits == {"locked", "provider_auth", "provider_failed", "projection_exists", "frozen_coverage",
          "projection_mismatch", "registration_missing"}
Refuse(p, reason) ==
    /\ Become(p, Idle)
    /\ refused' = IF reason \in Waits \/ (kind = "manual" /\ reason = "chain_incomplete")
                  THEN refused ELSE refused \cup {reason}

Quiet == \A p \in Procs : Is(p, "idle")
Fault(what) == /\ faults < Faults /\ faults' = faults + 1
               /\ harm' = harm \cup what

-----------------------------------------------------------------------------
(* The acquisition cache.  A chunk is stored under the plan in force; the  *)
(* accepted plans are this one and its predecessor.                        *)

plan == sources
predecessor_plan == "v2"
Accepted == {plan, predecessor_plan}

Chunk(request, reg, content) ==
    [request |-> request, reg |-> reg, content |-> content, blob |-> content, era |-> store.era]

\* Opening fails when another process holds the lock, when a stored plan is
\* not accepted and when the chunks' lineage is not one per request.
Locked == \E p \in Procs : proc[p].pc \in {"acquire", "insert"}
Drifted == ~(store.regs \subseteq Accepted)
LineageCorrupt ==
    \/ \E c \in store.chunks : c.reg \notin store.regs
    \/ \E c, d \in store.chunks : c # d /\ c.request = d.request

\* The plan under which a request is identified: that of its stored chunk.
identity(request) ==
    LET own == {c.reg : c \in {d \in store.chunks : d.request = request}}
    IN IF own = {} THEN plan ELSE CHOOSE reg \in own : TRUE

Held(request) == {c \in store.chunks : c.request = request /\ c.reg = identity(request)}
Intact(c) == c.blob = c.content

\* The next request the loop stops at: the first that is not held.
Pending == {i \in DOMAIN Requests : Held(Requests[i]) = {}}
NextRequest == Requests[Min(Pending)]
Blocking == {i \in DOMAIN Requests : /\ Pending = {} \/ i < Min(Pending)
                                     /\ \E c \in Held(Requests[i]) : ~Intact(c)}

AcquireOpen(p) ==
    /\ Is(p, "idle") /\ kind = "acquisition"
    /\ IF Locked THEN Refuse(p, "locked") /\ UNCHANGED store
       ELSE IF Drifted THEN Refuse(p, "acquisition_registration_drift") /\ UNCHANGED store
       ELSE IF LineageCorrupt THEN Refuse(p, "acquisition_lineage_corrupt") /\ UNCHANGED store
       ELSE /\ store' = [store EXCEPT !.regs = @ \cup {plan}]
            /\ Become(p, [Idle EXCEPT !.pc = "acquire", !.reg = plan]) /\ UNCHANGED refused
    /\ UNCHANGED <<kind, sources, frozen, transfer, catalog, files, reads, harm, faults>>

\* One bounded request; an answer is parsed whole or refused.
fetch(request) == IF Period[request] = "development" THEN Contents ELSE {1}

AcquireFetch(p) ==
    /\ Is(p, "acquire")
    /\ IF Blocking # {} THEN Refuse(p, "acquisition_chunk_corrupt")
       ELSE IF Pending = {} \/ proc[p].count >= Limit THEN Become(p, Idle) /\ UNCHANGED refused
       ELSE \/ \E content \in fetch(NextRequest) :
                 Become(p, [proc[p] EXCEPT !.pc = "insert", !.got = content]) /\ UNCHANGED refused
            \/ Refuse(p, "provider_auth")
            \/ IF proc[p].tries = 2 THEN Refuse(p, "provider_failed")
               ELSE Become(p, [proc[p] EXCEPT !.tries = @ + 1]) /\ UNCHANGED refused
    /\ UNCHANGED <<kind, sources, store, frozen, transfer, catalog, files, reads, harm, faults>>

AcquireInsert(p) ==
    /\ Is(p, "insert")
    /\ store' = [store EXCEPT !.chunks = @ \cup {Chunk(NextRequest, proc[p].reg, proc[p].got)}]
    /\ Become(p, [proc[p] EXCEPT !.pc = "acquire", !.tries = 0, !.count = @ + 1, !.got = None])
    /\ UNCHANGED <<kind, sources, frozen, transfer, catalog, files, reads, refused, harm, faults>>

-----------------------------------------------------------------------------
(* Reading the cache.                                                      *)

Manifest(f) == {[request |-> c.request, reg |-> c.reg, content |-> c.content, era |-> c.era] :
                  c \in f.chunks}

\* Authenticated and complete under the plan in force.
metadata(f) ==
    /\ plan \in f.regs /\ f.regs \subseteq Accepted
    /\ \A c, d \in f.chunks : c.request = d.request => c = d
    /\ {c.request : c \in f.chunks} = Range(Requests)

audit_cache(f) == metadata(f) /\ frozen # NotFrozen /\ Manifest(f) = frozen

\* The chunks whose blobs the loader selects.
load_development(f) == {c \in f.chunks : Period[c.request] # "sealed"}

\* The market a loader builds, or None when it refuses.
Loaded(f) ==
    LET open == load_development(f)
    IN IF metadata(f) /\ Manifest(f) = frozen /\ \A c \in open : Intact(c)
       THEN (CHOOSE c \in open : Period[c.request] = "development").content
       ELSE None

\* acquired-coverage.json and the registration frozen with it are committed.
Freeze ==
    /\ frozen = NotFrozen /\ metadata(store) /\ sources = "frozen"
    /\ frozen' = Manifest(store)
    /\ UNCHANGED <<kind, sources, store, transfer, catalog, files, proc, reads, refused, harm, faults>>

-----------------------------------------------------------------------------
(* The projection of the cache for the workers: sealed chunks keep their   *)
(* metadata and lose their candles.                                        *)

Sealed(c) == IF Period[c.request] = "sealed" THEN [c EXCEPT !.blob = None] ELSE c
Projected(f) == [f EXCEPT !.chunks = {Sealed(c) : c \in f.chunks}]

\* The destination is created exclusively.
ProjectOpen(p) ==
    /\ Is(p, "idle") /\ kind = "acquisition"
    /\ IF ~audit_cache(store) THEN Refuse(p, "frozen_coverage") /\ UNCHANGED transfer
       ELSE IF transfer.state # "none" THEN Refuse(p, "projection_exists") /\ UNCHANGED transfer
       ELSE /\ transfer' = [transfer EXCEPT !.state = "partial"]
            /\ Become(p, [Idle EXCEPT !.pc = "project"]) /\ UNCHANGED refused
    /\ UNCHANGED <<kind, sources, store, frozen, catalog, files, reads, harm, faults>>

\* The copy is one transaction, and its digest is committed as
\* worker-transfer.json.  A failure removes the destination.
ProjectCopy(p) ==
    LET copied == load_development(store)
    IN /\ Is(p, "project")
       /\ reads' = reads \cup {Period[c.request] : c \in copied}
       /\ Become(p, Idle)
       /\ IF metadata(store) /\ Manifest(store) = frozen /\ \A c \in copied : Intact(c)
          THEN /\ transfer' = [transfer EXCEPT !.state = "complete", !.file = Projected(store),
                                               !.binding = Projected(store)]
               /\ UNCHANGED refused
          ELSE /\ transfer' = [transfer EXCEPT !.state = "none"]
               /\ refused' = refused \cup {"projection_refused"}
       /\ UNCHANGED <<kind, sources, store, frozen, catalog, files, harm, faults>>

\* The owner removes what a dead projection left.
RemovePartial ==
    /\ transfer.state = "partial" /\ \A p \in Procs : ~Is(p, "project")
    /\ transfer' = [transfer EXCEPT !.state = "none"]
    /\ UNCHANGED <<kind, sources, store, frozen, catalog, files, proc, reads, refused, harm, faults>>

verify_projection ==
    /\ transfer.state = "complete" /\ transfer.file = transfer.binding
    /\ audit_cache(transfer.file)
    /\ \A c \in transfer.file.chunks : (c.blob # None) <=> (Period[c.request] # "sealed")

\* The file whose candles a process replays.
DataFile == IF kind = "worker" THEN transfer.file ELSE store

-----------------------------------------------------------------------------
(* The catalog.  The rows of a checkpoint are named by what they were      *)
(* computed from, and its digest covers its rows, its end state and its    *)
(* predecessor's digest, so a digest stands for the whole prefix.          *)

\* Every day, from every state in which it may start.
States == [Scenarios -> {None} \cup UNION {{t.exit : t \in Range(m.setups)} \cup 1..End : m \in Range(Market)}]
Days == [data \in DOMAIN Market, chain \in Chains, day \in 0..(EndDay - 1), start \in States |->
           day_rows(Market[data], chain, day, start)]

Named(data, start) == [data |-> data, start |-> start, forged |-> FALSE]
\* The rows a name stands for; forged ones claim there was nothing to trade.
Rows(chain, day, name) ==
    LET rows == Days[name.data, chain, day, name.start].rows
    IN IF name.forged
       THEN [rows EXCEPT ![1].scenarios = [sc \in Scenarios |-> unavailable("forged")]]
       ELSE rows

Body(chain, day, rows, end, pred) ==
    [chain |-> chain, day |-> day, rows |-> rows, end |-> end, pred |-> pred]
Digest(b) == Append(b.pred, [rows |-> b.rows, end |-> b.end])
EndState(sha) == IF sha = <<>> THEN NoneActive ELSE Last(sha).end

\* The rows of a chain are kept in the order of their rowids.
Stored(chain, day) == {b \in Range(catalog.rows[chain]) : b.day = day}
Row(chain, day) == CHOOSE b \in Stored(chain, day) : TRUE

\* The registration names the current sources and the frozen coverage.
validate_registration(reg) == frozen # NotFrozen /\ reg = sources
load(reg) == reg \in catalog.regs /\ validate_registration(reg)
register == catalog' = [catalog EXCEPT !.regs = @ \cup {sources}]

\* The checkpoint that follows a verified prefix, derived from the inputs alone.
replay_checkpoint(data, chain, day, pred) ==
    LET start == EndState(pred)
    IN Body(chain, day, Named(data, start), Days[data, chain, day, start].active, pred)

NeedsData(chain) == chain[1] \notin BLOCKED
\* The rows of a blocked strategy do not depend on the candles.
DataFor(chain, data) == IF NeedsData(chain) THEN data ELSE 1

\* The digest under which a day was stored on the one before it.
Before(chain, day) == IF day = 0 THEN <<>> ELSE Digest(Row(chain, day - 1))

\* Mutant of VerifyDay: only the ancestry of a stored day is compared.
VerifyDay_Ancestry(data, proofs, chain, day) ==
    IF Row(chain, day).pred # Before(chain, day) THEN "checkpoint_ancestry" ELSE "none"

\* One stored day, those before it accepted, against its proof, which is
\* replayed when there is none: a proof is the digest of a day computed on the
\* same prefix.
VerifyDay(data, proofs, chain, day) ==
    LET b == Row(chain, day)
        pred == Before(chain, day)
        k == <<chain, day>>
        known == k \in DOMAIN proofs /\ Front(proofs[k]) = pred
        proof == IF known THEN proofs[k] ELSE Digest(replay_checkpoint(data, chain, day, pred))
    IN IF b.pred # pred THEN "checkpoint_ancestry"
       ELSE IF proof # Digest(b) THEN "checkpoint_replay_mismatch"
       ELSE "none"

\* Proofs with those of further days.
With(proofs, digests) ==
    [k \in DOMAIN proofs \cup DOMAIN digests |-> IF k \in DOMAIN digests THEN digests[k] ELSE proofs[k]]
Digests(chains, stop) == [k \in chains \X (0..(stop - 1)) |-> Digest(Row(k[1], k[2]))]

Failed(reason) == [bad |-> reason, pred |-> <<>>, proofs |-> <<>>]

\* The verified prefix of a chain up to a day: the first wrong day decides.
Judged(verdict, proofs, chain, stop) ==
    LET wrong == {day \in 0..(stop - 1) : verdict[day] # "none"}
    IN IF wrong # {} THEN Failed(verdict[Min(wrong)])
       ELSE [bad |-> "none", pred |-> Before(chain, stop), proofs |-> With(proofs, Digests({chain}, stop))]
verify_chain(data, proofs, chain, stop) ==
    IF ~load("frozen")
    THEN Failed(IF "frozen" \in catalog.regs THEN "registration_drift" ELSE "registration_missing")
    ELSE IF NeedsData(chain) /\ data = None THEN Failed("data_refused")
    ELSE IF \/ \E day \in 0..(stop - 1) : Stored(chain, day) = {}
            \/ stop = EndDay /\ Len(catalog.rows[chain]) # EndDay
    THEN Failed("chain_incomplete")
    ELSE Judged([day \in 0..(stop - 1) |-> VerifyDay(DataFor(chain, data), proofs, chain, day)],
                proofs, chain, stop)

\* The admission trigger: the body is the one proved, and it follows the
\* stored day before it.
admit_checkpoint(b) ==
    IF b.day = 0 THEN b.pred = <<>>
    ELSE \E c \in Stored(b.chain, b.day - 1) : Digest(c) = b.pred

\* One write transaction: conflict, refused by the trigger, stored, or held.
WriteOutcome(b) ==
    IF \E c \in Stored(b.chain, b.day) : c # b THEN "checkpoint_retry_conflict"
    ELSE IF ~admit_checkpoint(b) THEN "checkpoint_admission"
    ELSE "none"
_write_replayed(b) ==
    catalog' = IF Stored(b.chain, b.day) # {} THEN catalog
               ELSE [catalog EXCEPT !.rows[b.chain] = Append(@, b)]

-----------------------------------------------------------------------------
(* run: a window of days of one chain, a transaction per day.              *)

Batch(p) == Batches[proc[p].batch]
\* The strategies of a batch take turns until all have reached the end.
Open(p) == {i \in DOMAIN Batch(p) : proc[p].cursors[Batch(p)[i]] < EndDay}
NextTurn(p) == LET rest == {i \in Open(p) : i >= proc[p].turn}
               IN IF rest = {} THEN Min(Open(p)) ELSE Min(rest)

Data(p) == IF proc[p].data # None THEN proc[p].data ELSE Loaded(DataFile)
MarkReads(p, chain) ==
    reads' = IF NeedsData(chain) /\ proc[p].data = None /\ metadata(DataFile)
             THEN reads \cup {Period[c.request] : c \in load_development(DataFile)} ELSE reads

\* The window starts with what the verification v of the prefix found.
StartOn(v, p, chain, start, until) ==
    IF v.bad # "none" THEN Refuse(p, v.bad)
    ELSE /\ Become(p, [proc[p] EXCEPT !.pc = "run", !.chain = chain, !.day = start,
                         !.until = until, !.pred = v.pred, !.proofs = v.proofs,
                         !.turn = IF kind = "worker" THEN NextTurn(p) ELSE @,
                         !.data = IF NeedsData(chain) THEN Data(p) ELSE @])
         /\ UNCHANGED refused
RunStart(p, chain, start, until) ==
    /\ MarkReads(p, chain)
    /\ StartOn(verify_chain(Data(p), proc[p].proofs, chain, start), p, chain, start, until)

\* Back in run_group the strategy's cursor moves; the command ends.
Returned(p, until) ==
    IF kind = "worker"
    THEN [proc[p] EXCEPT !.pc = "turn", !.turn = @ + 1, !.chain = <<>>, !.day = 0, !.until = 0,
                         !.pred = <<>>, !.cursors[proc[p].chain[1]] = until]
    ELSE Idle

RunDay(p) ==
    LET chain == proc[p].chain
        b == replay_checkpoint(DataFor(chain, proc[p].data), chain, proc[p].day, proc[p].pred)
        next == [proc[p] EXCEPT !.day = @ + 1, !.pred = Digest(b),
                                !.proofs = With(@, [k \in {<<chain, b.day>>} |-> Digest(b)])]
    IN /\ Is(p, "run")
       /\ IF WriteOutcome(b) # "none" THEN Refuse(p, WriteOutcome(b)) /\ UNCHANGED catalog
          ELSE /\ _write_replayed(b)
               /\ Become(p, IF next.day < next.until THEN next
                            ELSE [Returned(p, next.until) EXCEPT
                                    !.proofs = IF kind = "worker" THEN next.proofs ELSE @])
               /\ UNCHANGED refused
       /\ UNCHANGED <<kind, sources, store, frozen, transfer, files, reads, harm, faults>>

-----------------------------------------------------------------------------
(* The worker: run_group.                                                  *)

WorkerOpen(p) ==
    /\ Is(p, "idle") /\ kind = "worker"
    /\ IF frozen = NotFrozen \/ ~verify_projection
       THEN Refuse(p, "projection_mismatch") /\ UNCHANGED catalog
       ELSE /\ register
            /\ IF sources # "frozen" THEN Refuse(p, "worker_registration_mismatch")
               ELSE Become(p, [Idle EXCEPT !.pc = "begin"]) /\ UNCHANGED refused
    /\ UNCHANGED <<kind, sources, store, frozen, transfer, files, reads, harm, faults>>

\* Mutant of Cursor: the last day of any instrument.
Cursor_AnyPair(chain) ==
    Max({0} \cup UNION {{b.day + 1 : b \in Range(catalog.rows[c])} : c \in {chain[1]} \X Range(Pairs)})

\* Where each strategy of the batch resumes on the pair: after its last day.
Cursor(chain) ==
    Max({0} \cup {b.day + 1 : b \in Range(catalog.rows[chain])})

AtPair(q) ==
    [q EXCEPT !.pc = "turn", !.turn = 1, !.cursors =
       [s \in Range(Batches[q.batch]) |-> Cursor(<<s, Pairs[q.pair]>>)]]
WorkerBegin(p) ==
    /\ Is(p, "begin") /\ Become(p, AtPair(proc[p]))
    /\ UNCHANGED <<kind, sources, store, frozen, transfer, catalog, files, reads, refused, harm, faults>>

WorkerRun(p) ==
    /\ Is(p, "turn") /\ Open(p) # {}
    /\ LET s == Batch(p)[NextTurn(p)]
           day == proc[p].cursors[s]
       IN RunStart(p, <<s, Pairs[proc[p].pair]>>, day, Min({day + BatchDays, EndDay}))
    /\ UNCHANGED <<kind, sources, store, frozen, transfer, catalog, files, harm, faults>>

WorkerPairDone(p) ==
    /\ Is(p, "turn") /\ Open(p) = {}
    /\ Become(p, IF proc[p].pair < Len(Pairs)
                 THEN AtPair([proc[p] EXCEPT !.pair = @ + 1])
                 ELSE [proc[p] EXCEPT !.pc = "export", !.turn = 1, !.cursors = <<>>])
    /\ UNCHANGED <<kind, sources, store, frozen, transfer, catalog, files, reads, refused, harm, faults>>

-----------------------------------------------------------------------------
(* Reports: every chain a report needs is verified to the end before the   *)
(* first one is published.                                                 *)

\* A report names the terminal checkpoint of every chain it is drawn from.
Bound(keys, terminal) ==
    [j \in DOMAIN keys |-> [key |-> keys[j],
       bindings |-> [pair \in Range(Population(keys[j][2])) |-> terminal[pair]]]]
\* One verification after another, up to the first that fails: what they found,
\* and what they come to together.
Together(verified, p, source, pairs) ==
    LET wrong == {i \in DOMAIN pairs : verified[pairs[i]].bad # "none"}
    IN IF wrong # {} THEN [bad |-> verified[pairs[Min(wrong)]].bad, terminal |-> <<>>, proofs |-> <<>>]
       ELSE [bad |-> "none", terminal |-> [pair \in Range(pairs) |-> verified[pair].pred],
             proofs |-> With(proc[p].proofs, Digests({source} \X Range(pairs), EndDay))]
_verified_reports(p, source, pairs) ==
    Together([pair \in Range(pairs) |-> verify_chain(Data(p), proc[p].proofs, <<source, pair>>, EndDay)],
             p, source, pairs)

\* What is to be published, with what the verifications v found.
ExportOn(v, p, source, keys, then) ==
    IF v.bad # "none" THEN Refuse(p, v.bad)
    ELSE /\ Become(p, [proc[p] EXCEPT !.pc = then, !.todo = Bound(keys, v.terminal), !.proofs = v.proofs,
                         !.data = IF NeedsData(<<source>>) THEN Data(p) ELSE @])
         /\ UNCHANGED refused
Export(p, source, pairs, keys, then) ==
    /\ MarkReads(p, <<source, pairs[1]>>)
    /\ ExportOn(_verified_reports(p, source, pairs), p, source, keys, then)
    /\ UNCHANGED <<kind, sources, store, frozen, transfer, catalog, files, harm, faults>>

export_population(p) ==
    /\ Is(p, "export") /\ proc[p].todo = <<>>
    /\ LET s == Batch(p)[proc[p].turn] IN Export(p, s, Pairs, Requested(s), "publish")

\* One form of a report.
File(report, suffix) == [key |-> report.key, bindings |-> report.bindings, suffix |-> suffix]

\* Mutant of _publish_report: a report whose first form is linked already
\* counts as published.
_publish_report_SkipsLinked(p) ==
    /\ Is(p, "publish") /\ proc[p].todo # <<>>
    /\ LET report == Head(proc[p].todo)
       IN \/ /\ files' = IF File(report, "json") \in files THEN files
                          ELSE files \cup {File(report, "json"), File(report, "txt")}
             /\ Become(p, [proc[p] EXCEPT !.todo = Tail(@), !.published = @ \cup {report}])
             /\ UNCHANGED <<harm, faults>>
          \/ /\ files' = files \cup {File(report, "json")}
             /\ Become(p, Idle) /\ Fault({})
    /\ UNCHANGED <<kind, sources, store, frozen, transfer, catalog, reads, refused>>

\* A file is linked under its own digest once its text is on disk, so it is
\* published whole or not at all, and again without effect.  The two forms of
\* a report are linked one after the other; the process may die in between.
_publish_report(p) ==
    /\ Is(p, "publish") /\ proc[p].todo # <<>>
    /\ LET report == Head(proc[p].todo)
       IN \/ /\ files' = files \cup {File(report, "json"), File(report, "txt")}
             /\ Become(p, [proc[p] EXCEPT !.todo = Tail(@), !.published = @ \cup {report}])
             /\ UNCHANGED <<harm, faults>>
          \/ /\ files' = files \cup {File(report, "json")}
             /\ Become(p, Idle) /\ Fault({})
    /\ UNCHANGED <<kind, sources, store, frozen, transfer, catalog, reads, refused>>

\* The mark names the reports it completes; another text under its name is
\* refused.
Mark(p) ==
    [key |-> <<Batch(p)[proc[p].turn], "completed", NoBaseline>>, suffix |-> "json",
     reports |-> proc[p].published]

MarkCompleted(p) ==
    /\ Is(p, "publish") /\ proc[p].todo = <<>> /\ kind = "worker"
    /\ IF Cardinality(proc[p].published) # Cardinality(Views(Mark(p).key[1]))
       THEN Refuse(p, "worker_report_population_incomplete") /\ UNCHANGED files
       ELSE IF \E f \in files : f.key = Mark(p).key /\ f # Mark(p)
       THEN Refuse(p, "immutable_report_conflict") /\ UNCHANGED files
       ELSE /\ files' = files \cup {Mark(p)}
            /\ UNCHANGED refused
            /\ LET q == [proc[p] EXCEPT !.published = {}]
               IN Become(p, IF q.turn < Len(Batch(p))
                            THEN [q EXCEPT !.pc = "export", !.turn = @ + 1]
                            ELSE IF q.batch < Len(Batches)
                            THEN [q EXCEPT !.pc = "begin", !.batch = @ + 1, !.pair = 1]
                            ELSE Idle)
    /\ UNCHANGED <<kind, sources, store, frozen, transfer, catalog, reads, harm, faults>>

Worker(p) == \/ WorkerOpen(p) \/ WorkerBegin(p) \/ WorkerRun(p) \/ WorkerPairDone(p)
             \/ RunDay(p) \/ export_population(p) \/ _publish_report(p) \/ MarkCompleted(p)

-----------------------------------------------------------------------------
(* The owner's own catalog: the commands of validation_batch and the       *)
(* catalog's checkpoint method.                                            *)

ManualRegister ==
    /\ kind = "manual" /\ frozen # NotFrozen /\ sources \notin catalog.regs
    /\ register
    /\ UNCHANGED <<kind, sources, store, frozen, transfer, files, proc, reads, refused, harm, faults>>

ManualRun(p) ==
    /\ Is(p, "idle") /\ kind = "manual" /\ frozen # NotFrozen
    /\ \E chain \in Mine \X Range(Pairs), start \in 0..(EndDay - 1), days \in 1..BatchDays :
         start + days <= EndDay /\ RunStart(p, chain, start, start + days)
    /\ UNCHANGED <<kind, sources, store, frozen, transfer, catalog, files, harm, faults>>

ManualReport(p) ==
    /\ Is(p, "idle") /\ kind = "manual" /\ frozen # NotFrozen
    /\ Cardinality(files) < MaxFiles
    /\ \E s \in Mine : \E k \in Views(s) : Export(p, s, Population(k[2]), <<k>>, "publish")

ManualDone(p) ==
    /\ Is(p, "publish") /\ proc[p].todo = <<>> /\ kind = "manual"
    /\ Become(p, Idle)
    /\ UNCHANGED <<kind, sources, store, frozen, transfer, catalog, files, reads, refused, harm, faults>>

Forged(b) ==
    Body(b.chain, b.day, [b.rows EXCEPT !.forged = TRUE], b.end, b.pred)

\* Rows supplied from outside are stored only if the replay derives them.
checkpoint(chain, day, forged) ==
    LET data == Loaded(DataFile)
        v == verify_chain(data, <<>>, chain, day)
        expected == replay_checkpoint(DataFor(chain, data), chain, day, v.pred)
        b == IF forged THEN Forged(expected) ELSE expected
    IN /\ v.bad = "none" /\ b = expected
       /\ WriteOutcome(b) = "none"
       /\ _write_replayed(b)

Submit ==
    /\ kind = "manual" /\ frozen # NotFrozen
    /\ \E chain \in Mine \X Range(Pairs), day \in 0..(EndDay - 1), forged \in BOOLEAN :
         Stored(chain, day) = {} /\ checkpoint(chain, day, forged)
    /\ UNCHANGED <<kind, sources, store, frozen, transfer, files, proc, reads, refused, harm, faults>>

-----------------------------------------------------------------------------
(* What may go wrong around the processes.                                 *)

Crash(p) ==
    /\ ~Is(p, "idle") /\ Fault({})
    /\ Become(p, Idle)
    /\ UNCHANGED <<kind, sources, store, frozen, transfer, catalog, files, reads, refused>>

LoseStore ==
    /\ store.chunks # {} /\ Quiet /\ Fault({"store"})
    /\ store' = [regs |-> {}, chunks |-> {}, era |-> store.era + 1]
    /\ UNCHANGED <<kind, sources, frozen, transfer, catalog, files, proc, reads, refused>>

Spoil(f, c) == [f EXCEPT !.chunks = (@ \ {c}) \cup {[c EXCEPT !.blob = IF @ = 1 THEN 2 ELSE 1]}]
AlterBlob ==
    /\ Quiet /\ Fault({"store"})
    /\ \/ \E c \in store.chunks : store' = Spoil(store, c) /\ UNCHANGED transfer
       \/ /\ transfer.state = "complete"
          /\ \E c \in transfer.file.chunks : transfer' = [transfer EXCEPT !.file = Spoil(@, c)]
          /\ UNCHANGED store
    /\ UNCHANGED <<kind, sources, frozen, catalog, files, proc, reads, refused>>

AlterCatalog ==
    /\ Quiet /\ Fault({"catalog"})
    /\ \E chain \in Chains : \E i \in DOMAIN catalog.rows[chain] :
         \/ catalog' = [catalog EXCEPT !.rows[chain][i] = Forged(@)]
         \/ catalog' = [catalog EXCEPT !.rows[chain] = RemoveAt(@, i)]
    /\ UNCHANGED <<kind, sources, store, frozen, transfer, files, proc, reads, refused>>

EditSources ==
    /\ sources = "frozen" /\ Fault({"sources"}) /\ sources' = "edited"
    /\ UNCHANGED <<kind, store, frozen, transfer, catalog, files, proc, reads, refused>>

RestoreSources ==
    /\ sources = "edited" /\ sources' = "frozen"
    /\ UNCHANGED <<kind, store, frozen, transfer, catalog, files, proc, reads, refused, harm, faults>>

-----------------------------------------------------------------------------
\* A cache with the first n chunks of the predecessor's plan; a complete one.
Resumed(n) ==
    [era |-> 0, regs |-> IF n = 0 THEN {} ELSE {predecessor_plan},
     chunks |-> {[request |-> Requests[i], reg |-> predecessor_plan, content |-> 1,
                  blob |-> 1, era |-> 0] : i \in 1..n}]
Complete(content) ==
    [era |-> 0, regs |-> {"frozen"},
     chunks |-> {[request |-> r, reg |-> "frozen", era |-> 0,
                  content |-> IF Period[r] = "development" THEN content ELSE 1,
                  blob |-> IF Period[r] = "development" THEN content ELSE 1] : r \in Range(Requests)}]

\* The catalogs are followed from a cache that was acquired, frozen and
\* projected; the acquisition from any cache of the version before.
Init ==
    /\ kind \in {"acquisition", "worker", "manual"}
    /\ sources = "frozen"
    /\ IF kind = "acquisition"
       THEN \E n \in 0..Len(Requests) - 1 :
              /\ store = Resumed(n) /\ frozen = NotFrozen
              /\ transfer = [state |-> "none", file |-> NoFile, binding |-> NoFile]
       ELSE \E content \in Acquired[kind] :
              /\ store = Complete(content) /\ frozen = Manifest(Complete(content))
              /\ transfer = [state |-> "complete", file |-> Projected(Complete(content)),
                             binding |-> Projected(Complete(content))]
    /\ catalog = [regs |-> {}, rows |-> [c \in Chains |-> <<>>]]
    /\ files = {} /\ proc = [p \in Procs |-> Idle]
    /\ reads = {} /\ refused = {} /\ harm = {} /\ faults = 0

Next ==
    \/ \E p \in Procs :
         \/ AcquireOpen(p) \/ AcquireFetch(p) \/ AcquireInsert(p)
         \/ ProjectOpen(p) \/ ProjectCopy(p) \/ Worker(p)
         \/ ManualRun(p) \/ ManualReport(p) \/ ManualDone(p) \/ Crash(p)
    \/ Freeze \/ RemovePartial \/ ManualRegister \/ Submit
    \/ LoseStore \/ AlterBlob \/ AlterCatalog \/ EditSources \/ RestoreSources

Spec == Init /\ [][Next]_vars

-----------------------------------------------------------------------------
(* Properties.                                                             *)

Untouched == "catalog" \notin harm

\* The catalog holds one row per chain and day, a running window stays within
\* the period, and a worker's proofs are those of the prefix it stands on
\* (the primary keys and checks of Catalog.__init__).
TypeOK ==
    /\ kind \in {"acquisition", "worker", "manual"} /\ sources \in {"frozen", "edited"}
    /\ store.regs \subseteq {"v2", "frozen", "edited"}
    /\ \A c \in store.chunks : c.request \in Range(Requests) /\ c.blob \in Contents \cup {1, 2}
    /\ transfer.state \in {"none", "partial", "complete"}
    /\ catalog.regs \subseteq {"frozen", "edited"}
    /\ \A chain \in Chains : \A i, j \in DOMAIN catalog.rows[chain] :
         catalog.rows[chain][i].day = catalog.rows[chain][j].day => i = j
    /\ \A p \in Procs : proc[p].pc = "run" =>
         /\ proc[p].day < proc[p].until /\ proc[p].until <= EndDay
         /\ proc[p].day > 0 => proc[p].proofs[<<proc[p].chain, proc[p].day - 1>>] = proc[p].pred
    /\ faults \in 0..Faults

\* A chunk is never acquired twice, although the plan's name changed between
\* two versions of the code and a run may have died after any chunk
\* (validation_acquisition.Store).
OneChunkPerRequest ==
    \A c, d \in store.chunks : c.request = d.request => c = d

\* No candle of the sealed periods is ever read, and none is in the file the
\* workers receive, whatever was lost or acquired again
\* (validation_data._verified_blob, validation_worker.project_development).
SealedStaysSealed ==
    /\ "sealed" \notin reads
    /\ transfer.state = "complete" =>
         \A c \in transfer.binding.chunks : Period[c.request] = "sealed" => c.blob = None

\* The reference: the digests and the rows of a chain in one pass over it.
DigestsOf(c, chain) ==
    LET digest[n \in 0..EndDay] ==
          IF n = 0 THEN <<>>
          ELSE Digest(replay_checkpoint(DataFor(chain, c), chain, n - 1, digest[n - 1]))
    IN digest
FromStart == [c \in Contents |-> [chain \in Chains |-> DigestsOf(c, chain)[EndDay]]]
DaysMakeThePeriod ==
    \A c \in Contents, chain \in Chains :
      FlattenSeq([i \in 1..EndDay |-> Rows(chain, i - 1, FromStart[c][chain][i].rows)])
        = WholePeriod(Market[c], chain)
Expected ==
    [c \in Contents |-> [k \in Keys |->
       [pair \in Range(Population(k[2])) |-> FromStart[c][<<Source(k), pair>>]]]]
FrozenContent == (CHOOSE c \in frozen : Period[c.request] = "development").content

\* What is published was computed from the frozen candles as if in one pass
\* over the whole period: the days, windows, turns, deaths and processes
\* between which the work was divided leave no trace, and neither does an
\* altered checkpoint (validation_reports._verified_reports).
PublishedMatches ==
    \A f \in files : f.key[2] # "completed" => f.bindings = Expected[FrozenContent][f.key]
PublishedIsExpected == DaysMakeThePeriod /\ PublishedMatches

\* The reconciliation, which replays occupancy from the stored rows alone,
\* accepts every catalog that was not altered: each chain is found in order
\* of its rowids with its end states (validation_reconciliation_checkpoints).
scan(bodies) ==
    FoldLeft(LAMBDA at, b :
               LET d == ScanDay(Rows(b.chain, b.day, b.rows), at.active)
               IN [ok |-> /\ at.ok /\ b.day = at.day /\ b.pred = at.sha
                          /\ d.ok /\ d.active = b.end,
                   day |-> at.day + 1, sha |-> Digest(b), active |-> d.active],
             [ok |-> TRUE, day |-> 0, sha |-> <<>>, active |-> NoneActive], bodies)
ScanAccepts == Untouched => \A chain \in Chains : scan(catalog.rows[chain]).ok

\* In one scenario of a chain no position is opened before the previous one
\* was closed, across checkpoints too, and none outlives the period
\* (validation_batch.day_rows).
KeepApart(chain, bodies) ==
    \A sc \in Scenarios :
      LET trades == UNION {{r.scenarios[sc] : r \in Range(Rows(chain, b.day, b.rows))} : b \in Range(bodies)}
          modeled == {t \in trades : t.state = "modeled"}
      IN /\ \A t \in modeled : t.exited <= End
         /\ \A t, u \in modeled : t.entered < u.entered => t.exited <= u.entered
TradesNeverOverlap == Untouched => \A chain \in Chains : KeepApart(chain, catalog.rows[chain])

\* A strategy is marked complete only when every report of it is published in
\* both forms, one per key, and the reconciliation accepts their counts and
\* their aggregates (validation_worker.run_group, validation_reconciliation).
read_reports(s) == LET views == Views(s) IN {f \in files : f.suffix = "json" /\ f.key \in views}
MarkedIsComplete ==
    \A m \in {f \in files : f.key[2] = "completed"} :
      LET s == m.key[1]
          reports == read_reports(s)
      IN /\ \A k \in Views(s) : Cardinality({f \in reports : f.key = k}) = 1
         /\ \A r \in m.reports : {File(r, "json"), File(r, "txt")} \subseteq files
         /\ Reconciled[FrozenContent][s]

\* Of the candles alone: any first days of a chain are accepted and keep their
\* trades apart, and the reports of one pass reconcile with its rows.
FirstDays(c, chain, n) ==
    [i \in 1..n |-> replay_checkpoint(DataFor(chain, c), chain, i - 1, DigestsOf(c, chain)[i - 1])]
Reconciles(chain, bodies) == scan(bodies).ok /\ KeepApart(chain, bodies)
EvidenceReconciles ==
    \A c \in Contents :
      /\ \A chain \in Chains, n \in 0..EndDay :
           Reconciles(chain, FirstDays(c, chain, n))
      /\ \A s \in Strategies : Reconciled[c][s]

\* A process gives up on a file only for something that was done to the
\* files: after any deaths, with two workers at once, a new process resumes
\* where the catalog ends and finds its own evidence acceptable.
Causes ==
    [registration_drift |-> {"sources"}, worker_registration_mismatch |-> {"sources"},
     acquisition_registration_drift |-> {"sources"}, acquisition_lineage_corrupt |-> {},
     acquisition_chunk_corrupt |-> {"store"}, data_refused |-> {"store", "sources"},
     projection_refused |-> {"store", "sources"}, checkpoint_ancestry |-> {"catalog"},
     checkpoint_replay_mismatch |-> {"catalog"}, checkpoint_retry_conflict |-> {"catalog"},
     checkpoint_admission |-> {"catalog"}, chain_incomplete |-> {"catalog"},
     worker_report_population_incomplete |-> {}, immutable_report_conflict |-> {}]
RefusalsAreExplained == \A r \in refused : Causes[r] \cap harm # {}

\* What is published is the replay of the frozen candles alone: nothing is
\* acquired twice, sealed periods stay sealed, and the division of the work
\* leaves no trace.
PublishedIsReplayed ==
    /\ TypeOK
    /\ OneChunkPerRequest
    /\ SealedStaysSealed
    /\ PublishedIsExpected
    /\ ForecastsAreCarried

\* Completion stands up to the reconciliation, which replays occupancy from
\* the stored rows alone: the chains are accepted, the trades of a chain do
\* not overlap and the marked reports are complete and agree.
CompletedReconciles ==
    /\ EvidenceReconciles
    /\ ScanAccepts
    /\ TradesNeverOverlap
    /\ MarkedIsComplete
=============================================================================
