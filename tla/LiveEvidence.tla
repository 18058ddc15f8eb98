---------------------------- MODULE LiveEvidence ----------------------------
(***************************************************************************)
(* Live candles and what is computed from them: the observation ledger     *)
(* (market/services.py under migrations 0028 and 0029), the market-state   *)
(* snapshots (market/state under 0032-0036) and the strategy records       *)
(* (market/strategy/persistence.py under 0038-0041), of one instrument.    *)
(*                                                                         *)
(* A candle row freezes the first content seen of an interval; every later *)
(* change of a source's view is appended to the candle's one chain of      *)
(* observations.  An ingestion is one transaction: it takes the advisory   *)
(* lock of the series, plans against the rows it locked, then inserts past *)
(* triggers that recompute what Python claimed.  A snapshot takes the      *)
(* locks of all the series it reads, in order, and freezes the revisions   *)
(* known by its cutoff.  Evidence elsewhere may cite a candle at any time  *)
(* its row is not locked; research records are stored without any lock;    *)
(* the wall clock may be corrected backwards.                              *)
(*                                                                         *)
(* A transaction that rolls back leaves nothing, so a worker that dies is  *)
(* one that takes no more steps, and a transaction that still waits for    *)
(* its first lock is one that has not begun.                               *)
(*                                                                         *)
(* Interval k of a series is complete at time k.  Hashes are equality with *)
(* what they digest; prices are the values of Contents.                    *)
(***************************************************************************)
EXTENDS Naturals, SequencesExt, FiniteSetsExt, Functions

CONSTANTS
  Workers,       \* processes that ingest, compute snapshots or simulate
  Series,        \* the series of the instrument, in lock order
  Base,          \* the series every snapshot reads (M15, D and W)
  Length,        \* number of intervals of each series
  Legacy,        \* intervals with a row from before the ledger
  Providers,     \* sources of observed candles
  Contents,      \* what a candle may say
  RefKinds,      \* the relations by which other evidence cites a candle
  Mirrored,      \* those the trigger's copy of candle_is_referenced lists
  Lookback,      \* number of intervals of a series a snapshot reads
  Research,      \* research records
  Offers,        \* the batches the sources may deliver
  Holdout,       \* when the holdout period begins
  MaxTime,       \* bound: the clock
  MaxBack,       \* bound: corrections of the clock
  Budget         \* bound: ingestions, snapshots, citations, corrections and
                 \* research records together

Fixture == "Development fixtures"
Sources == Providers \cup {Fixture}
Intervals == {i \in Range(Series) \X (1..MaxTime) : i[2] <= Length[i[1]]}
Of(s) == {i \in Intervals : i[1] = s}
End(i) == i[2]
Times == 0..MaxTime
LastOf(S) == IF S = {} THEN 0 ELSE Max(S)

VARIABLES
  clock,     \* the wall clock
  back,      \* how often it was corrected
  candle,    \* the candle row of each interval
  obs,       \* the observations of each candle
  cites,     \* the citations of each candle by evidence outside the market app
  runs,      \* the ingestion runs, in commit order
  tech,      \* the technical snapshots
  research,  \* when each stored research record was fetched, 0 if it is not stored
  snaps,     \* the market-state snapshots
  registered,\* when the strategy definition was registered, or 0
  evals,     \* its evaluations: each a chain of snapshots, the oldest first
  sims,      \* its simulations
  worker,    \* what each worker is doing
  refused    \* ghost: why writes were refused

ledger == <<candle, obs, runs, tech>>
strategy == <<registered, evals, sims>>
vars == <<clock, back, candle, obs, cites, runs, tech, research, snaps, registered,
          evals, sims, worker, refused>>

NoRow == [content |-> "", attested |-> FALSE, source |-> "", provenance |-> ""]
LegacyRow == [content |-> CHOOSE c \in Contents : TRUE, attested |-> FALSE,
              source |-> CHOOSE p \in Providers : TRUE, provenance |-> "legacy"]
Stored(i) == candle[i] # NoRow

Kinds == {"initial", "late_arrival", "revision", "conflict"}
Observation == [revision : Nat, supersedes : Nat, source : Providers, content : Contents,
                kind : Kinds, observed : Times, recorded : Nat]
Snapshot == [cutoff : Times, scope : SUBSET Range(Series),
             manifest : SUBSET (Intervals \X Nat), evidence : SUBSET Research]

\* The batches as a run records them.
Batches == {[source |-> o.source, batch |-> o.batch] : o \in Offers}

Idle == [pc |-> "idle"]

TypeOK ==
  /\ clock \in Times /\ back \in 0..MaxBack
  /\ DOMAIN candle = Intervals /\ DOMAIN obs = Intervals
  /\ \A i \in Intervals : obs[i] \subseteq Observation
  /\ cites \in [Intervals -> SUBSET RefKinds]
  /\ runs \in Seq(Batches)
  /\ snaps \subseteq Snapshot
  /\ registered \in Times
  /\ \A e \in evals : e # <<>> /\ Range(e) \subseteq snaps
  /\ sims \subseteq [decision : snaps, outcome : snaps]
  /\ DOMAIN worker = Workers
  /\ refused \subseteq {"protected", "root", "chronology", "chain", "kind", "mirror",
                        "manifest", "attempt"}

Busy == {w \in Workers : worker[w].pc \in {"planned", "locking", "built"}}
Spent ==
  Len(runs) + Cardinality(snaps) + Cardinality(Busy) + back
    + Cardinality({r \in Research : research[r] # 0})
    + SumFunction([i \in Intervals |-> Cardinality(cites[i])])

Init ==
  /\ clock = 1 /\ back = 0
  /\ candle = [i \in Intervals |-> IF i \in Legacy THEN LegacyRow ELSE NoRow]
  /\ obs = [i \in Intervals |-> {}]
  /\ cites = [i \in Intervals |-> {}]
  /\ runs = <<>>
  /\ tech = {}
  /\ research = [r \in Research |-> 0]
  /\ snaps = {}
  /\ registered = 0 /\ evals = {} /\ sims = {}
  /\ worker = [w \in Workers |-> Idle]
  /\ refused = {}

ASSUME LiveAssumption ==
  /\ Series \in Seq(Range(Series)) /\ IsInjective(Series) /\ Base \subseteq Range(Series)
  /\ Length \in [Range(Series) -> Nat] /\ MaxTime \in Nat \ {0} /\ MaxBack \in Nat
  /\ Legacy \subseteq {i \in Intervals : End(i) <= 1}
  /\ Mirrored \subseteq RefKinds
  /\ \A o \in Offers :
       /\ o.source \in Sources /\ o.series \in Range(Series)
       /\ DOMAIN o.batch \subseteq Of(o.series) /\ Range(o.batch) \subseteq Contents
  /\ Providers # {} /\ Contents # {} /\ Fixture \notin Providers

-----------------------------------------------------------------------------
\* Advisory locks of series and row locks of candles, held to the end of the
\* transaction.

Holds(w) == IF worker[w].pc = "idle" THEN {} ELSE worker[w].locks
RowLocks(w) == IF worker[w].pc = "planned" THEN worker[w].rows ELSE {}
FreeFor(w, s) == \A v \in Workers \ {w} : s \notin Holds(v)
RowFree(i) == \A v \in Workers : i \notin RowLocks(v)

\* Evidence outside the market app cites a candle: the foreign key's share
\* lock waits for a transaction that locked the row.
Cite(i, k) ==
  /\ Stored(i) /\ RowFree(i) /\ k \notin cites[i]
  /\ Spent < Budget
  /\ cites' = [cites EXCEPT ![i] = @ \cup {k}]
  /\ UNCHANGED <<clock, back, ledger, research, snaps, strategy, worker, refused>>

\* candle_is_referenced, and its mirror in the database.
CandleIsReferenced(i) == cites[i] # {}
CandleIsReferencedSql(i) == cites[i] \cap Mirrored # {}

-----------------------------------------------------------------------------
\* Ingestion of a batch: some complete intervals of a series, with their contents.
\* o is the offer a worker works on: a source, a series and the batch.

\* The incomplete candles of a response are dropped by fetch_candles.
Complete(o) == \A i \in DOMAIN o.batch : End(i) <= clock

\* The rows of the series: fixtures give way to observed candles, and a batch
\* of fixtures is discarded once there are others.
FixtureRows(s) == {i \in Of(s) : candle[i].provenance = "fixture"}
DiscardFixtureBatch(source, s) ==
  source = Fixture /\ \E i \in Of(s) : Stored(i) /\ candle[i].source # source
Replaced(source, s) == IF source = Fixture THEN {} ELSE FixtureRows(s)
Remaining(source, s) == {i \in Of(s) : Stored(i)} \ Replaced(source, s)

\* The head of a candle's chain, over all sources, and a source's own view of
\* the candle: its last observation, or the frozen row.
Revisions(i) == {o.revision : o \in obs[i]}
ChainHead(i) == LastOf(Revisions(i))
Own(i, source) == {o \in obs[i] : o.source = source}
LatestOwn(i, source) ==
  CHOOSE o \in Own(i, source) : \A p \in Own(i, source) : o.revision >= p.revision
View(i, source) ==
  IF Own(i, source) = {} THEN candle[i].content ELSE LatestOwn(i, source).content

\* Mutant of MatchesCurrent: any earlier content of the source is a duplicate.
MatchesEarlier(i, source, content) ==
  View(i, source) = content \/ \E o \in Own(i, source) : o.content = content

MatchesCurrent(i, source, content) == View(i, source) = content

KindOfNew(i, remaining) ==
  IF i[2] < LastOf({j[2] : j \in remaining}) THEN "late_arrival" ELSE "initial"
KindOfChange(i, content) ==
  IF content # candle[i].content /\ CandleIsReferenced(i) THEN "conflict" ELSE "revision"

\* What _store_live_observations decides to do with a batch.
NewRows(o) ==
  IF DiscardFixtureBatch(o.source, o.series) THEN {}
  ELSE DOMAIN o.batch \ Remaining(o.source, o.series)
Changes(o) ==
  IF DiscardFixtureBatch(o.source, o.series) THEN {}
  ELSE {i \in DOMAIN o.batch \ NewRows(o) : ~MatchesCurrent(i, o.source, o.batch[i])}
PlannedNew(o, i, at) ==
  [revision |-> 1, supersedes |-> 0, source |-> o.source, content |-> o.batch[i],
   kind |-> KindOfNew(i, Remaining(o.source, o.series)), observed |-> at, recorded |-> 0]
PlannedChange(o, i, at) ==
  [revision |-> ChainHead(i) + 1, supersedes |-> ChainHead(i), source |-> o.source,
   content |-> o.batch[i], kind |-> KindOfChange(i, o.batch[i]), observed |-> at,
   recorded |-> 0]
ItemsOf(o, at) ==
  [i \in NewRows(o) \cup Changes(o) |->
     IF i \in NewRows(o) THEN PlannedNew(o, i, at) ELSE PlannedChange(o, i, at)]

\* The rows that are locked: those of the batch and those that give way.
LockedRows(o) ==
  (DOMAIN o.batch \cap Remaining(o.source, o.series)) \cup Replaced(o.source, o.series)
PlanOf(o, at) ==
  [pc |-> "planned", offer |-> o, locks |-> {o.series}, started |-> at,
   rows |-> LockedRows(o), gone |-> Replaced(o.source, o.series), new |-> NewRows(o),
   items |-> ItemsOf(o, at)]

Abandon(w, why) ==
  /\ worker' = [worker EXCEPT ![w] = Idle]
  /\ refused' = refused \cup why
  /\ UNCHANGED <<clock, back, ledger, cites, research, snaps, strategy>>

\* A cited fixture row cannot be deleted, and a chain is opened for a legacy
\* row only: the transaction rolls back.
PlanFails(o) ==
  IF \E i \in Replaced(o.source, o.series) : CandleIsReferenced(i) THEN {"protected"}
  ELSE IF \E i \in Changes(o) : obs[i] = {} /\ candle[i].attested THEN {"root"}
  ELSE {}

\* Mutant of SerializeLiveSeries: no lock.
Unserialized(w, s) == TRUE

\* store_ingestion opens the run; _serialize_live_series takes the lock.
SerializeLiveSeries(w, s) == FreeFor(w, s)

\* The first part of _store_live_observations: rows are locked, the time of
\* observation is taken and every item classified.
Plan(w, o) ==
  /\ worker[w].pc = "idle"
  /\ Spent < Budget
  /\ Complete(o)
  /\ SerializeLiveSeries(w, o.series)
  /\ IF PlanFails(o) # {} THEN Abandon(w, PlanFails(o))
     ELSE /\ worker' = [worker EXCEPT ![w] = PlanOf(o, clock)]
          /\ UNCHANGED <<clock, back, ledger, cites, research, snaps, strategy, refused>>

\* The trigger market_candleobservation_lineage_validate: chronology, ...
ChronologyHolds(o, w, i) ==
  o.observed >= worker[w].started /\ o.observed >= End(i) /\ o.observed <= clock
\* ... the kind it derives itself ...
DerivedKind(i, content) ==
  IF content # candle[i].content /\ CandleIsReferencedSql(i) THEN "conflict" ELSE "revision"
\* ... and the place in the chain.
ChainContinues(o, i) == o.revision = ChainHead(i) + 1 /\ o.supersedes = ChainHead(i)

\* Why it refuses a row: "mirror" when Python's rule, applied now, still gives
\* the kind that was planned, "kind" when the plan is out of date.
LineageFails(w, i) ==
  LET o == worker[w].items[i] IN
  IF ~ChronologyHolds(o, w, i) THEN {"chronology"}
  ELSE IF i \in worker[w].new
  THEN IF obs[i] # {} THEN {"chain"} ELSE {}
  ELSE IF o.kind # DerivedKind(i, o.content)
  THEN IF o.kind = KindOfChange(i, o.content) THEN {"mirror"} ELSE {"kind"}
  ELSE IF ~ChainContinues(o, i) THEN {"chain"} ELSE {}

\* Mutant of RecordedAt: the clock as it is.
RecordedNow == clock

\* market_observation_recording_boundary: known after every committed cutoff.
RecordedAt == Max({clock} \cup {n.cutoff + 1 : n \in snaps})

\* calculate_and_store_snapshot over the rows as they are now.
TechnicalSnapshot(rows, s) ==
  LET used == {i \in Of(s) : rows[i] # NoRow} IN
  [series |-> s, candles |-> {<<i, rows[i].content>> : i \in used},
   fixture |-> \E i \in used : rows[i].provenance = "fixture"]

\* The calculations over fixtures go with them.
KeptTechnical(gone, s) == {t \in tech : ~(gone # {} /\ t.fixture /\ t.series = s)}

\* Fixtures are not provider observations.
Observes(source) == source # Fixture

\* The rows and the observations the ingestion of plan p leaves; fixtures leave no
\* observation.
NewRow(o, i) ==
  [content |-> o.batch[i], attested |-> TRUE, source |-> o.source,
   provenance |-> IF o.source = Fixture THEN "fixture" ELSE "observed"]
RowsAfter(p) ==
  [i \in Intervals |-> IF i \in p.new THEN NewRow(p.offer, i)
                       ELSE IF i \in p.gone THEN NoRow ELSE candle[i]]
ObservationsAfter(p) ==
  [i \in Intervals |-> IF ~Observes(p.offer.source) \/ i \notin DOMAIN p.items THEN obs[i]
                       ELSE obs[i] \cup {[p.items[i] EXCEPT !.recorded = RecordedAt]}]
TechnicalAfter(p) ==
  LET s == p.offer.series
      kept == KeptTechnical(p.gone, s)
  IN IF \A i \in Of(s) : RowsAfter(p)[i] = NoRow THEN kept
     ELSE kept \cup {TechnicalSnapshot(RowsAfter(p), s)}

\* The rest of store_ingestion, to its commit.
Store(w) ==
  /\ worker[w].pc = "planned"
  /\ LET p == worker[w]
         fails == IF ~Observes(p.offer.source) THEN {}
                  ELSE UNION {LineageFails(w, i) : i \in DOMAIN p.items}
     IN IF fails # {} THEN Abandon(w, fails)
        ELSE /\ candle' = RowsAfter(p)
             /\ obs' = ObservationsAfter(p)
             /\ tech' = TechnicalAfter(p)
             /\ runs' = Append(runs, [source |-> p.offer.source, batch |-> p.offer.batch])
             /\ worker' = [worker EXCEPT ![w] = Idle]
             /\ UNCHANGED <<clock, back, cites, research, snaps, strategy, refused>>

-----------------------------------------------------------------------------
\* A research record is stored, without a lock, some time after it was fetched.
StoreResearch(r, fetched) ==
  /\ research[r] = 0 /\ fetched <= clock /\ Spent < Budget
  /\ research' = [research EXCEPT ![r] = fetched]
  /\ UNCHANGED <<clock, back, ledger, cites, snaps, strategy, worker, refused>>

\* freeze_research.
FreezeResearch(cutoff) == {r \in Research : research[r] \in 1..cutoff}

-----------------------------------------------------------------------------
\* Market-state snapshots.

\* eligible_observations: the most recent intervals known by the cutoff, each at
\* its highest revision known by then.
KnownBy(o, i, cutoff) ==
  End(i) <= cutoff /\ o.observed <= cutoff /\ o.recorded <= cutoff
EligibleRevisions(i, cutoff) == {o.revision : o \in {p \in obs[i] : KnownBy(p, i, cutoff)}}
EligibleIntervals(s, cutoff) ==
  LET known == {i \in Of(s) : EligibleRevisions(i, cutoff) # {}} IN
  {i \in known : Cardinality({j \in known : j[2] > i[2]}) < Lookback}
BuildInputManifest(scope, cutoff) ==
  UNION {{<<i, Max(EligibleRevisions(i, cutoff))>> : i \in EligibleIntervals(s, cutoff)} :
           s \in scope}

\* verify_snapshots: the manifest and the research cited are what the same
\* selection gives now.
CandlesReplay(n) == n.manifest = BuildInputManifest(n.scope, n.cutoff)
ResearchReplays(n) == n.evidence = FreezeResearch(n.cutoff)
VerifySnapshot(n) == CandlesReplay(n) /\ ResearchReplays(n)

\* The triggers of 0034-0036 on a snapshot: its cutoff has passed (the clock may
\* have been corrected since it was compared), no entry is obsolete and the
\* latest candle of every series is there.
CutoffPassed(n) == n.cutoff <= clock
ManifestAdmitted(n) ==
  /\ \A e \in n.manifest : e[2] = LastOf(EligibleRevisions(e[1], n.cutoff))
  /\ \A s \in n.scope : \A i \in EligibleIntervals(s, n.cutoff) :
       (\A j \in EligibleIntervals(s, n.cutoff) : j[2] <= i[2]) => \E e \in n.manifest : e[1] = i

\* compute_market_state: the locks of all the series it reads, in their order.
Locking(cutoff, scope, locks) ==
  [pc |-> "locking", cutoff |-> cutoff, scope |-> scope, locks |-> locks]
BeginState(w, cutoff, scope) ==
  /\ worker[w].pc = "idle"
  /\ Spent < Budget
  /\ worker' = [worker EXCEPT ![w] = Locking(cutoff, scope \cup Base, {})]
  /\ UNCHANGED <<clock, back, ledger, cites, research, snaps, strategy, refused>>

NextLocks(w) ==
  LET left == {n \in DOMAIN Series : Series[n] \in worker[w].scope \ worker[w].locks} IN
  IF left = {} THEN {} ELSE {Series[Min(left)]}

LockSeries(w, s) ==
  /\ worker[w].pc = "locking"
  /\ s \in NextLocks(w) /\ FreeFor(w, s)
  /\ LET p == worker[w] IN
     worker' = [worker EXCEPT ![w] = Locking(p.cutoff, p.scope, p.locks \cup {s})]
  /\ UNCHANGED <<clock, back, ledger, cites, research, snaps, strategy, refused>>

\* synchronize_inputs compares the cutoff with the clock after waiting;
\* build_market_state reads under the locks.
SnapshotOf(p) ==
  [cutoff |-> p.cutoff, scope |-> p.scope,
   manifest |-> BuildInputManifest(p.scope, p.cutoff), evidence |-> FreezeResearch(p.cutoff)]
Built(p) == [pc |-> "built", locks |-> p.locks, snapshot |-> SnapshotOf(p)]
ReadInputs(w) ==
  /\ worker[w].pc = "locking" /\ NextLocks(w) = {}
  /\ LET p == worker[w] IN
     worker' = [worker EXCEPT ![w] = IF p.cutoff > clock THEN Idle ELSE Built(p)]
  /\ UNCHANGED <<clock, back, ledger, cites, research, snaps, strategy, refused>>

\* persist_snapshot: an existing snapshot of this identity is returned, a new
\* one is verified and inserted.
PersistSnapshot(w) ==
  /\ worker[w].pc = "built"
  /\ LET n == worker[w].snapshot IN
     IF n \in snaps \/ ~VerifySnapshot(n)
     THEN Abandon(w, {})
     ELSE IF ~CutoffPassed(n) THEN Abandon(w, {"chronology"})
     ELSE IF ~ManifestAdmitted(n) THEN Abandon(w, {"manifest"})
     ELSE /\ snaps' = snaps \cup {n}
          /\ worker' = [worker EXCEPT ![w] = Idle]
          /\ UNCHANGED <<clock, back, ledger, cites, research, strategy, refused>>

-----------------------------------------------------------------------------
\* Strategy records.

\* The period a setup found in a snapshot belongs to: its latest interval.
HasSetup(n) == n.manifest # {}
Period(n) == Max({e[1][2] : e \in n.manifest})

\* load_snapshot and _verified_chain.
LoadSnapshot(n) == n \in snaps /\ VerifySnapshot(n)
VerifiedChain(e) == \A n \in Range(e) : LoadSnapshot(n)

\* phase5_evaluation_insert: the holdout is evaluated only by a definition
\* registered before it, and a chain moves forward.
HoldoutOpen(n, at) == n.cutoff < Holdout \/ at < Holdout
PreviousAttributed(n, previous) == previous # <<>> => Last(previous).cutoff < n.cutoff

\* calculate, with register: one transaction.
Calculate(n, previous) ==
  LET at == IF registered = 0 THEN clock ELSE registered
  IN /\ LoadSnapshot(n) /\ VerifiedChain(previous)
     /\ PreviousAttributed(n, previous) /\ HoldoutOpen(n, at)
     /\ Append(previous, n) \notin evals
     /\ registered' = at
     /\ evals' = evals \cup {Append(previous, n)}
     /\ UNCHANGED <<clock, back, ledger, cites, research, snaps, sims, worker, refused>>

\* The attempt a simulation uses up: definition, instrument and period.
AttemptKey(n) == Period(n)
AttemptFree(n) == \A m \in sims : AttemptKey(m.decision) # AttemptKey(n)

\* calculate_simulation, up to the look for earlier simulations of the attempt
\* under its lock, ...
Simulating(decision, outcome) ==
  [pc |-> "simulating", decision |-> decision, outcome |-> outcome, locks |-> {}]
LocksAttempt(v, key) ==
  worker[v].pc = "simulating" /\ AttemptKey(worker[v].decision) = key
BeginSimulation(w, e, o) ==
  /\ worker[w].pc = "idle"
  /\ HasSetup(Last(e))
  /\ VerifiedChain(e) /\ LoadSnapshot(o)
  /\ o.cutoff > Last(e).cutoff
  /\ \A v \in Workers : ~LocksAttempt(v, AttemptKey(Last(e)))
  /\ AttemptFree(Last(e))
  /\ worker' = [worker EXCEPT ![w] = Simulating(Last(e), o)]
  /\ UNCHANGED <<clock, back, ledger, cites, research, snaps, strategy, refused>>

\* ... and the insert; the key is unique.
InsertSimulation(w) ==
  /\ worker[w].pc = "simulating"
  /\ IF ~AttemptFree(worker[w].decision) THEN Abandon(w, {"attempt"})
     ELSE /\ sims' = sims \cup {[decision |-> worker[w].decision, outcome |-> worker[w].outcome]}
          /\ worker' = [worker EXCEPT ![w] = Idle]
          /\ UNCHANGED <<clock, back, ledger, cites, research, snaps, registered, evals,
                         refused>>

-----------------------------------------------------------------------------
\* The environment.

Tick ==
  /\ clock < MaxTime
  /\ clock' = clock + 1
  /\ UNCHANGED <<back, ledger, cites, research, snaps, strategy, worker, refused>>

Correct ==
  /\ back < MaxBack /\ clock > 1 /\ Spent < Budget
  /\ clock' = clock - 1 /\ back' = back + 1
  /\ UNCHANGED <<ledger, cites, research, snaps, strategy, worker, refused>>

Next ==
  \/ Tick
  \/ Correct
  \/ \E i \in Intervals, k \in RefKinds : Cite(i, k)
  \/ \E r \in Research, fetched \in 1..MaxTime : StoreResearch(r, fetched)
  \/ \E n \in snaps, previous \in evals \cup {<<>>} : Calculate(n, previous)
  \/ \E w \in Workers :
       \/ \E o \in Offers : Plan(w, o)
       \/ Store(w)
       \/ \E cutoff \in 1..MaxTime, scope \in SUBSET (Range(Series) \ Base) :
            BeginState(w, cutoff, scope)
       \/ \E s \in Range(Series) : LockSeries(w, s)
       \/ ReadInputs(w)
       \/ PersistSnapshot(w)
       \/ \E e \in evals, o \in snaps : BeginSimulation(w, e, o)
       \/ InsertSimulation(w)

Spec == Init /\ [][Next]_vars

-----------------------------------------------------------------------------
\* Properties.

\* The runs in which a provider delivered an interval.
Said(i, p) == {n \in DOMAIN runs : runs[n].source = p /\ i \in DOMAIN runs[n].batch}

\* The ledger shows of every provider what it said last: its view of a candle is
\* the content of its latest committed batch with that interval, also when it
\* returns to an earlier content and when another source's views lie between
\* (_store_live_observations, the comparison with the current view).
LatestIsShown ==
  \A i \in Intervals, p \in Providers :
    Said(i, p) # {} => View(i, p) = runs[Max(Said(i, p))].batch[i]

\* Fixtures and observed candles never stand side by side in a series, and no
\* technical calculation over fixtures outlives them.
FixturesNeverMix ==
  \A s \in Range(Series) :
    (\E i \in Of(s) : Stored(i) /\ candle[i].provenance # "fixture") =>
      /\ FixtureRows(s) = {}
      /\ \A t \in tech : t.series = s => ~t.fixture

\* A snapshot replays for ever: the same selection at its cutoff gives the
\* revisions it froze, whatever is ingested later and even if the clock is
\* corrected (recorded_at, the series locks, verify_snapshots).
SnapshotsReplay == \A n \in snaps : CandlesReplay(n)

\* The locks make Python's decisions stand: no trigger ever finds an observation
\* out of its chain or with a kind that was decided too early, a manifest that
\* is out of date, or an attempt that was simulated meanwhile.
BackstopsNeverFire == refused \subseteq {"protected", "root", "chronology", "mirror"}

\* Transactions never wait for each other in a circle.
WaitsFor(w) ==
  IF worker[w].pc = "locking" THEN NextLocks(w) ELSE {}
NoLockCycle ==
  \A W \in (SUBSET Workers) \ {{}} :
    \E w \in W : WaitsFor(w) = {} \/ \E s \in WaitsFor(w) : \A v \in W \ {w} : s \notin Holds(v)

\* Of all evaluations that see the same signal one is simulated, once, and the
\* outcome it is simulated against came later than the decision.
OneSimulationPerSignal ==
  \A m \in sims :
    /\ m.outcome.cutoff > m.decision.cutoff
    /\ \A k \in sims : Period(k.decision) = Period(m.decision) => k = m

\* The trigger's copy of candle_is_referenced agrees with the one in Python.
MirrorAgrees == "mirror" \notin refused

\* The ledger says of every candle what its providers said last and keeps
\* fixtures apart, whichever sources, backfills and reseeds meet in a series.
LedgerIsFaithful ==
  /\ TypeOK
  /\ LatestIsShown
  /\ FixturesNeverMix

\* The locks that the services take are enough and not too many: no trigger
\* undoes a decision of Python, no signal is simulated twice, and transactions
\* never wait for each other in a circle.
LocksSuffice ==
  /\ BackstopsNeverFire
  /\ NoLockCycle
  /\ OneSimulationPerSignal
=============================================================================
