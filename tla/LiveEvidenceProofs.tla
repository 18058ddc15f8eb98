-------------------------- MODULE LiveEvidenceProofs --------------------------
(* Theorems about LiveEvidence: the ledger of live candles, the snapshots     *)
(* that are computed from it and the locks both take, for any series,         *)
(* batches, providers and workers.  The argument has three parts: a worker's  *)
(* plan is what planning again would give for as long as it holds its series, *)
(* so a commit appends to each chain and shows what the batch said; a commit  *)
(* is recorded after every cutoff, so no selection changes; and locks are     *)
(* taken in one order.                                                        *)
EXTENDS LiveEvidence, Integers, FiniteSetTheorems, SequenceTheorems, TLAPS

-----------------------------------------------------------------------------
(* Least and greatest elements of sets of naturals.                           *)

(* A nonempty set of naturals has a least element: the numbers below all of   *)
(* it are an initial segment, and their count is that element.                *)
LEMMA LeastExists ==
  ASSUME NEW S, S \subseteq Nat, S # {}
  PROVE  \E m \in S : \A n \in S : m <= n
<1>1. PICK k \in S : TRUE
  OBVIOUS
<1>2. k \in Nat
  BY <1>1
<1> DEFINE below == {n \in 0 .. k : \A x \in S : n < x}
           d == Cardinality(below)
<1>3. IsFiniteSet(0 .. k)
  BY <1>2, FS_Interval
<1>4. IsFiniteSet(below) /\ d \in Nat
  BY <1>3, FS_Subset, FS_CardinalityType
<1>5. ASSUME NEW n \in below
      PROVE  n < d
  <2>1. n \in Nat /\ 0 .. n \subseteq below
    BY <1>2
  <2>2. Cardinality(0 .. n) = n + 1
    BY <2>1, FS_Interval
  <2>3. Cardinality(0 .. n) <= d
    BY <2>1, <1>4, FS_Subset
  <2> HIDE DEF d
  <2> QED  BY <2>1, <2>2, <2>3, <1>4
<1> DEFINE first == 0 .. (d - 1)
<1>6. IsFiniteSet(first) /\ Cardinality(first) = d
  <2> HIDE DEF d
  <2>1. 0 \in Int /\ d - 1 \in Int
    BY <1>4
  <2> QED  BY <2>1, <1>4, FS_Interval
<1>7. below \subseteq first
  <2> HIDE DEF d
  <2> QED  BY <1>4, <1>5, <1>2
<1>8. below = first
  BY <1>6, <1>7, FS_Subset
<1>9. \A x \in S : d <= x
  <2> SUFFICES ASSUME NEW x \in S PROVE d <= x
    OBVIOUS
  <2>1. CASE d = 0
    BY <2>1
  <2>2. CASE d # 0
    <3>1. d - 1 \in first
      <4> HIDE DEF d
      <4> QED  BY <2>2, <1>4
    <3>2. d - 1 < x /\ x \in Nat
      BY <3>1, <1>8
    <3> HIDE DEF d
    <3> QED  BY <3>2, <1>4
  <2> QED  BY <2>1, <2>2
<1>10. d \notin below
  BY <1>5, <1>4
<1>11. d <= k
  BY <1>9
<1>12. PICK x \in S : ~(d < x)
  BY <1>10, <1>11, <1>4, <1>2
<1>13. x = d
  <2> HIDE DEF d
  <2> QED  BY <1>12, <1>9, <1>4
<1> QED  BY <1>13, <1>9

(* Min and Max as FiniteSetsExt defines them.                                 *)
LEMMA MinIsLeast ==
  ASSUME NEW S, S \subseteq Nat, S # {}
  PROVE  Min(S) \in S /\ \A n \in S : Min(S) <= n
<1>1. PICK m \in S : \A n \in S : m <= n
  BY LeastExists
<1> QED  BY <1>1 DEF Min

LEMMA MaxIsGreatest ==
  ASSUME NEW S, S \subseteq Nat, S # {}, NEW k \in Nat, \A n \in S : n <= k
  PROVE  Max(S) \in S /\ \A n \in S : n <= Max(S)
<1> DEFINE T == {k - n : n \in S}
<1>1. T \subseteq Nat /\ T # {}
  <2>1. \A n \in S : k - n \in Nat
    <3> SUFFICES ASSUME NEW n \in S PROVE k - n \in Nat
      OBVIOUS
    <3>1. n \in Nat /\ n <= k
      OBVIOUS
    <3> QED  BY <3>1
  <2> QED  BY <2>1
<1>2. PICK t \in T : \A n \in T : t <= n
  <2> HIDE DEF T
  <2> QED  BY <1>1, LeastExists
<1>3. PICK m \in S : t = k - m
  BY <1>2
<1>4. ASSUME NEW n \in S PROVE n <= m
  <2>1. k - n \in T
    OBVIOUS
  <2>2. t <= k - n
    BY <2>1, <1>2
  <2>3. n \in Nat /\ m \in Nat
    OBVIOUS
  <2> QED  BY <2>2, <2>3, <1>3
<1> QED  BY <1>4 DEF Max

(* LastOf is 0 of an empty set and the greatest element of a bounded one.     *)
LEMMA LastOfIsGreatest ==
  ASSUME NEW S, S \subseteq Nat, NEW k \in Nat, \A n \in S : n <= k
  PROVE  /\ LastOf(S) \in Nat /\ \A n \in S : n <= LastOf(S)
         /\ S # {} => LastOf(S) \in S
<1>1. CASE S = {}
  BY <1>1 DEF LastOf
<1>2. CASE S # {}
  BY <1>2, MaxIsGreatest DEF LastOf
<1> QED  BY <1>1, <1>2

(* The greatest element is unique.                                            *)
LEMMA MaxIs ==
  ASSUME NEW S, S \subseteq Nat, NEW m \in S, \A n \in S : n <= m
  PROVE  Max(S) = m
<1>1. \A x \in S : (\A n \in S : x >= n) => x = m
  OBVIOUS
<1> QED  BY <1>1 DEF Max

-----------------------------------------------------------------------------
(* Intervals and updates.                                                     *)

(* An interval belongs to one series.                                         *)
LEMMA IntervalFacts ==
  /\ \A i \in Intervals : i[1] \in Range(Series) /\ i[2] \in 1 .. MaxTime
  /\ \A s : Of(s) \subseteq Intervals
  /\ \A s, i : i \in Of(s) => i[1] = s
BY DEF Intervals, Of

(* One worker moves, the others stay where they are.                          *)
LEMMA WorkerMoves ==
  ASSUME NEW w \in Workers, NEW x, DOMAIN worker = Workers,
         worker' = [worker EXCEPT ![w] = x]
  PROVE  /\ DOMAIN worker' = Workers /\ worker'[w] = x
         /\ \A v \in Workers : v # w => worker'[v] = worker[v]
OBVIOUS

-----------------------------------------------------------------------------
(* Plans.                                                                     *)

(* What the assumption on the offers gives.                                   *)
LEMMA OfferFacts ==
  ASSUME NEW o \in Offers
  PROVE  /\ o.source \in Sources /\ o.series \in Range(Series)
         /\ DOMAIN o.batch \subseteq Of(o.series) /\ DOMAIN o.batch \subseteq Intervals
         /\ \A i \in DOMAIN o.batch : o.batch[i] \in Contents
         /\ o.source # Fixture => o.source \in Providers
         /\ o.source \in Providers => o.source # Fixture
<1>1. /\ o.source \in Sources /\ o.series \in Range(Series)
      /\ DOMAIN o.batch \subseteq Of(o.series) /\ Range(o.batch) \subseteq Contents
      /\ Fixture \notin Providers
  BY LiveAssumption
<1>2. \A i \in DOMAIN o.batch : o.batch[i] \in Contents
  BY <1>1 DEF Range
<1> QED  BY <1>1, <1>2, IntervalFacts DEF Sources

(* The parts of a plan.                                                       *)
LEMMA PlanParts ==
  ASSUME NEW o, NEW at, NEW p, p = PlanOf(o, at)
  PROVE  /\ p.pc = "planned" /\ p.offer = o /\ p.locks = {o.series} /\ p.started = at
         /\ p.rows = LockedRows(o) /\ p.gone = Replaced(o.source, o.series)
         /\ p.new = NewRows(o) /\ p.items = ItemsOf(o, at)
BY DEF PlanOf

(* What is planned for which intervals.                                       *)
LEMMA PlanFacts ==
  ASSUME NEW o \in Offers, NEW at
  PROVE  /\ NewRows(o) \subseteq DOMAIN o.batch /\ Changes(o) \subseteq DOMAIN o.batch
         /\ NewRows(o) \cap Changes(o) = {}
         /\ Replaced(o.source, o.series) \subseteq FixtureRows(o.series)
         /\ FixtureRows(o.series) \subseteq Of(o.series)
         /\ DOMAIN ItemsOf(o, at) = NewRows(o) \cup Changes(o)
         /\ \A i \in NewRows(o) : ItemsOf(o, at)[i] = PlannedNew(o, i, at)
         /\ \A i \in Changes(o) : ItemsOf(o, at)[i] = PlannedChange(o, i, at)
         /\ \A i \in Changes(o) : i \in Remaining(o.source, o.series) /\ i \in LockedRows(o)
         /\ \A i \in NewRows(o) : i \notin Remaining(o.source, o.series)
         /\ \A i \in Changes(o) : View(i, o.source) # o.batch[i]
         /\ \A i \in Remaining(o.source, o.series) :
              Stored(i) /\ i \in Of(o.series) /\ i \notin Replaced(o.source, o.series)
<1>1. NewRows(o) \subseteq DOMAIN o.batch /\ Changes(o) \subseteq DOMAIN o.batch
  BY DEF NewRows, Changes
<1>2. NewRows(o) \cap Changes(o) = {}
  BY DEF NewRows, Changes
<1>3. /\ Replaced(o.source, o.series) \subseteq FixtureRows(o.series)
      /\ FixtureRows(o.series) \subseteq Of(o.series)
  BY DEF Replaced, FixtureRows
<1>4. /\ DOMAIN ItemsOf(o, at) = NewRows(o) \cup Changes(o)
      /\ \A i \in NewRows(o) : ItemsOf(o, at)[i] = PlannedNew(o, i, at)
  BY DEF ItemsOf
<1>5. \A i \in Changes(o) : ItemsOf(o, at)[i] = PlannedChange(o, i, at)
  BY <1>2 DEF ItemsOf
<1>6. \A i \in Changes(o) : i \in Remaining(o.source, o.series)
  BY DEF Changes, NewRows
<1>7. \A i \in Changes(o) : i \in LockedRows(o)
  BY <1>1, <1>6 DEF LockedRows
<1>8. \A i \in NewRows(o) : i \notin Remaining(o.source, o.series)
  BY DEF NewRows
<1>9. \A i \in Changes(o) : View(i, o.source) # o.batch[i]
  BY DEF Changes, MatchesCurrent
<1>10. \A i \in Remaining(o.source, o.series) :
         Stored(i) /\ i \in Of(o.series) /\ i \notin Replaced(o.source, o.series)
  BY DEF Remaining
<1> QED  BY <1>1, <1>2, <1>3, <1>4, <1>5, <1>6, <1>7, <1>8, <1>9, <1>10

(* A plan depends on its series and on the citations of the rows it locked:   *)
(* planning again gives the same as long as they stay.                        *)
LEMMA PlanStays ==
  ASSUME NEW o \in Offers, NEW at,
         \A i \in Of(o.series) : candle'[i] = candle[i] /\ obs'[i] = obs[i],
         \A i \in LockedRows(o) : cites'[i] = cites[i]
  PROVE  PlanOf(o, at)' = PlanOf(o, at)
<1> DEFINE s == o.series
           src == o.source
<1>1. DiscardFixtureBatch(src, s)' = DiscardFixtureBatch(src, s)
  BY DEF DiscardFixtureBatch, Stored
<1>2. FixtureRows(s)' = FixtureRows(s)
  BY DEF FixtureRows
<1>3. Replaced(src, s)' = Replaced(src, s)
  BY <1>2 DEF Replaced
<1>4. Remaining(src, s)' = Remaining(src, s)
  BY <1>3 DEF Remaining, Stored
<1>5. NewRows(o)' = NewRows(o)
  BY <1>1, <1>4 DEF NewRows
<1>6. ASSUME NEW i \in Of(s)
      PROVE  View(i, src)' = View(i, src)
  <2>1. Own(i, src)' = Own(i, src) /\ candle'[i] = candle[i]
    BY DEF Own
  <2>2. LatestOwn(i, src)' = LatestOwn(i, src)
    BY <2>1 DEF LatestOwn
  <2> QED  BY <2>1, <2>2 DEF View
<1>7. \A i \in DOMAIN o.batch : MatchesCurrent(i, src, o.batch[i])' = MatchesCurrent(i, src, o.batch[i])
  BY <1>6, OfferFacts DEF MatchesCurrent
<1>8. Changes(o)' = Changes(o)
  BY <1>1, <1>5, <1>7 DEF Changes
<1>9. LockedRows(o)' = LockedRows(o)
  BY <1>3, <1>4 DEF LockedRows
<1>10. \A i \in NewRows(o) : PlannedNew(o, i, at)' = PlannedNew(o, i, at)
  BY <1>4 DEF PlannedNew, KindOfNew
<1>11. ASSUME NEW i \in Changes(o)
       PROVE  PlannedChange(o, i, at)' = PlannedChange(o, i, at)
  <2>1. i \in Of(s) /\ i \in LockedRows(o)
    BY PlanFacts, OfferFacts
  <2>2. ChainHead(i)' = ChainHead(i)
    BY <2>1 DEF ChainHead, Revisions
  <2>3. KindOfChange(i, o.batch[i])' = KindOfChange(i, o.batch[i])
    BY <2>1 DEF KindOfChange, CandleIsReferenced
  <2> QED  BY <2>2, <2>3 DEF PlannedChange
<1>12. ItemsOf(o, at)' = ItemsOf(o, at)
  BY <1>5, <1>8, <1>10, <1>11 DEF ItemsOf
<1> QED  BY <1>3, <1>5, <1>9, <1>12 DEF PlanOf

-----------------------------------------------------------------------------
(* The inductive invariant of types, plans and locks.                         *)

(* What a worker that planned is about to commit is what it would plan now.   *)
PlanIsCurrent(w) ==
  worker[w].pc = "planned" => \E o \in Offers, at \in Times : worker[w] = PlanOf(o, at)

(* A transaction that takes locks has the first ones of those it needs.       *)
LocksInOrder(w) ==
  worker[w].pc = "locking" =>
    LET p == worker[w] IN
    /\ p.cutoff \in Times /\ p.scope \subseteq Range(Series) /\ p.locks \subseteq p.scope
    /\ \A m, n \in DOMAIN Series :
         Series[m] \in p.locks /\ Series[n] \in p.scope \ p.locks => m < n

(* What the other workers carry.                                              *)
WorkIsTyped(w) ==
  /\ worker[w].pc \in {"idle", "planned", "locking", "built", "simulating"}
  /\ worker[w].pc = "built" => worker[w].snapshot \in Snapshot
  /\ worker[w].pc = "simulating" =>
       worker[w].decision \in snaps /\ worker[w].outcome \in snaps /\ worker[w].locks = {}

(* Two transactions never hold the lock of the same series.                   *)
LocksAreExclusive ==
  \A v, w \in Workers : v # w => Holds(v) \cap Holds(w) = {}

(* A chain has an end, so that its head is a number.                          *)
ChainsAreBounded ==
  \A i \in Intervals : \E h \in Nat : \A o \in obs[i] : o.revision <= h

(* Only rows of observed and legacy candles have observations, and only       *)
(* fixtures come from the source of fixtures.                                 *)
RowsAreHonest ==
  \A i \in Intervals :
    /\ obs[i] # {} => Stored(i) /\ candle[i].provenance # "fixture"
    /\ Stored(i) => (candle[i].source = Fixture <=> candle[i].provenance = "fixture")

TypeInv ==
  /\ TypeOK
  /\ \A w \in Workers : PlanIsCurrent(w) /\ LocksInOrder(w) /\ WorkIsTyped(w)
  /\ LocksAreExclusive
  /\ ChainsAreBounded
  /\ RowsAreHonest
  /\ evals \subseteq Seq(snaps)

(* The head of a chain is a number, and no revision is beyond it.             *)
LEMMA HeadOfChain ==
  ASSUME TypeOK, ChainsAreBounded, NEW i \in Intervals
  PROVE  /\ ChainHead(i) \in Nat
         /\ \A o \in obs[i] : o.revision \in Nat /\ o.revision <= ChainHead(i)
<1>1. \A o \in obs[i] : o.revision \in Nat
  BY DEF TypeOK, Observation
<1>2. PICK h \in Nat : \A o \in obs[i] : o.revision <= h
  BY DEF ChainsAreBounded
<1>3. Revisions(i) \subseteq Nat /\ \A n \in Revisions(i) : n <= h
  BY <1>1, <1>2 DEF Revisions
<1>4. LastOf(Revisions(i)) \in Nat /\ \A n \in Revisions(i) : n <= LastOf(Revisions(i))
  BY <1>3, LastOfIsGreatest
<1> QED  BY <1>1, <1>4 DEF ChainHead, Revisions

(* A commit is recorded now and after every cutoff.                           *)
LEMMA RecordedAfterCutoffs ==
  ASSUME TypeOK
  PROVE  /\ RecordedAt \in Nat
         /\ \A n \in snaps : RecordedAt > n.cutoff
<1> DEFINE S == {clock} \cup {n.cutoff + 1 : n \in snaps}
<1>1. MaxTime \in Nat /\ clock \in Nat /\ clock <= MaxTime
  BY LiveAssumption DEF TypeOK, Times
<1>2. \A n \in snaps : n.cutoff \in Nat /\ n.cutoff <= MaxTime
  BY <1>1 DEF TypeOK, Snapshot, Times
<1>3. S \subseteq Nat /\ S # {} /\ \A x \in S : x <= MaxTime + 1
  BY <1>1, <1>2
<1>4. Max(S) \in S /\ \A x \in S : x <= Max(S)
  <2> HIDE DEF S
  <2>1. MaxTime + 1 \in Nat
    BY <1>1
  <2> QED  BY <1>3, <2>1, MaxIsGreatest
<1>5. RecordedAt = Max(S)
  BY DEF RecordedAt
<1>6. \A n \in snaps : n.cutoff + 1 \in S
  OBVIOUS
<1>7. RecordedAt \in Nat
  BY <1>3, <1>4, <1>5
<1>8. ASSUME NEW n \in snaps PROVE RecordedAt > n.cutoff
  <2>1. n.cutoff + 1 <= RecordedAt
    BY <1>4, <1>5, <1>6
  <2> HIDE DEF S
  <2> QED  BY <2>1, <1>2, <1>7
<1> QED  BY <1>7, <1>8

(* Recording an observation changes nothing else of it.                       *)
LEMMA RecordingIsAll ==
  ASSUME NEW rev, NEW sup, NEW src, NEW con, NEW knd, NEW seen, NEW old, NEW rec
  PROVE  [[revision |-> rev, supersedes |-> sup, source |-> src, content |-> con,
           kind |-> knd, observed |-> seen, recorded |-> old] EXCEPT !.recorded = rec]
         = [revision |-> rev, supersedes |-> sup, source |-> src, content |-> con,
            kind |-> knd, observed |-> seen, recorded |-> rec]
OBVIOUS

(* The observation a planned item becomes.                                    *)
Recorded(o, at, i) == [ItemsOf(o, at)[i] EXCEPT !.recorded = RecordedAt]

LEMMA RecordedFacts ==
  ASSUME TypeOK, ChainsAreBounded, NEW o \in Offers, o.source # Fixture, NEW at \in Times,
         NEW i \in NewRows(o) \cup Changes(o)
  PROVE  /\ Recorded(o, at, i) \in Observation
         /\ Recorded(o, at, i).source = o.source
         /\ Recorded(o, at, i).content = o.batch[i]
         /\ Recorded(o, at, i).recorded = RecordedAt
         /\ i \in NewRows(o) => Recorded(o, at, i).revision = 1
         /\ i \in Changes(o) => Recorded(o, at, i).revision = ChainHead(i) + 1
<1> DEFINE R == RecordedAt
<1>1. i \in Intervals /\ o.batch[i] \in Contents /\ o.source \in Providers /\ R \in Nat
  BY PlanFacts, OfferFacts, RecordedAfterCutoffs
<1>2. ChainHead(i) \in Nat
  BY <1>1, HeadOfChain
<1>3. KindOfNew(i, Remaining(o.source, o.series)) \in Kinds /\ KindOfChange(i, o.batch[i]) \in Kinds
  BY DEF KindOfNew, KindOfChange, Kinds
<1>4. CASE i \in NewRows(o)
  <2>1. Recorded(o, at, i) =
          [revision |-> 1, supersedes |-> 0, source |-> o.source, content |-> o.batch[i],
           kind |-> KindOfNew(i, Remaining(o.source, o.series)), observed |-> at,
           recorded |-> R]
    <3>1. ItemsOf(o, at)[i] = PlannedNew(o, i, at)
      BY <1>4, PlanFacts
    <3> QED  BY <3>1, RecordingIsAll DEF Recorded, PlannedNew
  <2>2. i \notin Changes(o)
    BY <1>4, PlanFacts
  <2> HIDE DEF R
  <2> QED  BY <1>1, <1>3, <2>1, <2>2, <1>4 DEF Observation, R
<1>5. CASE i \in Changes(o)
  <2>1. Recorded(o, at, i) =
          [revision |-> ChainHead(i) + 1, supersedes |-> ChainHead(i), source |-> o.source,
           content |-> o.batch[i], kind |-> KindOfChange(i, o.batch[i]), observed |-> at,
           recorded |-> R]
    <3>1. ItemsOf(o, at)[i] = PlannedChange(o, i, at)
      BY <1>5, PlanFacts
    <3> QED  BY <3>1, RecordingIsAll DEF Recorded, PlannedChange
  <2>2. i \notin NewRows(o)
    BY <1>5, PlanFacts
  <2>3. ChainHead(i) + 1 \in Nat
    BY <1>2
  <2> HIDE DEF R
  <2> QED  BY <1>1, <1>2, <1>3, <2>1, <2>2, <2>3, <1>5 DEF Observation, R
<1> QED  BY <1>4, <1>5

-----------------------------------------------------------------------------
(* What the second half of an ingestion does.                                 *)

(* The ingestion of offer o commits.                                          *)
Commit(w, o, at) ==
  /\ worker[w] = PlanOf(o, at)
  /\ candle' = RowsAfter(PlanOf(o, at))
  /\ obs' = ObservationsAfter(PlanOf(o, at))
  /\ tech' = TechnicalAfter(PlanOf(o, at))
  /\ runs' = Append(runs, [source |-> o.source, batch |-> o.batch])
  /\ worker' = [worker EXCEPT ![w] = Idle]
  /\ UNCHANGED <<clock, back, cites, research, snaps, strategy, refused>>

(* A candle that is planned as new has no chain.                              *)
LEMMA NewRowsHaveNoChain ==
  ASSUME TypeInv, NEW o \in Offers, NEW i \in NewRows(o)
  PROVE  obs[i] = {}
<1>1. i \notin Remaining(o.source, o.series) /\ i \in Of(o.series) /\ i \in Intervals
  BY PlanFacts, OfferFacts
<1>2. ~Stored(i) \/ i \in FixtureRows(o.series)
  BY <1>1, PlanFacts DEF Remaining
<1>3. i \in FixtureRows(o.series) => candle[i].provenance = "fixture"
  BY DEF FixtureRows
<1> QED  BY <1>1, <1>2, <1>3 DEF TypeInv, RowsAreHonest

(* A current plan is refused for the clock or by the mirror only: its chains  *)
(* have not grown and its kinds are what Python would say now.                *)
LEMMA PlansAreAdmitted ==
  ASSUME TypeInv, NEW w \in Workers, NEW o \in Offers, NEW at \in Times,
         worker[w] = PlanOf(o, at), NEW i \in DOMAIN ItemsOf(o, at)
  PROVE  LineageFails(w, i) \subseteq {"chronology", "mirror"}
<1> DEFINE item == ItemsOf(o, at)[i]
<1>1. worker[w].items = ItemsOf(o, at) /\ worker[w].new = NewRows(o)
  BY PlanParts
<1>2. i \in NewRows(o) \cup Changes(o) /\ i \in DOMAIN o.batch /\ i \in Intervals /\ i \in Of(o.series)
  BY PlanFacts, OfferFacts
<1>3. i \in NewRows(o) => obs[i] = {}
  BY NewRowsHaveNoChain
<1>4. ASSUME i \notin NewRows(o)
      PROVE  /\ item.kind = KindOfChange(i, item.content)
             /\ item.revision = ChainHead(i) + 1 /\ item.supersedes = ChainHead(i)
  <2>1. item = PlannedChange(o, i, at)
    BY <1>2, <1>4, PlanFacts
  <2> HIDE DEF item
  <2> QED  BY <2>1 DEF PlannedChange
<1> HIDE DEF item
<1>5. LineageFails(w, i) =
        IF ~ChronologyHolds(item, w, i) THEN {"chronology"}
        ELSE IF i \in NewRows(o) THEN IF obs[i] # {} THEN {"chain"} ELSE {}
        ELSE IF item.kind # DerivedKind(i, item.content)
        THEN IF item.kind = KindOfChange(i, item.content) THEN {"mirror"} ELSE {"kind"}
        ELSE IF ~ChainContinues(item, i) THEN {"chain"} ELSE {}
  BY <1>1 DEF LineageFails, item
<1>6. i \notin NewRows(o) => ChainContinues(item, i)
  BY <1>4 DEF ChainContinues
<1> QED  BY <1>3, <1>4, <1>5, <1>6

(* So the second half either gives up for one of these reasons or commits.    *)
LEMMA StoreCommitsOrGivesUp ==
  ASSUME TypeInv, NEW w \in Workers, Store(w)
  PROVE  \/ \E why \in SUBSET {"chronology", "mirror"} : Abandon(w, why)
         \/ \E o \in Offers, at \in Times : Commit(w, o, at)
<1>1. PICK o \in Offers, at \in Times : worker[w] = PlanOf(o, at)
  BY DEF Store, TypeInv, PlanIsCurrent
<1>2. /\ worker[w].items = ItemsOf(o, at) /\ worker[w].offer = o
  BY <1>1, PlanParts
<1> DEFINE fails == IF ~Observes(o.source) THEN {}
                    ELSE UNION {LineageFails(w, i) : i \in DOMAIN ItemsOf(o, at)}
<1>3. fails \subseteq {"chronology", "mirror"}
  BY <1>1, PlansAreAdmitted
<1> HIDE DEF fails
<1>4. \/ Abandon(w, fails)
      \/ Commit(w, o, at)
  BY <1>1, <1>2 DEF Store, Commit, fails
<1> QED  BY <1>3, <1>4

(* The rows and the chains after a commit.                                    *)
LEMMA CommitRows ==
  ASSUME TypeInv, NEW w \in Workers, NEW o \in Offers, NEW at \in Times, Commit(w, o, at)
  PROVE  /\ DOMAIN candle' = Intervals /\ DOMAIN obs' = Intervals
         /\ \A i \in NewRows(o) : candle'[i] = NewRow(o, i)
         /\ \A i \in Replaced(o.source, o.series) \ NewRows(o) : candle'[i] = NoRow
         /\ \A i \in Intervals : i \notin NewRows(o) /\ i \notin Replaced(o.source, o.series) =>
              candle'[i] = candle[i]
         /\ \A i \in Intervals : i \notin NewRows(o) \cup Changes(o) => obs'[i] = obs[i]
         /\ o.source = Fixture => \A i \in Intervals : obs'[i] = obs[i]
         /\ o.source # Fixture => \A i \in NewRows(o) \cup Changes(o) :
              obs'[i] = obs[i] \cup {Recorded(o, at, i)}
<1> DEFINE p == PlanOf(o, at)
<1>1. /\ p.offer = o /\ p.new = NewRows(o) /\ p.gone = Replaced(o.source, o.series)
      /\ p.items = ItemsOf(o, at)
  BY PlanParts
<1>2. /\ NewRows(o) \subseteq Intervals /\ Changes(o) \subseteq Intervals
      /\ Replaced(o.source, o.series) \subseteq Intervals
      /\ DOMAIN ItemsOf(o, at) = NewRows(o) \cup Changes(o)
  BY PlanFacts, OfferFacts, IntervalFacts
<1> HIDE DEF p
<1>3. candle' = [i \in Intervals |-> IF i \in NewRows(o) THEN NewRow(o, i)
                                     ELSE IF i \in Replaced(o.source, o.series) THEN NoRow
                                     ELSE candle[i]]
  BY <1>1 DEF Commit, RowsAfter, p
<1>4. obs' = [i \in Intervals |->
                IF o.source = Fixture \/ i \notin NewRows(o) \cup Changes(o) THEN obs[i]
                ELSE obs[i] \cup {Recorded(o, at, i)}]
  BY <1>1, <1>2 DEF Commit, ObservationsAfter, Observes, Recorded, p
<1> QED  BY <1>2, <1>3, <1>4

(* A commit stays within its series.                                          *)
LEMMA CommitIsLocal ==
  ASSUME TypeInv, NEW w \in Workers, NEW o \in Offers, NEW at \in Times, Commit(w, o, at),
         NEW s, s # o.series
  PROVE  \A i \in Of(s) : candle'[i] = candle[i] /\ obs'[i] = obs[i]
<1> SUFFICES ASSUME NEW i \in Of(s)
             PROVE  candle'[i] = candle[i] /\ obs'[i] = obs[i]
  OBVIOUS
<1>1. i \in Intervals /\ i[1] = s /\ i \notin Of(o.series)
  BY IntervalFacts
<1>2. i \notin NewRows(o) \cup Changes(o) /\ i \notin Replaced(o.source, o.series)
  BY <1>1, PlanFacts, OfferFacts
<1> QED  BY <1>1, <1>2, CommitRows

-----------------------------------------------------------------------------
(* TypeInv is inductive.                                                      *)

(* A worker's part of the invariant stays when the worker does, the snapshots *)
(* grow and, if it planned, what it locked is left alone.                     *)
LEMMA WorkStays ==
  ASSUME TypeInv, NEW v \in Workers, worker'[v] = worker[v], snaps \subseteq snaps',
         \A o \in Offers, at \in Times : worker[v] = PlanOf(o, at) =>
           /\ \A i \in Of(o.series) : candle'[i] = candle[i] /\ obs'[i] = obs[i]
           /\ \A i \in LockedRows(o) : cites'[i] = cites[i]
  PROVE  PlanIsCurrent(v)' /\ LocksInOrder(v)' /\ WorkIsTyped(v)'
<1>1. PlanIsCurrent(v) /\ LocksInOrder(v) /\ WorkIsTyped(v)
  BY DEF TypeInv
<1>2. PlanIsCurrent(v)'
  <2> SUFFICES ASSUME worker[v].pc = "planned"
               PROVE  \E o \in Offers, at \in Times : worker'[v] = PlanOf(o, at)'
    BY DEF PlanIsCurrent
  <2>1. PICK o \in Offers, at \in Times : worker[v] = PlanOf(o, at)
    BY <1>1 DEF PlanIsCurrent
  <2>2. PlanOf(o, at)' = PlanOf(o, at)
    BY <2>1, PlanStays
  <2> QED  BY <2>1, <2>2
<1>3. LocksInOrder(v)'
  BY <1>1 DEF LocksInOrder
<1>4. WorkIsTyped(v)'
  BY <1>1 DEF WorkIsTyped
<1> QED  BY <1>2, <1>3, <1>4

(* An idle worker satisfies it.                                               *)
LEMMA IdleIsSound ==
  ASSUME NEW w \in Workers, worker'[w] = Idle
  PROVE  PlanIsCurrent(w)' /\ LocksInOrder(w)' /\ WorkIsTyped(w)' /\ Holds(w)' = {}
BY DEF Idle, PlanIsCurrent, LocksInOrder, WorkIsTyped, Holds

(* Locks stay exclusive when one worker moves and no other holds its locks.   *)
LEMMA ExclusionStays ==
  ASSUME TypeInv, NEW w \in Workers,
         \A v \in Workers : v # w => worker'[v] = worker[v],
         \A v \in Workers : v # w => Holds(w)' \cap Holds(v) = {}
  PROVE  LocksAreExclusive'
<1>1. \A v \in Workers : v # w => Holds(v)' = Holds(v)
  BY DEF Holds
<1>2. \A u, v \in Workers : u # v => Holds(u) \cap Holds(v) = {}
  BY DEF TypeInv, LocksAreExclusive
<1> QED  BY <1>1, <1>2 DEF LocksAreExclusive

(* A plan holds the lock of its series.                                       *)
LEMMA PlanHolds ==
  ASSUME NEW w \in Workers, NEW o, NEW at, worker[w] = PlanOf(o, at)
  PROVE  Holds(w) = {o.series} /\ RowLocks(w) = LockedRows(o)
BY PlanParts DEF Holds, RowLocks

(* Commits keep the invariant.                                                *)
LEMMA CommitKeepsTypeInv ==
  ASSUME TypeInv, NEW w \in Workers, NEW o \in Offers, NEW at \in Times, Commit(w, o, at)
  PROVE  TypeInv'
<1>1. TypeOK /\ ChainsAreBounded /\ DOMAIN worker = Workers
  BY DEF TypeInv, TypeOK
<1>2. /\ worker'[w] = Idle /\ DOMAIN worker' = Workers
      /\ \A v \in Workers : v # w => worker'[v] = worker[v]
  BY <1>1, WorkerMoves DEF Commit
<1>3. /\ UNCHANGED <<clock, back, cites, research, snaps, registered, evals, sims, refused>>
      /\ worker[w] = PlanOf(o, at)
  BY DEF Commit, strategy
<1>4. \A i \in Intervals : obs'[i] \subseteq Observation
  <2> SUFFICES ASSUME NEW i \in Intervals PROVE obs'[i] \subseteq Observation
    OBVIOUS
  <2>1. obs[i] \subseteq Observation
    BY <1>1 DEF TypeOK
  <2>2. CASE o.source = Fixture \/ i \notin NewRows(o) \cup Changes(o)
    BY <2>1, <2>2, CommitRows
  <2>3. CASE o.source # Fixture /\ i \in NewRows(o) \cup Changes(o)
    <3>1. Recorded(o, at, i) \in Observation
      BY <1>1, <2>3, RecordedFacts
    <3> QED  BY <2>1, <2>3, <3>1, CommitRows
  <2> QED  BY <2>2, <2>3
<1>5. runs' \in Seq(Batches)
  <2>1. [source |-> o.source, batch |-> o.batch] \in Batches
    BY DEF Batches
  <2>2. runs \in Seq(Batches)
    BY <1>1 DEF TypeOK
  <2> QED  BY <2>1, <2>2, AppendProperties DEF Commit
<1>6. TypeOK'
  BY <1>1, <1>2, <1>3, <1>4, <1>5, CommitRows DEF TypeOK
<1>7. ASSUME NEW v \in Workers
      PROVE  PlanIsCurrent(v)' /\ LocksInOrder(v)' /\ WorkIsTyped(v)'
  <2>1. CASE v = w
    BY <1>2, <2>1, IdleIsSound
  <2>2. CASE v # w
    <3>1. ASSUME NEW q \in Offers, NEW t \in Times, worker[v] = PlanOf(q, t)
          PROVE  /\ \A i \in Of(q.series) : candle'[i] = candle[i] /\ obs'[i] = obs[i]
                 /\ \A i \in LockedRows(q) : cites'[i] = cites[i]
      <4>1. Holds(v) = {q.series} /\ Holds(w) = {o.series}
        BY <1>3, <3>1, PlanHolds
      <4>2. q.series # o.series
        BY <2>2, <4>1 DEF TypeInv, LocksAreExclusive
      <4> QED  BY <1>3, <4>2, CommitIsLocal
    <3> QED  BY <1>2, <1>3, <2>2, <3>1, WorkStays
  <2> QED  BY <2>1, <2>2
<1>8. LocksAreExclusive'
  BY <1>2, IdleIsSound, ExclusionStays
<1>9. ChainsAreBounded'
  <2> SUFFICES ASSUME NEW i \in Intervals
               PROVE  \E h \in Nat : \A r \in obs'[i] : r.revision <= h
    BY DEF ChainsAreBounded
  <2>1. /\ ChainHead(i) \in Nat
        /\ \A r \in obs[i] : r.revision \in Nat /\ r.revision <= ChainHead(i)
    BY <1>1, HeadOfChain
  <2>2. PICK h \in Nat : h = ChainHead(i) + 1
    BY <2>1
  <2>3. \A r \in obs[i] : r.revision <= h
    BY <2>1, <2>2
  <2>4. CASE o.source = Fixture \/ i \notin NewRows(o) \cup Changes(o)
    BY <2>3, <2>4, CommitRows
  <2>5. CASE o.source # Fixture /\ i \in NewRows(o) \cup Changes(o)
    <3>1. Recorded(o, at, i).revision = 1 \/ Recorded(o, at, i).revision = ChainHead(i) + 1
      BY <1>1, <2>5, RecordedFacts
    <3>2. Recorded(o, at, i).revision <= h
      BY <2>1, <2>2, <3>1
    <3> QED  BY <2>3, <2>5, <3>2, CommitRows
  <2> QED  BY <2>4, <2>5
<1>10. RowsAreHonest'
  <2> SUFFICES ASSUME NEW i \in Intervals
               PROVE  /\ obs'[i] # {} => candle'[i] # NoRow /\ candle'[i].provenance # "fixture"
                      /\ candle'[i] # NoRow =>
                           (candle'[i].source = Fixture <=> candle'[i].provenance = "fixture")
    BY DEF RowsAreHonest, Stored
  <2>1. /\ obs[i] # {} => candle[i] # NoRow /\ candle[i].provenance # "fixture"
        /\ candle[i] # NoRow => (candle[i].source = Fixture <=> candle[i].provenance = "fixture")
    BY DEF TypeInv, RowsAreHonest, Stored
  <2>2. i \in FixtureRows(o.series) => candle[i].provenance = "fixture"
    BY DEF FixtureRows
  <2>3. CASE i \in NewRows(o)
    <3>1. candle'[i] = NewRow(o, i)
      BY <2>3, CommitRows
    <3>2. /\ candle'[i].source = o.source
          /\ candle'[i].provenance = IF o.source = Fixture THEN "fixture" ELSE "observed"
          /\ candle'[i].attested = TRUE
      BY <3>1 DEF NewRow
    <3>3. candle'[i] # NoRow
      <4>1. NoRow.provenance = ""
        BY DEF NoRow
      <4>2. candle'[i].provenance # ""
        BY <3>2
      <4> QED  BY <4>1, <4>2
    <3>4. o.source = Fixture => obs'[i] = obs[i]
      BY CommitRows
    <3>5. i \notin Remaining(o.source, o.series) /\ i \in Of(o.series)
      BY <2>3, PlanFacts, OfferFacts
    <3>6. obs[i] = {}
      BY <2>1, <2>2, <3>5, PlanFacts DEF Remaining, Stored
    <3> QED  BY <3>2, <3>3, <3>4, <3>6
  <2>4. CASE i \notin NewRows(o) /\ i \in Replaced(o.source, o.series)
    <3>1. candle'[i] = NoRow
      BY <2>4, CommitRows
    <3>2. i \notin Changes(o)
      BY <2>4, PlanFacts
    <3>3. obs'[i] = obs[i] /\ obs[i] = {}
      BY <2>1, <2>2, <2>4, <3>2, CommitRows, PlanFacts
    <3> QED  BY <3>1, <3>3
  <2>5. CASE i \notin NewRows(o) /\ i \notin Replaced(o.source, o.series)
    <3>1. candle'[i] = candle[i]
      BY <2>5, CommitRows
    <3>2. CASE i \notin Changes(o)
      BY <2>1, <2>5, <3>1, <3>2, CommitRows
    <3>3. CASE i \in Changes(o)
      <4>1. candle[i] # NoRow
        BY <3>3, PlanFacts DEF Stored
      <4>2. o.source # Fixture => i \notin FixtureRows(o.series)
        BY <2>5 DEF Replaced
      <4>3. i \in Of(o.series)
        BY <3>3, PlanFacts, OfferFacts
      <4>4. o.source = Fixture => obs'[i] = obs[i]
        BY CommitRows
      <4> QED  BY <2>1, <3>1, <4>1, <4>2, <4>3, <4>4 DEF FixtureRows
    <3> QED  BY <3>2, <3>3
  <2> QED  BY <2>3, <2>4, <2>5
<1>11. evals' \subseteq Seq(snaps')
  BY <1>3 DEF TypeInv
<1> QED  BY <1>6, <1>7, <1>8, <1>9, <1>10, <1>11 DEF TypeInv

(* Steps that leave the ledger alone and move one worker.                     *)
LEMMA MoveKeepsTypeInv ==
  ASSUME TypeInv, TypeOK', NEW w \in Workers, UNCHANGED <<ledger, cites>>, snaps \subseteq snaps',
         \A v \in Workers : v # w => worker'[v] = worker[v],
         PlanIsCurrent(w)' /\ LocksInOrder(w)' /\ WorkIsTyped(w)',
         \A v \in Workers : v # w => Holds(w)' \cap Holds(v) = {},
         evals' \subseteq Seq(snaps')
  PROVE  TypeInv'
<1>1. candle' = candle /\ obs' = obs /\ cites' = cites
  BY DEF ledger
<1>2. ASSUME NEW v \in Workers
      PROVE  PlanIsCurrent(v)' /\ LocksInOrder(v)' /\ WorkIsTyped(v)'
  BY <1>1, WorkStays
<1>3. LocksAreExclusive'
  BY ExclusionStays
<1>4. ChainsAreBounded' /\ RowsAreHonest'
  BY <1>1 DEF TypeInv, ChainsAreBounded, RowsAreHonest, Stored
<1> QED  BY <1>2, <1>3, <1>4 DEF TypeInv

(* Steps that leave the ledger and the workers alone.                         *)
LEMMA StayKeepsTypeInv ==
  ASSUME TypeInv, TypeOK', UNCHANGED <<ledger, worker>>, snaps \subseteq snaps',
         \A v \in Workers : \A i \in RowLocks(v) : cites'[i] = cites[i],
         evals' \subseteq Seq(snaps')
  PROVE  TypeInv'
<1>1. candle' = candle /\ obs' = obs /\ worker' = worker
  BY DEF ledger
<1>2. ASSUME NEW v \in Workers
      PROVE  PlanIsCurrent(v)' /\ LocksInOrder(v)' /\ WorkIsTyped(v)'
  BY <1>1, PlanHolds, WorkStays
<1>3. LocksAreExclusive'
  BY <1>1 DEF TypeInv, LocksAreExclusive, Holds
<1>4. ChainsAreBounded' /\ RowsAreHonest'
  BY <1>1 DEF TypeInv, ChainsAreBounded, RowsAreHonest, Stored
<1> QED  BY <1>2, <1>3, <1>4 DEF TypeInv

(* Giving up.                                                                 *)
Reasons == {"protected", "root", "chronology", "chain", "kind", "mirror", "manifest", "attempt"}

LEMMA AbandonKeepsTypeInv ==
  ASSUME TypeInv, NEW w \in Workers, NEW why, why \subseteq Reasons, Abandon(w, why)
  PROVE  TypeInv'
<1>1. DOMAIN worker = Workers /\ worker' = [worker EXCEPT ![w] = Idle]
  BY DEF TypeInv, TypeOK, Abandon
<1>2. /\ worker'[w] = Idle /\ DOMAIN worker' = Workers
      /\ \A v \in Workers : v # w => worker'[v] = worker[v]
  BY <1>1, WorkerMoves
<1>3. UNCHANGED <<clock, back, candle, obs, runs, tech, cites, research, snaps, registered, evals, sims>>
  BY DEF Abandon, ledger, strategy
<1>4. TypeOK'
  BY <1>2, <1>3 DEF TypeInv, TypeOK, Abandon, Reasons
<1>5. UNCHANGED <<ledger, cites>> /\ snaps \subseteq snaps' /\ evals' \subseteq Seq(snaps')
  BY <1>3 DEF ledger, TypeInv
<1> QED  BY <1>2, <1>4, <1>5, IdleIsSound, MoveKeepsTypeInv

(* Planning.                                                                  *)
LEMMA PlanKeepsTypeInv ==
  ASSUME TypeInv, NEW w \in Workers, NEW o \in Offers, Plan(w, o)
  PROVE  TypeInv'
<1>1. CASE PlanFails(o) # {}
  <2>1. PlanFails(o) \subseteq Reasons
    BY DEF PlanFails, Reasons
  <2> QED  BY <1>1, <2>1, AbandonKeepsTypeInv DEF Plan
<1>2. CASE PlanFails(o) = {}
  <2>1. /\ worker' = [worker EXCEPT ![w] = PlanOf(o, clock)]
        /\ UNCHANGED <<clock, back, candle, obs, runs, tech, cites, research, snaps,
                       registered, evals, sims, refused>>
        /\ \A v \in Workers \ {w} : o.series \notin Holds(v)
    BY <1>2 DEF Plan, ledger, strategy, SerializeLiveSeries, FreeFor
  <2>2. DOMAIN worker = Workers /\ clock \in Times
    BY DEF TypeInv, TypeOK
  <2>3. /\ worker'[w] = PlanOf(o, clock) /\ DOMAIN worker' = Workers
        /\ \A v \in Workers : v # w => worker'[v] = worker[v]
    BY <2>1, <2>2, WorkerMoves
  <2>4. TypeOK'
    BY <2>1, <2>3 DEF TypeInv, TypeOK
  <2>5. UNCHANGED <<ledger, cites>> /\ snaps \subseteq snaps' /\ evals' \subseteq Seq(snaps')
    BY <2>1 DEF ledger, TypeInv
  <2>6. PICK at \in Times : at = clock
    BY <2>2
  <2>7. worker'[w] = PlanOf(o, at) /\ PlanOf(o, at)' = PlanOf(o, at)
    BY <2>1, <2>3, <2>6, PlanStays
  <2>8. worker'[w].pc = "planned" /\ worker'[w].locks = {o.series}
    BY <2>7, PlanParts
  <2>9. PlanIsCurrent(w)'
    BY <2>7 DEF PlanIsCurrent
  <2>10. LocksInOrder(w)' /\ WorkIsTyped(w)' /\ Holds(w)' = {o.series}
    BY <2>8 DEF LocksInOrder, WorkIsTyped, Holds
  <2>11. \A v \in Workers : v # w => Holds(w)' \cap Holds(v) = {}
    BY <2>1, <2>10
  <2> QED  BY <2>3, <2>4, <2>5, <2>9, <2>10, <2>11, MoveKeepsTypeInv
<1> QED  BY <1>1, <1>2

(* The known revisions of an interval are revisions of its chain, so the      *)
(* highest one is a number; a manifest holds such pairs.                      *)
LEMMA EligibleFacts ==
  ASSUME TypeInv, NEW i \in Intervals, NEW cutoff
  PROVE  /\ EligibleRevisions(i, cutoff) \subseteq Nat
         /\ EligibleRevisions(i, cutoff) # {} =>
              Max(EligibleRevisions(i, cutoff)) \in EligibleRevisions(i, cutoff)
<1>1. /\ ChainHead(i) \in Nat
      /\ \A o \in obs[i] : o.revision \in Nat /\ o.revision <= ChainHead(i)
  BY HeadOfChain DEF TypeInv
<1>2. /\ EligibleRevisions(i, cutoff) \subseteq Nat
      /\ \A n \in EligibleRevisions(i, cutoff) : n <= ChainHead(i)
  BY <1>1 DEF EligibleRevisions
<1> QED  BY <1>1, <1>2, MaxIsGreatest

LEMMA ManifestFacts ==
  ASSUME TypeInv, NEW scope, NEW cutoff
  PROVE  /\ BuildInputManifest(scope, cutoff) \subseteq Intervals \X Nat
         /\ \A e \in BuildInputManifest(scope, cutoff) :
              \E s \in scope : \E i \in EligibleIntervals(s, cutoff) :
                e = <<i, Max(EligibleRevisions(i, cutoff))>>
         /\ \A s \in scope : \A i \in EligibleIntervals(s, cutoff) :
              <<i, Max(EligibleRevisions(i, cutoff))>> \in BuildInputManifest(scope, cutoff)
<1>1. \A e \in BuildInputManifest(scope, cutoff) :
        \E s \in scope : \E i \in EligibleIntervals(s, cutoff) :
          e = <<i, Max(EligibleRevisions(i, cutoff))>>
  BY DEF BuildInputManifest
<1>2. \A s \in scope : \A i \in EligibleIntervals(s, cutoff) :
        <<i, Max(EligibleRevisions(i, cutoff))>> \in BuildInputManifest(scope, cutoff)
  BY DEF BuildInputManifest
<1>3. ASSUME NEW s, NEW i \in EligibleIntervals(s, cutoff)
      PROVE  i \in Intervals /\ Max(EligibleRevisions(i, cutoff)) \in Nat
  <2>1. i \in Intervals /\ EligibleRevisions(i, cutoff) # {}
    BY IntervalFacts DEF EligibleIntervals
  <2> QED  BY <2>1, EligibleFacts
<1> QED  BY <1>1, <1>2, <1>3

(* The next lock is the first one missing.                                    *)
LEMMA NextLockIsFirst ==
  ASSUME NEW w \in Workers, NEW s \in NextLocks(w)
  PROVE  \E n \in DOMAIN Series :
           /\ s = Series[n] /\ s \in worker[w].scope \ worker[w].locks
           /\ \A m \in DOMAIN Series :
                Series[m] \in worker[w].scope \ worker[w].locks => n <= m
<1> DEFINE left == {n \in DOMAIN Series : Series[n] \in worker[w].scope \ worker[w].locks}
<1>1. left # {} /\ s = Series[Min(left)]
  BY DEF NextLocks
<1>2. left \subseteq Nat
  BY LiveAssumption
<1>3. Min(left) \in left /\ \A n \in left : Min(left) <= n
  <2> HIDE DEF left
  <2> QED  BY <1>1, <1>2, MinIsLeast
<1> QED  BY <1>1, <1>3

LEMMA BeginStateKeepsTypeInv ==
  ASSUME TypeInv, NEW w \in Workers, NEW cutoff \in 1 .. MaxTime,
         NEW scope \in SUBSET (Range(Series) \ Base), BeginState(w, cutoff, scope)
  PROVE  TypeInv'
<1> DEFINE p == Locking(cutoff, scope \cup Base, {})
<1>1. /\ worker' = [worker EXCEPT ![w] = p]
      /\ UNCHANGED <<clock, back, candle, obs, runs, tech, cites, research, snaps,
                     registered, evals, sims, refused>>
  BY DEF BeginState, ledger, strategy
<1>2. /\ p.pc = "locking" /\ p.cutoff = cutoff /\ p.scope = scope \cup Base /\ p.locks = {}
  BY DEF Locking
<1> HIDE DEF p
<1>3. DOMAIN worker = Workers
  BY DEF TypeInv, TypeOK
<1>4. /\ worker'[w] = p /\ DOMAIN worker' = Workers
      /\ \A v \in Workers : v # w => worker'[v] = worker[v]
  BY <1>1, <1>3, WorkerMoves
<1>5. TypeOK'
  BY <1>1, <1>4 DEF TypeInv, TypeOK
<1>6. UNCHANGED <<ledger, cites>> /\ snaps \subseteq snaps' /\ evals' \subseteq Seq(snaps')
  BY <1>1 DEF ledger, TypeInv
<1>7. cutoff \in Times /\ scope \cup Base \subseteq Range(Series)
  BY LiveAssumption DEF Times
<1>8. LocksInOrder(w)'
  BY <1>2, <1>4, <1>7 DEF LocksInOrder
<1>9. PlanIsCurrent(w)' /\ WorkIsTyped(w)' /\ Holds(w)' = {}
  BY <1>2, <1>4 DEF PlanIsCurrent, WorkIsTyped, Holds
<1> QED  BY <1>4, <1>5, <1>6, <1>8, <1>9, MoveKeepsTypeInv

LEMMA LockSeriesKeepsTypeInv ==
  ASSUME TypeInv, NEW w \in Workers, NEW s \in Range(Series), LockSeries(w, s)
  PROVE  TypeInv'
<1> DEFINE q == worker[w]
           p == Locking(q.cutoff, q.scope, q.locks \cup {s})
<1>1. /\ worker' = [worker EXCEPT ![w] = p]
      /\ UNCHANGED <<clock, back, candle, obs, runs, tech, cites, research, snaps,
                     registered, evals, sims, refused>>
      /\ q.pc = "locking" /\ s \in NextLocks(w) /\ \A v \in Workers \ {w} : s \notin Holds(v)
  BY DEF LockSeries, ledger, strategy, FreeFor
<1>2. /\ p.pc = "locking" /\ p.cutoff = q.cutoff /\ p.scope = q.scope
      /\ p.locks = q.locks \cup {s}
  BY DEF Locking
<1> HIDE DEF p
<1>3. DOMAIN worker = Workers
  BY DEF TypeInv, TypeOK
<1>4. /\ worker'[w] = p /\ DOMAIN worker' = Workers
      /\ \A v \in Workers : v # w => worker'[v] = worker[v]
  BY <1>1, <1>3, WorkerMoves
<1>5. TypeOK'
  BY <1>1, <1>4 DEF TypeInv, TypeOK
<1>6. UNCHANGED <<ledger, cites>> /\ snaps \subseteq snaps' /\ evals' \subseteq Seq(snaps')
  BY <1>1 DEF ledger, TypeInv
<1>7. /\ q.cutoff \in Times /\ q.scope \subseteq Range(Series) /\ q.locks \subseteq q.scope
      /\ \A m, n \in DOMAIN Series : Series[m] \in q.locks /\ Series[n] \in q.scope \ q.locks => m < n
  BY <1>1 DEF TypeInv, LocksInOrder
<1>8. PICK k \in DOMAIN Series :
        /\ s = Series[k] /\ s \in q.scope \ q.locks
        /\ \A m \in DOMAIN Series : Series[m] \in q.scope \ q.locks => k <= m
  BY <1>1, NextLockIsFirst
<1>9. ASSUME NEW m \in DOMAIN Series, NEW n \in DOMAIN Series,
             Series[m] \in q.locks \cup {s}, Series[n] \in q.scope \ (q.locks \cup {s})
      PROVE  m < n
  <2>1. Series[n] \in q.scope \ q.locks /\ n # k
    BY <1>8, <1>9
  <2>2. CASE Series[m] \in q.locks
    BY <1>7, <2>1, <2>2
  <2>3. CASE Series[m] = s
    <3>1. m = k
      BY <1>8, <2>3, LiveAssumption DEF IsInjective
    <3>2. k <= n
      BY <1>8, <2>1
    <3>3. k \in Nat /\ n \in Nat
      BY LiveAssumption
    <3> QED  BY <2>1, <3>1, <3>2, <3>3
  <2> QED  BY <1>9, <2>2, <2>3
<1>10. LocksInOrder(w)'
  BY <1>2, <1>4, <1>7, <1>8, <1>9 DEF LocksInOrder
<1>11. PlanIsCurrent(w)' /\ WorkIsTyped(w)' /\ Holds(w)' = q.locks \cup {s}
  BY <1>2, <1>4 DEF PlanIsCurrent, WorkIsTyped, Holds
<1>12. Holds(w) = q.locks
  BY <1>1 DEF Holds
<1>13. \A v \in Workers : v # w => Holds(w)' \cap Holds(v) = {}
  BY <1>1, <1>11, <1>12 DEF TypeInv, LocksAreExclusive
<1> QED  BY <1>4, <1>5, <1>6, <1>10, <1>11, <1>13, MoveKeepsTypeInv

LEMMA ReadInputsKeepsTypeInv ==
  ASSUME TypeInv, NEW w \in Workers, ReadInputs(w)
  PROVE  TypeInv'
<1> DEFINE q == worker[w]
<1>1. /\ worker' = [worker EXCEPT ![w] = IF q.cutoff > clock THEN Idle ELSE Built(q)]
      /\ UNCHANGED <<clock, back, candle, obs, runs, tech, cites, research, snaps,
                     registered, evals, sims, refused>>
      /\ q.pc = "locking"
  BY DEF ReadInputs, ledger, strategy
<1>2. DOMAIN worker = Workers
  BY DEF TypeInv, TypeOK
<1>3. /\ worker'[w] = IF q.cutoff > clock THEN Idle ELSE Built(q)
      /\ DOMAIN worker' = Workers
      /\ \A v \in Workers : v # w => worker'[v] = worker[v]
  BY <1>1, <1>2, WorkerMoves
<1>4. TypeOK'
  BY <1>1, <1>3 DEF TypeInv, TypeOK
<1>5. UNCHANGED <<ledger, cites>> /\ snaps \subseteq snaps' /\ evals' \subseteq Seq(snaps')
  BY <1>1 DEF ledger, TypeInv
<1>6. CASE q.cutoff > clock
  BY <1>3, <1>4, <1>5, <1>6, IdleIsSound, MoveKeepsTypeInv
<1>7. CASE ~(q.cutoff > clock)
  <2>1. worker'[w] = Built(q)
    BY <1>3, <1>7
  <2>2. worker'[w].pc = "built" /\ worker'[w].locks = q.locks /\ worker'[w].snapshot = SnapshotOf(q)
    BY <2>1 DEF Built
  <2>3. q.cutoff \in Times /\ q.scope \subseteq Range(Series)
    BY <1>1 DEF TypeInv, LocksInOrder
  <2>4. BuildInputManifest(q.scope, q.cutoff) \subseteq Intervals \X Nat
    BY ManifestFacts
  <2>5. FreezeResearch(q.cutoff) \subseteq Research
    BY DEF FreezeResearch
  <2>6. SnapshotOf(q) \in Snapshot
    BY <2>3, <2>4, <2>5 DEF SnapshotOf, Snapshot
  <2>7. WorkIsTyped(w)'
    BY <2>2, <2>6 DEF WorkIsTyped
  <2>8. PlanIsCurrent(w)' /\ LocksInOrder(w)' /\ Holds(w)' = q.locks /\ Holds(w) = q.locks
    BY <1>1, <2>2 DEF PlanIsCurrent, LocksInOrder, Holds
  <2>9. \A v \in Workers : v # w => Holds(w)' \cap Holds(v) = {}
    BY <2>8 DEF TypeInv, LocksAreExclusive
  <2> QED  BY <1>3, <1>4, <1>5, <2>7, <2>8, <2>9, MoveKeepsTypeInv
<1> QED  BY <1>6, <1>7

LEMMA PersistSnapshotKeepsTypeInv ==
  ASSUME TypeInv, NEW w \in Workers, PersistSnapshot(w)
  PROVE  TypeInv'
<1> DEFINE n == worker[w].snapshot
<1>1. CASE \E why \in SUBSET Reasons : Abandon(w, why)
  BY <1>1, AbandonKeepsTypeInv
<1>2. CASE /\ snaps' = snaps \cup {n}
           /\ worker' = [worker EXCEPT ![w] = Idle]
           /\ UNCHANGED <<clock, back, ledger, cites, research, strategy, refused>>
  <2>1. UNCHANGED <<clock, back, candle, obs, runs, tech, cites, research, registered,
                    evals, sims, refused>>
    BY <1>2 DEF ledger, strategy
  <2>2. DOMAIN worker = Workers
    BY DEF TypeInv, TypeOK
  <2>3. /\ worker'[w] = Idle /\ DOMAIN worker' = Workers
        /\ \A v \in Workers : v # w => worker'[v] = worker[v]
    BY <1>2, <2>2, WorkerMoves
  <2>4. n \in Snapshot
    BY DEF PersistSnapshot, TypeInv, WorkIsTyped
  <2>5. TypeOK'
    <3>1. snaps' \subseteq Snapshot /\ snaps \subseteq snaps'
      BY <1>2, <2>4 DEF TypeInv, TypeOK
    <3>2. sims' \subseteq [decision : snaps', outcome : snaps']
      BY <2>1, <3>1 DEF TypeInv, TypeOK
    <3> QED  BY <2>1, <2>3, <3>1, <3>2 DEF TypeInv, TypeOK
  <2>6. UNCHANGED <<ledger, cites>> /\ snaps \subseteq snaps'
    BY <1>2
  <2>7. evals' \subseteq Seq(snaps')
    BY <2>1, <2>6 DEF TypeInv
  <2> QED  BY <2>3, <2>5, <2>6, <2>7, IdleIsSound, MoveKeepsTypeInv
<1>3. {} \in SUBSET Reasons /\ {"chronology"} \in SUBSET Reasons /\ {"manifest"} \in SUBSET Reasons
  BY DEF Reasons
<1> QED  BY <1>1, <1>2, <1>3 DEF PersistSnapshot

(* Strategy records.                                                          *)
LEMMA CalculateKeepsTypeInv ==
  ASSUME TypeInv, NEW n \in snaps, NEW previous \in evals \cup {<<>>}, Calculate(n, previous)
  PROVE  TypeInv'
<1>1. /\ UNCHANGED <<clock, back, candle, obs, runs, tech, cites, research, snaps, sims,
                     worker, refused>>
      /\ evals' = evals \cup {Append(previous, n)}
      /\ registered' = clock \/ registered' = registered
  BY DEF Calculate, ledger
<1>2. previous \in Seq(snaps)
  <2>1. CASE previous \in evals
    BY <2>1 DEF TypeInv
  <2>2. CASE previous = <<>>
    BY <2>2, EmptySeq
  <2> QED  BY <2>1, <2>2
<1>3. PICK e : e = Append(previous, n)
  OBVIOUS
<1>4. e \in Seq(snaps) /\ Len(e) = Len(previous) + 1 /\ Len(previous) \in Nat
  BY <1>2, <1>3, AppendProperties, LenProperties
<1>5. e # <<>> /\ Range(e) \subseteq snaps
  BY <1>4 DEF Range
<1>6. TypeOK'
  BY <1>1, <1>3, <1>5 DEF TypeInv, TypeOK
<1>7. UNCHANGED <<ledger, worker, cites>> /\ snaps \subseteq snaps' /\ evals' \subseteq Seq(snaps')
  BY <1>1, <1>3, <1>4 DEF ledger, TypeInv
<1> QED  BY <1>6, <1>7, StayKeepsTypeInv

(* The last snapshot of an evaluation is one.                                 *)
LEMMA LastOfChain ==
  ASSUME TypeInv, NEW e \in evals
  PROVE  Last(e) \in snaps
<1>1. e \in Seq(snaps) /\ e # <<>>
  BY DEF TypeInv, TypeOK
<1>2. Len(e) \in 1 .. Len(e)
  BY <1>1, LenProperties, EmptySeq
<1> QED  BY <1>1, <1>2, ElementOfSeq DEF Last

LEMMA BeginSimulationKeepsTypeInv ==
  ASSUME TypeInv, NEW w \in Workers, NEW e \in evals, NEW o \in snaps, BeginSimulation(w, e, o)
  PROVE  TypeInv'
<1> DEFINE p == Simulating(Last(e), o)
<1>1. /\ worker' = [worker EXCEPT ![w] = p]
      /\ UNCHANGED <<clock, back, candle, obs, runs, tech, cites, research, snaps,
                     registered, evals, sims, refused>>
  BY DEF BeginSimulation, ledger, strategy
<1>2. /\ p.pc = "simulating" /\ p.decision = Last(e) /\ p.outcome = o /\ p.locks = {}
  BY DEF Simulating
<1> HIDE DEF p
<1>3. DOMAIN worker = Workers
  BY DEF TypeInv, TypeOK
<1>4. /\ worker'[w] = p /\ DOMAIN worker' = Workers
      /\ \A v \in Workers : v # w => worker'[v] = worker[v]
  BY <1>1, <1>3, WorkerMoves
<1>5. TypeOK'
  BY <1>1, <1>4 DEF TypeInv, TypeOK
<1>6. UNCHANGED <<ledger, cites>> /\ snaps \subseteq snaps' /\ evals' \subseteq Seq(snaps')
  BY <1>1 DEF ledger, TypeInv
<1>7. Last(e) \in snaps'
  BY <1>1, LastOfChain
<1>8. PlanIsCurrent(w)' /\ LocksInOrder(w)' /\ WorkIsTyped(w)' /\ Holds(w)' = {}
  BY <1>1, <1>2, <1>4, <1>7 DEF PlanIsCurrent, LocksInOrder, WorkIsTyped, Holds
<1> QED  BY <1>4, <1>5, <1>6, <1>8, MoveKeepsTypeInv

LEMMA InsertSimulationKeepsTypeInv ==
  ASSUME TypeInv, NEW w \in Workers, InsertSimulation(w)
  PROVE  TypeInv'
<1>1. CASE Abandon(w, {"attempt"})
  BY <1>1, AbandonKeepsTypeInv DEF Reasons
<1>2. CASE /\ sims' = sims \cup {[decision |-> worker[w].decision, outcome |-> worker[w].outcome]}
           /\ worker' = [worker EXCEPT ![w] = Idle]
           /\ UNCHANGED <<clock, back, ledger, cites, research, snaps, registered, evals, refused>>
  <2>1. UNCHANGED <<clock, back, candle, obs, runs, tech, cites, research, snaps, registered,
                    evals, refused>>
    BY <1>2 DEF ledger
  <2>2. DOMAIN worker = Workers
    BY DEF TypeInv, TypeOK
  <2>3. /\ worker'[w] = Idle /\ DOMAIN worker' = Workers
        /\ \A v \in Workers : v # w => worker'[v] = worker[v]
    BY <1>2, <2>2, WorkerMoves
  <2>4. worker[w].decision \in snaps /\ worker[w].outcome \in snaps
    BY DEF InsertSimulation, TypeInv, WorkIsTyped
  <2>5. sims' \subseteq [decision : snaps', outcome : snaps']
    BY <1>2, <2>1, <2>4 DEF TypeInv, TypeOK
  <2>6. TypeOK'
    BY <2>1, <2>3, <2>5 DEF TypeInv, TypeOK
  <2>7. UNCHANGED <<ledger, cites>> /\ snaps \subseteq snaps' /\ evals' \subseteq Seq(snaps')
    BY <2>1 DEF ledger, TypeInv
  <2> QED  BY <2>3, <2>6, <2>7, IdleIsSound, MoveKeepsTypeInv
<1> QED  BY <1>1, <1>2 DEF InsertSimulation

(* The environment.                                                           *)
LEMMA ClockKeepsTypeInv ==
  ASSUME TypeInv, Tick \/ Correct
  PROVE  TypeInv'
<1>1. UNCHANGED <<candle, obs, runs, tech, cites, research, snaps, registered, evals, sims,
                  worker, refused>>
  BY DEF Tick, Correct, ledger, strategy
<1>2. MaxTime \in Nat /\ MaxBack \in Nat /\ clock \in 0 .. MaxTime /\ back \in 0 .. MaxBack
  BY LiveAssumption DEF TypeInv, TypeOK, Times
<1>3. clock' \in Times /\ back' \in 0 .. MaxBack
  BY <1>2 DEF Tick, Correct, Times
<1>4. TypeOK'
  BY <1>1, <1>3 DEF TypeInv, TypeOK
<1>5. UNCHANGED <<ledger, worker, cites>> /\ snaps \subseteq snaps' /\ evals' \subseteq Seq(snaps')
  BY <1>1 DEF ledger, TypeInv
<1> QED  BY <1>4, <1>5, StayKeepsTypeInv

LEMMA CiteKeepsTypeInv ==
  ASSUME TypeInv, NEW i \in Intervals, NEW k \in RefKinds, Cite(i, k)
  PROVE  TypeInv'
<1>1. /\ UNCHANGED <<clock, back, candle, obs, runs, tech, research, snaps, registered, evals,
                     sims, worker, refused>>
      /\ cites' = [cites EXCEPT ![i] = @ \cup {k}]
      /\ RowFree(i)
  BY DEF Cite, ledger, strategy
<1>2. cites \in [Intervals -> SUBSET RefKinds]
  BY DEF TypeInv, TypeOK
<1>3. cites' \in [Intervals -> SUBSET RefKinds] /\ \A j \in Intervals : j # i => cites'[j] = cites[j]
  BY <1>1, <1>2
<1>4. TypeOK'
  BY <1>1, <1>3 DEF TypeInv, TypeOK
<1>5. ASSUME NEW v \in Workers, NEW j \in RowLocks(v)
      PROVE  cites'[j] = cites[j]
  <2>1. worker[v].pc = "planned"
    BY <1>5 DEF RowLocks
  <2>2. PICK o \in Offers, at \in Times : worker[v] = PlanOf(o, at)
    BY <2>1 DEF TypeInv, PlanIsCurrent
  <2>3. j \in LockedRows(o)
    BY <1>5, <2>2, PlanHolds
  <2>4. j \in Intervals
    BY <2>3, OfferFacts, PlanFacts, IntervalFacts DEF LockedRows
  <2>5. j # i
    BY <1>1, <1>5 DEF RowFree
  <2> QED  BY <1>3, <2>4, <2>5
<1>6. UNCHANGED <<ledger, worker>> /\ snaps \subseteq snaps' /\ evals' \subseteq Seq(snaps')
  BY <1>1 DEF ledger, TypeInv
<1> QED  BY <1>4, <1>5, <1>6, StayKeepsTypeInv

LEMMA StoreResearchKeepsTypeInv ==
  ASSUME TypeInv, NEW r \in Research, NEW fetched \in 1 .. MaxTime, StoreResearch(r, fetched)
  PROVE  TypeInv'
<1>1. UNCHANGED <<clock, back, candle, obs, runs, tech, cites, snaps, registered, evals, sims,
                  worker, refused>>
  BY DEF StoreResearch, ledger, strategy
<1>2. TypeOK'
  BY <1>1 DEF TypeInv, TypeOK
<1>3. UNCHANGED <<ledger, worker, cites>> /\ snaps \subseteq snaps' /\ evals' \subseteq Seq(snaps')
  BY <1>1 DEF ledger, TypeInv
<1> QED  BY <1>2, <1>3, StayKeepsTypeInv

LEMMA InitTypeInv == Init => TypeInv
<1> SUFFICES ASSUME Init PROVE TypeInv
  OBVIOUS
<1>1. 1 \in Times /\ 0 \in Times /\ 0 \in 0 .. MaxBack
  BY LiveAssumption DEF Times
<1>2. TypeOK
  <2>1. runs \in Seq(Batches)
    BY EmptySeq DEF Init
  <2> QED  BY <1>1, <2>1 DEF Init, TypeOK
<1>3. ASSUME NEW w \in Workers
      PROVE  PlanIsCurrent(w) /\ LocksInOrder(w) /\ WorkIsTyped(w) /\ Holds(w) = {}
  <2>1. worker[w].pc = "idle"
    BY DEF Init, Idle
  <2> QED  BY <2>1 DEF PlanIsCurrent, LocksInOrder, WorkIsTyped, Holds
<1>4. LocksAreExclusive
  BY <1>3 DEF LocksAreExclusive
<1>5. ChainsAreBounded
  <2>1. \A i \in Intervals : obs[i] = {}
    BY DEF Init
  <2>2. 0 \in Nat
    OBVIOUS
  <2> QED  BY <2>1, <2>2 DEF ChainsAreBounded
<1>6. RowsAreHonest
  <2> SUFFICES ASSUME NEW i \in Intervals, Stored(i)
               PROVE  candle[i].source = Fixture <=> candle[i].provenance = "fixture"
    BY DEF RowsAreHonest, Init
  <2>1. candle[i] = LegacyRow
    BY DEF Init, Stored
  <2>2. LegacyRow.source \in Providers /\ LegacyRow.provenance = "legacy"
    <3>1. (CHOOSE p \in Providers : TRUE) \in Providers
      BY LiveAssumption
    <3> QED  BY <3>1 DEF LegacyRow
  <2> QED  BY <2>1, <2>2, LiveAssumption
<1>7. evals \subseteq Seq(snaps)
  BY DEF Init
<1> QED  BY <1>2, <1>3, <1>4, <1>5, <1>6, <1>7 DEF TypeInv

LEMMA NextTypeInv == TypeInv /\ [Next]_vars => TypeInv'
<1> SUFFICES ASSUME TypeInv, [Next]_vars PROVE TypeInv'
  OBVIOUS
<1>1. CASE Tick \/ Correct
  BY <1>1, ClockKeepsTypeInv
<1>2. ASSUME NEW i \in Intervals, NEW k \in RefKinds, Cite(i, k) PROVE TypeInv'
  BY <1>2, CiteKeepsTypeInv
<1>3. ASSUME NEW r \in Research, NEW fetched \in 1 .. MaxTime, StoreResearch(r, fetched)
      PROVE  TypeInv'
  BY <1>3, StoreResearchKeepsTypeInv
<1>4. ASSUME NEW n \in snaps, NEW previous \in evals \cup {<<>>}, Calculate(n, previous)
      PROVE  TypeInv'
  BY <1>4, CalculateKeepsTypeInv
<1>5. ASSUME NEW w \in Workers, NEW o \in Offers, Plan(w, o) PROVE TypeInv'
  BY <1>5, PlanKeepsTypeInv
<1>6. ASSUME NEW w \in Workers, Store(w) PROVE TypeInv'
  <2>1. {"chronology", "mirror"} \subseteq Reasons
    BY DEF Reasons
  <2>2. \A why \in SUBSET {"chronology", "mirror"} : why \subseteq Reasons
    BY <2>1
  <2> QED  BY <1>6, <2>2, StoreCommitsOrGivesUp, AbandonKeepsTypeInv, CommitKeepsTypeInv
<1>7. ASSUME NEW w \in Workers, NEW cutoff \in 1 .. MaxTime,
             NEW scope \in SUBSET (Range(Series) \ Base), BeginState(w, cutoff, scope)
      PROVE  TypeInv'
  BY <1>7, BeginStateKeepsTypeInv
<1>8. ASSUME NEW w \in Workers, NEW s \in Range(Series), LockSeries(w, s) PROVE TypeInv'
  BY <1>8, LockSeriesKeepsTypeInv
<1>9. ASSUME NEW w \in Workers, ReadInputs(w) PROVE TypeInv'
  BY <1>9, ReadInputsKeepsTypeInv
<1>10. ASSUME NEW w \in Workers, PersistSnapshot(w) PROVE TypeInv'
  BY <1>10, PersistSnapshotKeepsTypeInv
<1>11. ASSUME NEW w \in Workers, NEW e \in evals, NEW o \in snaps, BeginSimulation(w, e, o)
       PROVE  TypeInv'
  BY <1>11, BeginSimulationKeepsTypeInv
<1>12. ASSUME NEW w \in Workers, InsertSimulation(w) PROVE TypeInv'
  BY <1>12, InsertSimulationKeepsTypeInv
<1>13. CASE UNCHANGED vars
  <2>1. UNCHANGED <<clock, back, candle, obs, runs, tech, cites, research, snaps, registered,
                    evals, sims, worker, refused>>
    BY <1>13 DEF vars
  <2>2. TypeOK'
    BY <2>1 DEF TypeInv, TypeOK
  <2>3. UNCHANGED <<ledger, worker, cites>> /\ snaps \subseteq snaps' /\ evals' \subseteq Seq(snaps')
    BY <2>1 DEF ledger, TypeInv
  <2> QED  BY <2>2, <2>3, StayKeepsTypeInv
<1> QED  BY <1>1, <1>2, <1>3, <1>4, <1>5, <1>6, <1>7, <1>8, <1>9, <1>10, <1>11, <1>12, <1>13
         DEF Next

(* The records keep their types, a plan stays what planning again would give  *)
(* until it is committed, and no two transactions hold one series.            *)
THEOREM TypeCorrect == Spec => []TypeInv
BY InitTypeInv, NextTypeInv, PTL DEF Spec

-----------------------------------------------------------------------------
(* A commit comes after every cutoff.                                         *)

(* The ledger changes by commits only.                                        *)
LEMMA LedgerSteps ==
  ASSUME TypeInv, [Next]_vars
  PROVE  \/ UNCHANGED ledger
         \/ \E w \in Workers, o \in Offers, at \in Times : Commit(w, o, at)
<1>1. ASSUME NEW w \in Workers, NEW o \in Offers, Plan(w, o) PROVE UNCHANGED ledger
  BY <1>1 DEF Plan, Abandon
<1>2. ASSUME NEW w \in Workers, Store(w)
      PROVE  \/ UNCHANGED ledger
             \/ \E o \in Offers, at \in Times : Commit(w, o, at)
  <2>1. \A why : Abandon(w, why) => UNCHANGED ledger
    BY DEF Abandon
  <2> QED  BY <1>2, <2>1, StoreCommitsOrGivesUp
<1>3. ASSUME NEW w \in Workers, PersistSnapshot(w) PROVE UNCHANGED ledger
  BY <1>3 DEF PersistSnapshot, Abandon
<1>4. ASSUME NEW w \in Workers, InsertSimulation(w) PROVE UNCHANGED ledger
  BY <1>4 DEF InsertSimulation, Abandon
<1>5. ASSUME NEW w \in Workers, NEW cutoff, NEW scope, BeginState(w, cutoff, scope)
      PROVE  UNCHANGED ledger
  BY <1>5 DEF BeginState
<1>6. ASSUME NEW w \in Workers, \/ \E s \in Range(Series) : LockSeries(w, s)
                               \/ ReadInputs(w)
                               \/ \E e \in evals, o \in snaps : BeginSimulation(w, e, o)
      PROVE  UNCHANGED ledger
  BY <1>6 DEF LockSeries, ReadInputs, BeginSimulation
<1>7. ASSUME \/ Tick \/ Correct
             \/ \E i \in Intervals, k \in RefKinds : Cite(i, k)
             \/ \E r \in Research, fetched \in 1 .. MaxTime : StoreResearch(r, fetched)
             \/ \E n \in snaps, previous \in evals \cup {<<>>} : Calculate(n, previous)
      PROVE  UNCHANGED ledger
  BY <1>7 DEF Tick, Correct, Cite, StoreResearch, Calculate
<1>8. CASE UNCHANGED vars
  BY <1>8 DEF vars, ledger
<1> QED  BY <1>1, <1>2, <1>3, <1>4, <1>5, <1>6, <1>7, <1>8 DEF Next

(* A new snapshot replays when it is stored.                                  *)
LEMMA NewSnapshots ==
  ASSUME TypeInv, [Next]_vars
  PROVE  \/ snaps' = snaps
         \/ UNCHANGED ledger /\ \E n : CandlesReplay(n) /\ snaps' = snaps \cup {n}
<1>1. ASSUME NEW w \in Workers, NEW o \in Offers, Plan(w, o) PROVE snaps' = snaps
  BY <1>1 DEF Plan, Abandon
<1>2. ASSUME NEW w \in Workers, Store(w) PROVE snaps' = snaps
  <2>1. \A why : Abandon(w, why) => snaps' = snaps
    BY DEF Abandon
  <2>2. \A o, at : Commit(w, o, at) => snaps' = snaps
    BY DEF Commit
  <2> QED  BY <1>2, <2>1, <2>2, StoreCommitsOrGivesUp
<1>3. ASSUME NEW w \in Workers, PersistSnapshot(w)
      PROVE  \/ snaps' = snaps
             \/ UNCHANGED ledger /\ \E n : CandlesReplay(n) /\ snaps' = snaps \cup {n}
  BY <1>3 DEF PersistSnapshot, Abandon, VerifySnapshot
<1>4. ASSUME NEW w \in Workers, InsertSimulation(w) PROVE snaps' = snaps
  BY <1>4 DEF InsertSimulation, Abandon
<1>5. ASSUME NEW w \in Workers, NEW cutoff, NEW scope, BeginState(w, cutoff, scope)
      PROVE  snaps' = snaps
  BY <1>5 DEF BeginState
<1>6. ASSUME NEW w \in Workers, \/ \E s \in Range(Series) : LockSeries(w, s)
                               \/ ReadInputs(w)
                               \/ \E e \in evals, o \in snaps : BeginSimulation(w, e, o)
      PROVE  snaps' = snaps
  BY <1>6 DEF LockSeries, ReadInputs, BeginSimulation
<1>7. ASSUME \/ Tick \/ Correct
             \/ \E i \in Intervals, k \in RefKinds : Cite(i, k)
             \/ \E r \in Research, fetched \in 1 .. MaxTime : StoreResearch(r, fetched)
             \/ \E n \in snaps, previous \in evals \cup {<<>>} : Calculate(n, previous)
      PROVE  snaps' = snaps
  BY <1>7 DEF Tick, Correct, Cite, StoreResearch, Calculate
<1>8. CASE UNCHANGED vars
  BY <1>8 DEF vars
<1> QED  BY <1>1, <1>2, <1>3, <1>4, <1>5, <1>6, <1>7, <1>8 DEF Next

(* A selection depends on the observations that were known by its cutoff.     *)
LEMMA SelectionStays ==
  ASSUME NEW cutoff, \A i \in Intervals : EligibleRevisions(i, cutoff)' = EligibleRevisions(i, cutoff),
         NEW scope
  PROVE  BuildInputManifest(scope, cutoff)' = BuildInputManifest(scope, cutoff)
<1>1. ASSUME NEW s PROVE EligibleIntervals(s, cutoff)' = EligibleIntervals(s, cutoff)
  <2>1. \A i \in Of(s) : EligibleRevisions(i, cutoff)' = EligibleRevisions(i, cutoff)
    BY IntervalFacts
  <2> QED  BY <2>1 DEF EligibleIntervals
<1>2. \A s : \A i \in EligibleIntervals(s, cutoff) :
        EligibleRevisions(i, cutoff)' = EligibleRevisions(i, cutoff)
  BY IntervalFacts DEF EligibleIntervals
<1> QED  BY <1>1, <1>2 DEF BuildInputManifest

(* What a commit appends was not known by any cutoff that was used.           *)
LEMMA CommitIsUnknown ==
  ASSUME TypeInv, NEW w \in Workers, NEW o \in Offers, NEW at \in Times, Commit(w, o, at),
         NEW n \in snaps, NEW i \in Intervals
  PROVE  EligibleRevisions(i, n.cutoff)' = EligibleRevisions(i, n.cutoff)
<1>1. TypeOK /\ ChainsAreBounded
  BY DEF TypeInv
<1>2. CASE o.source = Fixture \/ i \notin NewRows(o) \cup Changes(o)
  <2>1. obs'[i] = obs[i]
    BY <1>2, CommitRows
  <2> QED  BY <2>1 DEF EligibleRevisions, KnownBy
<1>3. CASE o.source # Fixture /\ i \in NewRows(o) \cup Changes(o)
  <2> DEFINE r == Recorded(o, at, i)
  <2>1. r.recorded = RecordedAt
    BY <1>1, <1>3, RecordedFacts
  <2>2. RecordedAt \in Nat /\ RecordedAt > n.cutoff /\ n.cutoff \in Nat
    <3>1. n.cutoff \in Times
      BY <1>1 DEF TypeOK, Snapshot
    <3> QED  BY <1>1, <3>1, RecordedAfterCutoffs DEF Times
  <2>3. ~KnownBy(r, i, n.cutoff)
    BY <2>1, <2>2 DEF KnownBy
  <2>4. obs'[i] = obs[i] \cup {r}
    BY <1>3, CommitRows
  <2> HIDE DEF r
  <2>5. {p \in obs'[i] : KnownBy(p, i, n.cutoff)} = {p \in obs[i] : KnownBy(p, i, n.cutoff)}
    BY <2>3, <2>4
  <2>6. \A p : KnownBy(p, i, n.cutoff)' <=> KnownBy(p, i, n.cutoff)
    BY DEF KnownBy
  <2> QED  BY <2>5, <2>6 DEF EligibleRevisions
<1> QED  BY <1>2, <1>3

(* A snapshot replays for ever: the selection at its cutoff gives the         *)
(* revisions it froze, whatever is ingested later and however the clock is    *)
(* corrected (market_observation_recording_boundary, verify_snapshots).       *)
THEOREM SnapshotsAlwaysReplay == Spec => []SnapshotsReplay
<1>1. Init => SnapshotsReplay
  BY DEF Init, SnapshotsReplay
<1>2. TypeInv /\ SnapshotsReplay /\ [Next]_vars => SnapshotsReplay'
  <2> SUFFICES ASSUME TypeInv, SnapshotsReplay, [Next]_vars, NEW n \in snaps'
               PROVE  CandlesReplay(n)'
    BY DEF SnapshotsReplay
  <2>1. CASE UNCHANGED ledger
    <3>1. CandlesReplay(n)
      BY NewSnapshots, <2>1 DEF SnapshotsReplay
    <3>2. obs' = obs
      BY <2>1 DEF ledger
    <3>3. \A i \in Intervals : EligibleRevisions(i, n.cutoff)' = EligibleRevisions(i, n.cutoff)
      BY <3>2 DEF EligibleRevisions, KnownBy
    <3>4. BuildInputManifest(n.scope, n.cutoff)' = BuildInputManifest(n.scope, n.cutoff)
      BY <3>3, SelectionStays
    <3> QED  BY <3>1, <3>4 DEF CandlesReplay
  <2>2. ASSUME NEW w \in Workers, NEW o \in Offers, NEW at \in Times, Commit(w, o, at)
        PROVE  CandlesReplay(n)'
    <3>1. n \in snaps /\ CandlesReplay(n)
      BY <2>2 DEF Commit, SnapshotsReplay
    <3>2. \A i \in Intervals : EligibleRevisions(i, n.cutoff)' = EligibleRevisions(i, n.cutoff)
      BY <2>2, <3>1, CommitIsUnknown
    <3>3. BuildInputManifest(n.scope, n.cutoff)' = BuildInputManifest(n.scope, n.cutoff)
      BY <3>2, SelectionStays
    <3> QED  BY <3>1, <3>3 DEF CandlesReplay
  <2> QED  BY <2>1, <2>2, LedgerSteps
<1> QED  BY <1>1, <1>2, TypeCorrect, PTL DEF Spec

-----------------------------------------------------------------------------
(* The ledger is faithful.                                                    *)

(* What a provider said of a candle is a row, and not of fixtures.            *)
SaidAreStored ==
  \A n \in DOMAIN runs : runs[n].source \in Providers =>
    \A i \in DOMAIN runs[n].batch :
      i \in Intervals /\ Stored(i) /\ candle[i].provenance # "fixture"

(* Fixtures stand alone, and a calculation over fixtures has them still.      *)
RowsStandApart ==
  /\ \A s \in Range(Series) :
       (\E i \in Of(s) : Stored(i) /\ candle[i].provenance # "fixture") => FixtureRows(s) = {}
  /\ \A t \in tech : t.fixture => FixtureRows(t.series) # {}

(* A commit leaves the rows of observed and legacy candles as they are.       *)
LEMMA CommitFreezesRows ==
  ASSUME TypeInv, NEW w \in Workers, NEW o \in Offers, NEW at \in Times, Commit(w, o, at),
         NEW i \in Intervals, Stored(i), candle[i].provenance # "fixture"
  PROVE  candle'[i] = candle[i]
<1>1. i \notin FixtureRows(o.series)
  BY DEF FixtureRows
<1>2. i \notin Replaced(o.source, o.series)
  BY <1>1, PlanFacts
<1>3. i \notin NewRows(o)
  <2>1. i \in NewRows(o) => i \in Of(o.series) /\ i \notin Remaining(o.source, o.series)
    BY PlanFacts, OfferFacts
  <2> QED  BY <1>2, <2>1 DEF Remaining
<1> QED  BY <1>2, <1>3, CommitRows

(* A provider's batch and the rows it finds or makes.                         *)
LEMMA CommitStoresBatch ==
  ASSUME TypeInv, NEW w \in Workers, NEW o \in Offers, NEW at \in Times, Commit(w, o, at),
         o.source # Fixture, NEW i \in DOMAIN o.batch
  PROVE  /\ Stored(i)' /\ candle'[i].provenance # "fixture"
         /\ i \notin NewRows(o) => candle'[i] = candle[i]
<1>1. i \in Intervals
  BY OfferFacts
<1>2. CASE i \in NewRows(o)
  <2>1. candle'[i] = NewRow(o, i)
    BY <1>2, CommitRows
  <2>2. candle'[i].provenance = "observed"
    BY <2>1 DEF NewRow
  <2>3. NoRow.provenance = ""
    BY DEF NoRow
  <2>4. candle'[i] # NoRow
    BY <2>2, <2>3
  <2> QED  BY <1>2, <2>2, <2>4 DEF Stored
<1>3. CASE i \notin NewRows(o)
  <2>1. i \in Remaining(o.source, o.series)
    BY <1>3 DEF NewRows, DiscardFixtureBatch
  <2>2. Stored(i) /\ i \in Of(o.series) /\ i \notin Replaced(o.source, o.series)
    BY <2>1, PlanFacts
  <2>3. candle[i].provenance # "fixture"
    BY <2>2 DEF Replaced, FixtureRows
  <2>4. candle'[i] = candle[i]
    BY <1>1, <2>2, <2>3, CommitFreezesRows
  <2> QED  BY <2>2, <2>3, <2>4 DEF Stored
<1> QED  BY <1>2, <1>3

(* The run it records.                                                        *)
LEMMA CommitRuns ==
  ASSUME TypeInv, NEW w \in Workers, NEW o \in Offers, NEW at \in Times, Commit(w, o, at)
  PROVE  /\ Len(runs) \in Nat /\ DOMAIN runs = 1 .. Len(runs)
         /\ DOMAIN runs' = 1 .. (Len(runs) + 1)
         /\ \A n \in DOMAIN runs : runs'[n] = runs[n]
         /\ runs'[Len(runs) + 1] = [source |-> o.source, batch |-> o.batch]
<1>1. runs \in Seq(Batches)
  BY DEF TypeInv, TypeOK
<1>2. [source |-> o.source, batch |-> o.batch] \in Batches
  BY DEF Batches
<1>3. Len(runs) \in Nat /\ DOMAIN runs = 1 .. Len(runs)
  BY <1>1, LenProperties
<1>4. runs' = Append(runs, [source |-> o.source, batch |-> o.batch])
  BY DEF Commit
<1>5. /\ runs' \in Seq(Batches) /\ Len(runs') = Len(runs) + 1
      /\ \A n \in 1 .. Len(runs) : runs'[n] = runs[n]
      /\ runs'[Len(runs) + 1] = [source |-> o.source, batch |-> o.batch]
  BY <1>1, <1>2, <1>4, AppendProperties
<1> QED  BY <1>3, <1>5, LenProperties

LEMMA CommitKeepsSaid ==
  ASSUME TypeInv, SaidAreStored, NEW w \in Workers, NEW o \in Offers, NEW at \in Times,
         Commit(w, o, at)
  PROVE  SaidAreStored'
<1> SUFFICES ASSUME NEW n \in DOMAIN runs', runs'[n].source \in Providers,
                    NEW i \in DOMAIN runs'[n].batch
             PROVE  i \in Intervals /\ Stored(i)' /\ candle'[i].provenance # "fixture"
  BY DEF SaidAreStored
<1>0. PICK last \in Nat :
        /\ DOMAIN runs = 1 .. last /\ DOMAIN runs' = 1 .. (last + 1)
        /\ \A m \in DOMAIN runs : runs'[m] = runs[m]
        /\ runs'[last + 1] = [source |-> o.source, batch |-> o.batch]
  BY CommitRuns
<1>1. CASE n \in DOMAIN runs
  <2>1. i \in Intervals /\ Stored(i) /\ candle[i].provenance # "fixture"
    BY <1>0, <1>1 DEF SaidAreStored
  <2> QED  BY <2>1, CommitFreezesRows DEF Stored
<1>2. CASE n \notin DOMAIN runs
  <2>1. n = last + 1
    BY <1>0, <1>2
  <2>2. runs'[n].source = o.source /\ runs'[n].batch = o.batch
    BY <1>0, <2>1
  <2>3. o.source # Fixture /\ i \in DOMAIN o.batch
    BY <2>2, OfferFacts
  <2> QED  BY <2>3, CommitStoresBatch, OfferFacts
<1> QED  BY <1>1, <1>2

(* The last run that delivered an interval is one of them.                    *)
LEMMA LastSaid ==
  ASSUME TypeInv, NEW i, NEW p, Said(i, p) # {}
  PROVE  Max(Said(i, p)) \in Said(i, p)
<1>1. runs \in Seq(Batches)
  BY DEF TypeInv, TypeOK
<1>2. PICK last \in Nat : DOMAIN runs = 1 .. last
  BY <1>1, LenProperties
<1>3. Said(i, p) \subseteq Nat /\ \A n \in Said(i, p) : n <= last
  BY <1>2 DEF Said
<1> QED  BY <1>3, MaxIsGreatest

(* After a commit the view of each candle of the batch is what the batch says.*)
LEMMA CommitShowsBatch ==
  ASSUME TypeInv, NEW w \in Workers, NEW o \in Offers, NEW at \in Times, Commit(w, o, at),
         o.source # Fixture, NEW i \in DOMAIN o.batch
  PROVE  View(i, o.source)' = o.batch[i]
<1> DEFINE p == o.source
           r == Recorded(o, at, i)
<1>1. TypeOK /\ ChainsAreBounded /\ i \in Intervals
  BY OfferFacts DEF TypeInv
<1>2. CASE i \in NewRows(o) \cup Changes(o)
  <2>1. obs'[i] = obs[i] \cup {r} /\ r.source = p /\ r.content = o.batch[i]
    BY <1>1, <1>2, CommitRows, RecordedFacts
  <2>2. \A q \in obs[i] : q.revision \in Nat /\ ~(q.revision >= r.revision)
    <3>1. CASE i \in NewRows(o)
      BY <3>1, NewRowsHaveNoChain
    <3>2. CASE i \in Changes(o)
      <4>1. r.revision = ChainHead(i) + 1
        BY <1>1, <3>2, RecordedFacts
      <4>2. /\ ChainHead(i) \in Nat
            /\ \A q \in obs[i] : q.revision \in Nat /\ q.revision <= ChainHead(i)
        BY <1>1, HeadOfChain
      <4> HIDE DEF r
      <4> QED  BY <4>1, <4>2
    <3> QED  BY <1>2, <3>1, <3>2
  <2>3. r.revision \in Nat
    <3>1. r \in Observation
      BY <1>1, <1>2, RecordedFacts
    <3> HIDE DEF r
    <3> QED  BY <3>1 DEF Observation
  <2> HIDE DEF r
  <2>4. Own(i, p)' = {q \in obs[i] : q.source = p} \cup {r}
    BY <2>1 DEF Own
  <2>5. \A q \in Own(i, p)' : q = r \/ q \in obs[i]
    BY <2>4
  <2>6. \A q \in Own(i, p)' : r.revision >= q.revision
    BY <2>2, <2>3, <2>5
  <2>7. \A q \in Own(i, p)' : (\A x \in Own(i, p)' : q.revision >= x.revision) => q = r
    BY <2>2, <2>4, <2>5
  <2>8. LatestOwn(i, p)' = r
    BY <2>4, <2>6, <2>7 DEF LatestOwn
  <2>9. Own(i, p)' # {}
    BY <2>4
  <2> QED  BY <2>1, <2>8, <2>9 DEF View
<1>3. CASE i \notin NewRows(o) \cup Changes(o)
  <2>1. View(i, p) = o.batch[i]
    BY <1>3 DEF Changes, MatchesCurrent, DiscardFixtureBatch
  <2>2. candle'[i] = candle[i]
    BY <1>3, CommitStoresBatch
  <2>3. obs'[i] = obs[i]
    BY <1>1, <1>3, CommitRows
  <2>4. Own(i, p)' = Own(i, p)
    BY <2>3 DEF Own
  <2>5. LatestOwn(i, p)' = LatestOwn(i, p)
    BY <2>4 DEF LatestOwn
  <2> QED  BY <2>1, <2>2, <2>4, <2>5 DEF View
<1> QED  BY <1>2, <1>3

(* It changes no other view that a provider's batch gave.                     *)
LEMMA CommitKeepsViews ==
  ASSUME TypeInv, NEW w \in Workers, NEW o \in Offers, NEW at \in Times, Commit(w, o, at),
         NEW p \in Providers, NEW i \in Intervals, p # o.source \/ i \notin DOMAIN o.batch,
         Stored(i), candle[i].provenance # "fixture"
  PROVE  View(i, p)' = View(i, p)
<1>1. TypeOK /\ ChainsAreBounded
  BY DEF TypeInv
<1>2. candle'[i] = candle[i]
  BY CommitFreezesRows
<1>3. Own(i, p)' = Own(i, p)
  <2>1. CASE o.source = Fixture \/ i \notin NewRows(o) \cup Changes(o)
    BY <2>1, CommitRows DEF Own
  <2>2. CASE o.source # Fixture /\ i \in NewRows(o) \cup Changes(o)
    <3>1. i \in DOMAIN o.batch
      BY <2>2, PlanFacts
    <3>2. Recorded(o, at, i).source # p
      BY <1>1, <2>2, <3>1, RecordedFacts
    <3>3. obs'[i] = obs[i] \cup {Recorded(o, at, i)}
      BY <2>2, CommitRows
    <3> QED  BY <3>2, <3>3 DEF Own
  <2> QED  BY <2>1, <2>2
<1>4. LatestOwn(i, p)' = LatestOwn(i, p)
  BY <1>3 DEF LatestOwn
<1> QED  BY <1>2, <1>3, <1>4 DEF View

LEMMA CommitShowsLatest ==
  ASSUME TypeInv, SaidAreStored, LatestIsShown, NEW w \in Workers, NEW o \in Offers,
         NEW at \in Times, Commit(w, o, at)
  PROVE  LatestIsShown'
<1> SUFFICES ASSUME NEW i \in Intervals, NEW p \in Providers, Said(i, p)' # {}
             PROVE  View(i, p)' = runs'[Max(Said(i, p)')].batch[i]
  BY DEF LatestIsShown
<1>1. PICK last \in Nat :
        /\ DOMAIN runs = 1 .. last /\ DOMAIN runs' = 1 .. (last + 1)
        /\ \A m \in DOMAIN runs : runs'[m] = runs[m]
        /\ runs'[last + 1] = [source |-> o.source, batch |-> o.batch]
  BY CommitRuns
<1>2. runs'[last + 1].source = o.source /\ runs'[last + 1].batch = o.batch
  BY <1>1
<1>3. CASE p = o.source /\ i \in DOMAIN o.batch
  <2>1. Said(i, p)' \subseteq Nat /\ last + 1 \in Said(i, p)' /\ \A n \in Said(i, p)' : n <= last + 1
    BY <1>1, <1>2, <1>3 DEF Said
  <2>2. Max(Said(i, p)') = last + 1
    BY <2>1, MaxIs
  <2>3. o.source # Fixture
    BY <1>3, OfferFacts
  <2>4. View(i, p)' = o.batch[i]
    BY <1>3, <2>3, CommitShowsBatch
  <2> QED  BY <1>2, <2>2, <2>4
<1>4. CASE p # o.source \/ i \notin DOMAIN o.batch
  <2>1. ASSUME NEW n PROVE n \in Said(i, p)' <=> n \in Said(i, p)
    <3>1. CASE n \in DOMAIN runs
      <4>1. n \in DOMAIN runs' /\ runs'[n] = runs[n]
        BY <1>1, <3>1
      <4> QED  BY <3>1, <4>1 DEF Said
    <3>2. CASE n \notin DOMAIN runs
      <4>1. n \in DOMAIN runs' => n = last + 1
        BY <1>1, <3>2
      <4>2. n \notin Said(i, p)'
        BY <1>2, <1>4, <4>1 DEF Said
      <4> QED  BY <3>2, <4>2 DEF Said
    <3> QED  BY <3>1, <3>2
  <2>2. Said(i, p)' = Said(i, p)
    BY <2>1
  <2>3. PICK n : n = Max(Said(i, p)) /\ n \in Said(i, p)
    BY <2>2, LastSaid
  <2>4. n \in DOMAIN runs /\ runs[n].source = p /\ i \in DOMAIN runs[n].batch
    BY <2>3 DEF Said
  <2>5. Stored(i) /\ candle[i].provenance # "fixture"
    BY <2>4 DEF SaidAreStored
  <2>6. View(i, p)' = View(i, p)
    BY <1>4, <2>5, CommitKeepsViews
  <2>7. View(i, p) = runs[n].batch[i]
    BY <2>2, <2>3 DEF LatestIsShown
  <2>8. runs'[n] = runs[n]
    BY <1>1, <2>4
  <2> QED  BY <2>2, <2>3, <2>6, <2>7, <2>8
<1> QED  BY <1>3, <1>4

(* Fixtures and observed candles stay apart.                                  *)
LEMMA CommitKeepsApart ==
  ASSUME TypeInv, RowsStandApart, NEW w \in Workers, NEW o \in Offers, NEW at \in Times,
         Commit(w, o, at)
  PROVE  RowsStandApart'
<1> DEFINE s == o.series
<1>1. NoRow.provenance = ""
  BY DEF NoRow
<1>2. ASSUME NEW q, q # s
      PROVE  /\ FixtureRows(q)' = FixtureRows(q)
             /\ \A i \in Of(q) : candle'[i] = candle[i]
  BY <1>2, CommitIsLocal DEF FixtureRows
<1>3. CASE o.source # Fixture
  <2>1. Replaced(o.source, s) = FixtureRows(s)
    BY <1>3 DEF Replaced
  <2>2. FixtureRows(s)' = {}
    <3> SUFFICES ASSUME NEW i \in Of(s) PROVE candle'[i].provenance # "fixture"
      BY DEF FixtureRows
    <3>1. CASE i \in NewRows(o)
      <4>1. candle'[i] = NewRow(o, i)
        BY <3>1, CommitRows
      <4> QED  BY <1>3, <4>1 DEF NewRow
    <3>2. CASE i \notin NewRows(o) /\ i \in FixtureRows(s)
      <4>1. candle'[i] = NoRow
        BY <2>1, <3>2, CommitRows
      <4> QED  BY <1>1, <4>1
    <3>3. CASE i \notin NewRows(o) /\ i \notin FixtureRows(s)
      <4>1. candle'[i] = candle[i]
        BY <2>1, <3>3, CommitRows, IntervalFacts
      <4> QED  BY <3>3, <4>1 DEF FixtureRows
    <3> QED  BY <3>1, <3>2, <3>3
  <2>3. ASSUME NEW q \in Range(Series), NEW i \in Of(q), Stored(i)',
               candle'[i].provenance # "fixture"
        PROVE  FixtureRows(q)' = {}
    <3>1. CASE q = s
      BY <2>2, <3>1
    <3>2. CASE q # s
      <4>1. Stored(i) /\ candle[i].provenance # "fixture"
        BY <1>2, <2>3, <3>2 DEF Stored
      <4> QED  BY <1>2, <3>2, <4>1 DEF RowsStandApart
    <3> QED  BY <3>1, <3>2
  <2>4. ASSUME NEW t \in tech', t.fixture
        PROVE  FixtureRows(t.series)' # {}
    <3>1. \/ t \in KeptTechnical(FixtureRows(s), s)
          \/ t = TechnicalSnapshot(RowsAfter(PlanOf(o, at)), s)
      <4>1. PlanOf(o, at).gone = FixtureRows(s) /\ PlanOf(o, at).offer = o
        BY <2>1, PlanParts
      <4> QED  BY <2>4, <4>1 DEF Commit, TechnicalAfter
    <3>2. CASE t \in KeptTechnical(FixtureRows(s), s)
      <4>1. t \in tech /\ ~(FixtureRows(s) # {} /\ t.fixture /\ t.series = s)
        BY <3>2 DEF KeptTechnical
      <4>2. FixtureRows(t.series) # {}
        BY <2>4, <4>1 DEF RowsStandApart
      <4>3. t.series # s
        BY <2>4, <4>1, <4>2
      <4> QED  BY <1>2, <4>2, <4>3
    <3>3. CASE t = TechnicalSnapshot(RowsAfter(PlanOf(o, at)), s)
      <4>1. t = TechnicalSnapshot(candle', s)
        BY <3>3 DEF Commit
      <4>2. t.fixture = (\E i \in {j \in Of(s) : candle'[j] # NoRow} : candle'[i].provenance = "fixture")
        BY <4>1 DEF TechnicalSnapshot
      <4>3. PICK i \in Of(s) : candle'[i].provenance = "fixture"
        BY <2>4, <4>2
      <4> QED  BY <2>2, <4>3 DEF FixtureRows
    <3> QED  BY <3>1, <3>2, <3>3
  <2> QED  BY <2>3, <2>4 DEF RowsStandApart
<1>4. CASE o.source = Fixture
  <2>1. Replaced(o.source, s) = {}
    BY <1>4 DEF Replaced
  <2>2. ASSUME NEW i \in Of(s), Stored(i)
        PROVE  candle'[i] = candle[i]
    <3>1. i \in Intervals
      BY IntervalFacts
    <3>2. i \in Remaining(o.source, s)
      BY <2>1, <2>2 DEF Remaining
    <3>3. i \notin NewRows(o)
      BY <3>2, PlanFacts
    <3> QED  BY <2>1, <3>1, <3>3, CommitRows
  <2>3. ASSUME NEW i \in Of(s), ~Stored(i), Stored(i)'
        PROVE  /\ candle'[i].provenance = "fixture"
               /\ \A j \in Of(s) : Stored(j) => candle[j].provenance = "fixture"
    <3>1. i \in NewRows(o)
      <4>1. i \in Intervals /\ candle'[i] # candle[i]
        BY <2>3, IntervalFacts DEF Stored
      <4> QED  BY <2>1, <4>1, CommitRows
    <3>2. candle'[i] = NewRow(o, i)
      BY <3>1, CommitRows
    <3>3. ~DiscardFixtureBatch(o.source, s)
      BY <3>1 DEF NewRows
    <3>4. \A j \in Of(s) : Stored(j) => candle[j].source = Fixture
      BY <1>4, <3>3 DEF DiscardFixtureBatch
    <3>5. \A j \in Of(s) : Stored(j) => candle[j].provenance = "fixture"
      BY <3>4, IntervalFacts DEF TypeInv, RowsAreHonest
    <3>6. candle'[i].provenance = "fixture"
      BY <1>4, <3>2 DEF NewRow
    <3> QED  BY <3>5, <3>6
  <2>4. ASSUME NEW q \in Range(Series), NEW i \in Of(q), Stored(i)',
               candle'[i].provenance # "fixture"
        PROVE  FixtureRows(q)' = {}
    <3>1. CASE q # s
      <4>1. Stored(i) /\ candle[i].provenance # "fixture"
        BY <1>2, <2>4, <3>1 DEF Stored
      <4> QED  BY <1>2, <3>1, <4>1 DEF RowsStandApart
    <3>2. CASE q = s
      <4>1. Stored(i)
        BY <2>3, <2>4, <3>2
      <4>2. candle[i].provenance # "fixture"
        BY <2>2, <2>4, <3>2, <4>1
      <4>3. FixtureRows(s) = {}
        BY <3>2, <4>1, <4>2 DEF RowsStandApart
      <4>4. ASSUME NEW j \in Of(s) PROVE candle'[j].provenance # "fixture"
        <5>1. candle[j].provenance # "fixture"
          BY <4>3 DEF FixtureRows
        <5>2. CASE Stored(j)
          BY <2>2, <5>1, <5>2
        <5>3. CASE ~Stored(j) /\ Stored(j)'
          BY <2>3, <3>2, <4>1, <4>2, <5>3
        <5>4. CASE ~Stored(j)'
          BY <1>1, <5>4 DEF Stored
        <5> QED  BY <5>2, <5>3, <5>4
      <4> QED  BY <3>2, <4>4 DEF FixtureRows
    <3> QED  BY <3>1, <3>2
  <2>5. FixtureRows(s) \subseteq FixtureRows(s)'
    <3> SUFFICES ASSUME NEW i \in Of(s), candle[i].provenance = "fixture"
                 PROVE  candle'[i].provenance = "fixture"
      BY DEF FixtureRows
    <3>1. Stored(i)
      BY <1>1 DEF Stored
    <3> QED  BY <2>2, <3>1
  <2>6. ASSUME NEW t \in tech', t.fixture
        PROVE  FixtureRows(t.series)' # {}
    <3>1. \/ t \in tech
          \/ t = TechnicalSnapshot(RowsAfter(PlanOf(o, at)), s)
      <4>1. PlanOf(o, at).offer = o
        BY PlanParts
      <4> QED  BY <2>6, <4>1 DEF Commit, TechnicalAfter, KeptTechnical
    <3>2. CASE t \in tech
      <4>1. FixtureRows(t.series) # {}
        BY <2>6, <3>2 DEF RowsStandApart
      <4> QED  BY <1>2, <2>5, <4>1
    <3>3. CASE t = TechnicalSnapshot(RowsAfter(PlanOf(o, at)), s)
      <4>1. t = TechnicalSnapshot(candle', s)
        BY <3>3 DEF Commit
      <4>2. t.series = s
        BY <4>1 DEF TechnicalSnapshot
      <4>3. t.fixture = (\E i \in {j \in Of(s) : candle'[j] # NoRow} : candle'[i].provenance = "fixture")
        BY <4>1 DEF TechnicalSnapshot
      <4>4. PICK i \in Of(s) : candle'[i].provenance = "fixture"
        BY <2>6, <4>3
      <4> QED  BY <4>2, <4>4 DEF FixtureRows
    <3> QED  BY <3>1, <3>2, <3>3
  <2> QED  BY <2>4, <2>6 DEF RowsStandApart
<1> QED  BY <1>3, <1>4

LedgerInv == SaidAreStored /\ RowsStandApart /\ LatestIsShown

LEMMA LedgerInvHolds == Spec => [](TypeInv /\ LedgerInv)
<1>1. Init => LedgerInv
  <2> SUFFICES ASSUME Init PROVE LedgerInv
    OBVIOUS
  <2>1. runs = <<>> /\ tech = {}
    BY DEF Init
  <2>2. DOMAIN runs = {}
    BY <2>1
  <2>3. SaidAreStored
    BY <2>2 DEF SaidAreStored
  <2>4. LatestIsShown
    BY <2>2 DEF LatestIsShown, Said
  <2>5. \A i \in Intervals : candle[i].provenance # "fixture"
    <3> SUFFICES ASSUME NEW i \in Intervals PROVE candle[i].provenance # "fixture"
      OBVIOUS
    <3>1. LegacyRow.provenance = "legacy" /\ NoRow.provenance = ""
      BY DEF LegacyRow, NoRow
    <3>2. candle[i] = LegacyRow \/ candle[i] = NoRow
      BY DEF Init
    <3> QED  BY <3>1, <3>2
  <2>6. \A s : FixtureRows(s) = {}
    BY <2>5, IntervalFacts DEF FixtureRows
  <2>7. RowsStandApart
    BY <2>1, <2>6 DEF RowsStandApart
  <2> QED  BY <2>3, <2>4, <2>7 DEF LedgerInv
<1>2. TypeInv /\ LedgerInv /\ [Next]_vars => LedgerInv'
  <2> SUFFICES ASSUME TypeInv, LedgerInv, [Next]_vars PROVE LedgerInv'
    OBVIOUS
  <2>1. CASE UNCHANGED ledger
    <3>1. candle' = candle /\ obs' = obs /\ runs' = runs /\ tech' = tech
      BY <2>1 DEF ledger
    <3>2. SaidAreStored' /\ RowsStandApart'
      BY <3>1 DEF LedgerInv, SaidAreStored, RowsStandApart, Stored, FixtureRows
    <3>3. \A i, p : Said(i, p)' = Said(i, p) /\ View(i, p)' = View(i, p)
      BY <3>1 DEF Said, View, LatestOwn, Own
    <3>4. LatestIsShown'
      BY <3>1, <3>3 DEF LedgerInv, LatestIsShown
    <3> QED  BY <3>2, <3>4 DEF LedgerInv
  <2>2. ASSUME NEW w \in Workers, NEW o \in Offers, NEW at \in Times, Commit(w, o, at)
        PROVE  LedgerInv'
    BY <2>2, CommitKeepsSaid, CommitKeepsApart, CommitShowsLatest DEF LedgerInv
  <2> QED  BY <2>1, <2>2, LedgerSteps
<1> QED  BY <1>1, <1>2, TypeCorrect, PTL DEF Spec

(* The ledger shows of every provider what it said last, also when it returns *)
(* to an earlier content and other sources' views lie between, and fixtures   *)
(* and calculations over fixtures never stand beside observed candles         *)
(* (_store_live_observations).                                                *)
THEOREM LedgerStaysFaithful == Spec => []LedgerIsFaithful
<1>1. TypeInv /\ LedgerInv => LedgerIsFaithful
  <2> SUFFICES ASSUME TypeInv, LedgerInv PROVE LedgerIsFaithful
    OBVIOUS
  <2>1. FixturesNeverMix
    BY DEF LedgerInv, RowsStandApart, FixturesNeverMix
  <2> QED  BY <2>1 DEF TypeInv, LedgerInv, LedgerIsFaithful
<1> QED  BY <1>1, LedgerInvHolds, PTL

(* A candle row freezes the first content that was observed: the rows of      *)
(* observed and legacy candles never change, and observations and runs are    *)
(* only added (migrations 0028 and 0029).                                     *)
LedgerOnlyGrows ==
  [][/\ \A i \in Intervals :
          /\ Stored(i) /\ candle[i].provenance # "fixture" => candle'[i] = candle[i]
          /\ obs[i] \subseteq obs'[i]
     /\ \A n \in DOMAIN runs : n \in DOMAIN runs' /\ runs'[n] = runs[n]]_vars

THEOREM HistoryIsKept == Spec => LedgerOnlyGrows
<1>1. TypeInv /\ [Next]_vars =>
        [/\ \A i \in Intervals :
              /\ Stored(i) /\ candle[i].provenance # "fixture" => candle'[i] = candle[i]
              /\ obs[i] \subseteq obs'[i]
         /\ \A n \in DOMAIN runs : n \in DOMAIN runs' /\ runs'[n] = runs[n]]_vars
  <2> SUFFICES ASSUME TypeInv, [Next]_vars
               PROVE  /\ \A i \in Intervals :
                           /\ Stored(i) /\ candle[i].provenance # "fixture" => candle'[i] = candle[i]
                           /\ obs[i] \subseteq obs'[i]
                      /\ \A n \in DOMAIN runs : n \in DOMAIN runs' /\ runs'[n] = runs[n]
    OBVIOUS
  <2>1. CASE UNCHANGED ledger
    BY <2>1 DEF ledger
  <2>2. ASSUME NEW w \in Workers, NEW o \in Offers, NEW at \in Times, Commit(w, o, at)
        PROVE  /\ \A i \in Intervals :
                    /\ Stored(i) /\ candle[i].provenance # "fixture" => candle'[i] = candle[i]
                    /\ obs[i] \subseteq obs'[i]
               /\ \A n \in DOMAIN runs : n \in DOMAIN runs' /\ runs'[n] = runs[n]
    <3>1. \A i \in Intervals : Stored(i) /\ candle[i].provenance # "fixture" => candle'[i] = candle[i]
      BY <2>2, CommitFreezesRows
    <3>2. \A i \in Intervals : obs[i] \subseteq obs'[i]
      BY <2>2, CommitRows
    <3>3. PICK last \in Nat :
            /\ DOMAIN runs = 1 .. last /\ DOMAIN runs' = 1 .. (last + 1)
            /\ \A m \in DOMAIN runs : runs'[m] = runs[m]
      BY <2>2, CommitRuns
    <3>4. \A n \in DOMAIN runs : n \in DOMAIN runs' /\ runs'[n] = runs[n]
      BY <3>3
    <3> QED  BY <3>1, <3>2, <3>4
  <2> QED  BY <2>1, <2>2, LedgerSteps
<1> QED  BY <1>1, TypeCorrect, PTL DEF LedgerOnlyGrows, Spec

-----------------------------------------------------------------------------
(* The locks suffice.                                                         *)

(* A verified manifest is one the triggers admit.                             *)
LEMMA VerifiedIsAdmitted ==
  ASSUME TypeInv, NEW n, CandlesReplay(n)
  PROVE  ManifestAdmitted(n)
<1>1. n.manifest = BuildInputManifest(n.scope, n.cutoff)
  BY DEF CandlesReplay
<1>2. ASSUME NEW e \in n.manifest
      PROVE  e[2] = LastOf(EligibleRevisions(e[1], n.cutoff))
  <2>1. PICK s \in n.scope : \E i \in EligibleIntervals(s, n.cutoff) :
          e = <<i, Max(EligibleRevisions(i, n.cutoff))>>
    BY <1>1, ManifestFacts
  <2>2. PICK i \in EligibleIntervals(s, n.cutoff) :
          e = <<i, Max(EligibleRevisions(i, n.cutoff))>>
    BY <2>1
  <2>3. EligibleRevisions(i, n.cutoff) # {}
    BY DEF EligibleIntervals
  <2>4. e[1] = i /\ e[2] = Max(EligibleRevisions(i, n.cutoff))
    BY <2>2
  <2> QED  BY <2>3, <2>4 DEF LastOf
<1>3. ASSUME NEW s \in n.scope, NEW i \in EligibleIntervals(s, n.cutoff)
      PROVE  \E e \in n.manifest : e[1] = i
  <2>1. <<i, Max(EligibleRevisions(i, n.cutoff))>> \in n.manifest
    BY <1>1, ManifestFacts
  <2> QED  BY <2>1
<1> QED  BY <1>2, <1>3 DEF ManifestAdmitted

Expected == {"protected", "root", "chronology", "mirror"}

(* Simulations of one attempt exclude each other and those already there.     *)
SimulationsAreExclusive ==
  /\ \A w \in Workers : worker[w].pc = "simulating" =>
       worker[w].outcome.cutoff > worker[w].decision.cutoff /\ AttemptFree(worker[w].decision)
  /\ \A v, w \in Workers :
       v # w /\ worker[v].pc = "simulating" /\ worker[w].pc = "simulating" =>
         Period(worker[v].decision) # Period(worker[w].decision)

(* What a step does to simulations and refusals.                              *)
LEMMA SimulationSteps ==
  ASSUME TypeInv, SimulationsAreExclusive, [Next]_vars
  PROVE  \/ /\ sims' = sims /\ refused' \subseteq refused \cup Expected
            /\ \A v \in Workers : worker'[v].pc = "simulating" => worker'[v] = worker[v]
         \/ /\ sims' = sims /\ refused' = refused
            /\ \E w \in Workers, e \in evals, o \in snaps : BeginSimulation(w, e, o)
         \/ /\ refused' = refused
            /\ \E w \in Workers :
                 /\ worker[w].pc = "simulating"
                 /\ sims' = sims \cup {[decision |-> worker[w].decision,
                                        outcome |-> worker[w].outcome]}
                 /\ worker' = [worker EXCEPT ![w] = Idle]
<1> DEFINE Quiet == /\ sims' = sims /\ refused' \subseteq refused \cup Expected
                    /\ \A v \in Workers : worker'[v].pc = "simulating" => worker'[v] = worker[v]
<1>0. DOMAIN worker = Workers
  BY DEF TypeInv, TypeOK
<1>1. ASSUME NEW w \in Workers, NEW p, worker' = [worker EXCEPT ![w] = p], p.pc # "simulating"
      PROVE  \A v \in Workers : worker'[v].pc = "simulating" => worker'[v] = worker[v]
  BY <1>0, <1>1, WorkerMoves
<1>2. Idle.pc = "idle"
  BY DEF Idle
<1>3. ASSUME NEW w \in Workers, NEW why, why \subseteq Expected, Abandon(w, why)
      PROVE  Quiet
  <2>1. sims' = sims /\ refused' = refused \cup why /\ worker' = [worker EXCEPT ![w] = Idle]
    BY <1>3 DEF Abandon, strategy
  <2>2. \A v \in Workers : worker'[v].pc = "simulating" => worker'[v] = worker[v]
    BY <1>1, <1>2, <2>1
  <2> QED  BY <1>3, <2>1, <2>2
<1>4. ASSUME NEW w \in Workers, NEW o \in Offers, Plan(w, o) PROVE Quiet
  <2>1. CASE PlanFails(o) # {}
    <3>1. PlanFails(o) \subseteq Expected
      BY DEF PlanFails, Expected
    <3> QED  BY <1>3, <1>4, <2>1, <3>1 DEF Plan
  <2>2. CASE PlanFails(o) = {}
    <3>1. sims' = sims /\ refused' = refused /\ worker' = [worker EXCEPT ![w] = PlanOf(o, clock)]
      BY <1>4, <2>2 DEF Plan, strategy
    <3>2. PlanOf(o, clock).pc = "planned"
      BY DEF PlanOf
    <3>3. \A v \in Workers : worker'[v].pc = "simulating" => worker'[v] = worker[v]
      BY <1>1, <3>1, <3>2
    <3> QED  BY <3>1, <3>3
  <2> QED  BY <2>1, <2>2
<1>5. ASSUME NEW w \in Workers, Store(w) PROVE Quiet
  <2>1. ASSUME NEW why \in SUBSET {"chronology", "mirror"}, Abandon(w, why) PROVE Quiet
    <3>1. why \subseteq Expected
      BY DEF Expected
    <3> QED  BY <1>3, <2>1, <3>1
  <2>2. ASSUME NEW o \in Offers, NEW at \in Times, Commit(w, o, at) PROVE Quiet
    <3>1. sims' = sims /\ refused' = refused /\ worker' = [worker EXCEPT ![w] = Idle]
      BY <2>2 DEF Commit, strategy
    <3>2. \A v \in Workers : worker'[v].pc = "simulating" => worker'[v] = worker[v]
      BY <1>1, <1>2, <3>1
    <3> QED  BY <3>1, <3>2
  <2> QED  BY <1>5, <2>1, <2>2, StoreCommitsOrGivesUp
<1>6. ASSUME NEW w \in Workers, NEW cutoff, NEW scope, BeginState(w, cutoff, scope) PROVE Quiet
  <2> DEFINE p == Locking(cutoff, scope \cup Base, {})
  <2>1. sims' = sims /\ refused' = refused /\ worker' = [worker EXCEPT ![w] = p]
    BY <1>6 DEF BeginState, strategy
  <2>2. p.pc = "locking"
    BY DEF Locking
  <2> HIDE DEF p
  <2>3. \A v \in Workers : worker'[v].pc = "simulating" => worker'[v] = worker[v]
    BY <1>1, <2>1, <2>2
  <2> QED  BY <2>1, <2>3
<1>7. ASSUME NEW w \in Workers, NEW s, LockSeries(w, s) PROVE Quiet
  <2> DEFINE p == Locking(worker[w].cutoff, worker[w].scope, worker[w].locks \cup {s})
  <2>1. sims' = sims /\ refused' = refused /\ worker' = [worker EXCEPT ![w] = p]
    BY <1>7 DEF LockSeries, strategy
  <2>2. p.pc = "locking"
    BY DEF Locking
  <2> HIDE DEF p
  <2>3. \A v \in Workers : worker'[v].pc = "simulating" => worker'[v] = worker[v]
    BY <1>1, <2>1, <2>2
  <2> QED  BY <2>1, <2>3
<1>8. ASSUME NEW w \in Workers, ReadInputs(w) PROVE Quiet
  <2> DEFINE p == IF worker[w].cutoff > clock THEN Idle ELSE Built(worker[w])
  <2>1. sims' = sims /\ refused' = refused /\ worker' = [worker EXCEPT ![w] = p]
    BY <1>8 DEF ReadInputs, strategy
  <2>2. p.pc # "simulating"
    BY <1>2 DEF Built
  <2> HIDE DEF p
  <2>3. \A v \in Workers : worker'[v].pc = "simulating" => worker'[v] = worker[v]
    BY <1>1, <2>1, <2>2
  <2> QED  BY <2>1, <2>3
<1>9. ASSUME NEW w \in Workers, PersistSnapshot(w) PROVE Quiet
  <2>1. \/ Abandon(w, {})
        \/ Abandon(w, {"chronology"})
        \/ /\ snaps' = snaps \cup {worker[w].snapshot}
           /\ worker' = [worker EXCEPT ![w] = Idle]
           /\ UNCHANGED <<clock, back, ledger, cites, research, strategy, refused>>
    BY <1>9, VerifiedIsAdmitted DEF PersistSnapshot, VerifySnapshot
  <2>2. {} \subseteq Expected /\ {"chronology"} \subseteq Expected
    BY DEF Expected
  <2>3. CASE /\ worker' = [worker EXCEPT ![w] = Idle]
             /\ UNCHANGED <<clock, back, ledger, cites, research, strategy, refused>>
    <3>1. sims' = sims /\ refused' = refused
      BY <2>3 DEF strategy
    <3>2. \A v \in Workers : worker'[v].pc = "simulating" => worker'[v] = worker[v]
      BY <1>1, <1>2, <2>3
    <3> QED  BY <3>1, <3>2
  <2> QED  BY <1>3, <2>1, <2>2, <2>3
<1>10. ASSUME \/ Tick \/ Correct
              \/ \E i \in Intervals, k \in RefKinds : Cite(i, k)
              \/ \E r \in Research, fetched \in 1 .. MaxTime : StoreResearch(r, fetched)
              \/ \E n \in snaps, previous \in evals \cup {<<>>} : Calculate(n, previous)
              \/ UNCHANGED vars
       PROVE  Quiet
  BY <1>10 DEF Tick, Correct, Cite, StoreResearch, Calculate, strategy, vars
<1>11. ASSUME NEW w \in Workers, NEW e \in evals, NEW o \in snaps, BeginSimulation(w, e, o)
       PROVE  sims' = sims /\ refused' = refused
  BY <1>11 DEF BeginSimulation, strategy
<1>12. ASSUME NEW w \in Workers, InsertSimulation(w)
       PROVE  /\ refused' = refused /\ worker[w].pc = "simulating"
              /\ sims' = sims \cup {[decision |-> worker[w].decision,
                                     outcome |-> worker[w].outcome]}
              /\ worker' = [worker EXCEPT ![w] = Idle]
  BY <1>12 DEF InsertSimulation, SimulationsAreExclusive
<1> HIDE DEF Quiet
<1>13. Quiet \/ (\E w \in Workers, e \in evals, o \in snaps : BeginSimulation(w, e, o))
             \/ (\E w \in Workers : InsertSimulation(w))
  BY <1>4, <1>5, <1>6, <1>7, <1>8, <1>9, <1>10 DEF Next
<1> QED  BY <1>11, <1>12, <1>13 DEF Quiet

SimulationInv == SimulationsAreExclusive /\ BackstopsNeverFire /\ OneSimulationPerSignal

LEMMA BeginKeepsSimulations ==
  ASSUME TypeInv, SimulationInv, NEW w \in Workers, NEW e \in evals, NEW o \in snaps,
         BeginSimulation(w, e, o)
  PROVE  SimulationsAreExclusive'
<1> DEFINE p == Simulating(Last(e), o)
<1>1. /\ worker' = [worker EXCEPT ![w] = p] /\ sims' = sims
      /\ o.cutoff > Last(e).cutoff /\ AttemptFree(Last(e))
      /\ \A v \in Workers : ~LocksAttempt(v, AttemptKey(Last(e)))
  BY DEF BeginSimulation, strategy
<1>2. p.pc = "simulating" /\ p.decision = Last(e) /\ p.outcome = o
  BY DEF Simulating
<1> HIDE DEF p
<1>3. DOMAIN worker = Workers
  BY DEF TypeInv, TypeOK
<1>4. worker'[w] = p /\ \A v \in Workers : v # w => worker'[v] = worker[v]
  BY <1>1, <1>3, WorkerMoves
<1>6. \A v \in Workers : worker[v].pc = "simulating" => Period(worker[v].decision) # Period(Last(e))
  BY <1>1 DEF LocksAttempt, AttemptKey
<1>8. ASSUME NEW v \in Workers, worker'[v].pc = "simulating"
      PROVE  worker'[v].outcome.cutoff > worker'[v].decision.cutoff /\ AttemptFree(worker[v].decision)'
  <2>1. CASE v = w
    <3>1. worker'[v].decision = Last(e) /\ worker'[v].outcome = o
      BY <1>2, <1>4, <2>1
    <3> QED  BY <1>1, <3>1 DEF AttemptFree
  <2>2. CASE v # w
    <3>1. worker'[v] = worker[v]
      BY <1>4, <2>2
    <3> QED  BY <1>1, <1>8, <3>1 DEF SimulationInv, SimulationsAreExclusive, AttemptFree
  <2> QED  BY <2>1, <2>2
<1>9. ASSUME NEW u \in Workers, NEW v \in Workers, u # v, worker'[u].pc = "simulating",
             worker'[v].pc = "simulating"
      PROVE  Period(worker'[u].decision) # Period(worker'[v].decision)
  <2>1. CASE u = w
    BY <1>2, <1>4, <1>6, <1>9, <2>1
  <2>2. CASE v = w
    BY <1>2, <1>4, <1>6, <1>9, <2>2
  <2>3. CASE u # w /\ v # w
    BY <1>4, <1>9, <2>3 DEF SimulationInv, SimulationsAreExclusive
  <2> QED  BY <2>1, <2>2, <2>3
<1> QED  BY <1>8, <1>9 DEF SimulationsAreExclusive, Period

LEMMA InsertKeepsSimulations ==
  ASSUME TypeInv, SimulationInv, NEW w \in Workers, worker[w].pc = "simulating",
         sims' = sims \cup {[decision |-> worker[w].decision, outcome |-> worker[w].outcome]},
         worker' = [worker EXCEPT ![w] = Idle]
  PROVE  SimulationsAreExclusive' /\ OneSimulationPerSignal'
<1> DEFINE d == worker[w].decision
           new == [decision |-> d, outcome |-> worker[w].outcome]
<1>1. DOMAIN worker = Workers
  BY DEF TypeInv, TypeOK
<1>2. worker'[w] = Idle /\ \A v \in Workers : v # w => worker'[v] = worker[v]
  BY <1>1, WorkerMoves
<1>3. Idle.pc = "idle"
  BY DEF Idle
<1>4. sims' = sims \cup {new} /\ new.decision = d /\ new.outcome = worker[w].outcome
  OBVIOUS
<1>5. /\ worker[w].outcome.cutoff > d.cutoff
      /\ \A m \in sims : Period(m.decision) # Period(d)
  BY DEF SimulationInv, SimulationsAreExclusive, AttemptFree, AttemptKey
<1> HIDE DEF new, d
<1>6. ASSUME NEW v \in Workers, worker'[v].pc = "simulating"
      PROVE  /\ worker'[v] = worker[v]
             /\ worker'[v].outcome.cutoff > worker'[v].decision.cutoff
             /\ AttemptFree(worker[v].decision)'
  <2>1. v # w /\ worker'[v] = worker[v]
    BY <1>2, <1>3, <1>6
  <2>2. /\ worker[v].outcome.cutoff > worker[v].decision.cutoff
        /\ \A m \in sims : Period(m.decision) # Period(worker[v].decision)
        /\ Period(d) # Period(worker[v].decision)
    BY <1>6, <2>1 DEF SimulationInv, SimulationsAreExclusive, AttemptFree, AttemptKey, d
  <2>3. \A m \in sims' : Period(m.decision) # Period(worker'[v].decision)
    BY <1>4, <2>1, <2>2
  <2> QED  BY <2>1, <2>2, <2>3 DEF AttemptFree, AttemptKey, Period
<1>7. ASSUME NEW u \in Workers, NEW v \in Workers, u # v, worker'[u].pc = "simulating",
             worker'[v].pc = "simulating"
      PROVE  Period(worker'[u].decision) # Period(worker'[v].decision)
  BY <1>6, <1>7 DEF SimulationInv, SimulationsAreExclusive
<1>8. SimulationsAreExclusive'
  BY <1>6, <1>7 DEF SimulationsAreExclusive, Period
<1>9. ASSUME NEW m \in sims'
      PROVE  /\ m.outcome.cutoff > m.decision.cutoff
             /\ \A k \in sims' : Period(k.decision) = Period(m.decision) => k = m
  BY <1>4, <1>5 DEF SimulationInv, OneSimulationPerSignal
<1>10. OneSimulationPerSignal'
  BY <1>9 DEF OneSimulationPerSignal
<1> QED  BY <1>8, <1>10

LEMMA SimulationInvHolds == Spec => [](TypeInv /\ SimulationInv)
<1>1. Init => SimulationInv
  <2> SUFFICES ASSUME Init PROVE SimulationInv
    OBVIOUS
  <2>1. sims = {} /\ refused = {} /\ \A w \in Workers : worker[w].pc = "idle"
    BY DEF Init, Idle
  <2> QED  BY <2>1 DEF SimulationInv, SimulationsAreExclusive, BackstopsNeverFire,
                       OneSimulationPerSignal
<1>2. TypeInv /\ SimulationInv /\ [Next]_vars => SimulationInv'
  <2> SUFFICES ASSUME TypeInv, SimulationInv, [Next]_vars PROVE SimulationInv'
    OBVIOUS
  <2>1. CASE /\ sims' = sims /\ refused' \subseteq refused \cup Expected
             /\ \A v \in Workers : worker'[v].pc = "simulating" => worker'[v] = worker[v]
    <3>1. BackstopsNeverFire' /\ OneSimulationPerSignal'
      BY <2>1 DEF SimulationInv, BackstopsNeverFire, OneSimulationPerSignal, Expected
    <3>2. SimulationsAreExclusive'
      BY <2>1 DEF SimulationInv, SimulationsAreExclusive, AttemptFree
    <3> QED  BY <3>1, <3>2 DEF SimulationInv
  <2>2. CASE /\ sims' = sims /\ refused' = refused
             /\ \E w \in Workers, e \in evals, o \in snaps : BeginSimulation(w, e, o)
    <3>1. BackstopsNeverFire' /\ OneSimulationPerSignal'
      BY <2>2 DEF SimulationInv, BackstopsNeverFire, OneSimulationPerSignal
    <3>2. SimulationsAreExclusive'
      BY <2>2, BeginKeepsSimulations
    <3> QED  BY <3>1, <3>2 DEF SimulationInv
  <2>3. ASSUME refused' = refused, NEW w \in Workers, worker[w].pc = "simulating",
               sims' = sims \cup {[decision |-> worker[w].decision,
                                   outcome |-> worker[w].outcome]},
               worker' = [worker EXCEPT ![w] = Idle]
        PROVE  SimulationInv'
    <3>1. BackstopsNeverFire'
      BY <2>3 DEF SimulationInv, BackstopsNeverFire
    <3> QED  BY <2>3, <3>1, InsertKeepsSimulations DEF SimulationInv
  <2> QED  BY <2>1, <2>2, <2>3, SimulationSteps DEF SimulationInv
<1> QED  BY <1>1, <1>2, TypeCorrect, PTL DEF Spec

(* Locks are taken in the order of the series: of the workers that wait the   *)
(* one that waits for the last series waits for one that does not.            *)
LEMMA LockOrderExcludesCycles == TypeInv => NoLockCycle
<1> SUFFICES ASSUME TypeInv, NEW W \in (SUBSET Workers) \ {{}},
                    ~ \E w \in W : \/ WaitsFor(w) = {}
                                   \/ \E s \in WaitsFor(w) : \A v \in W \ {w} : s \notin Holds(v)
             PROVE  FALSE
  BY Zenon DEF NoLockCycle
<1>0. /\ W # {} /\ W \subseteq Workers
      /\ \A w \in W : /\ WaitsFor(w) # {}
                      /\ \A s \in WaitsFor(w) : \E v \in W \ {w} : s \in Holds(v)
  <2>1. W # {} /\ W \subseteq Workers
    OBVIOUS
  <2>2. ASSUME NEW w \in W
        PROVE  /\ WaitsFor(w) # {}
               /\ \A s \in WaitsFor(w) : \E v \in W \ {w} : s \in Holds(v)
    <3>1. ~(\/ WaitsFor(w) = {}
            \/ \E s \in WaitsFor(w) : \A v \in W \ {w} : s \notin Holds(v))
      BY Zenon
    <3> QED  BY <3>1, Zenon
  <2> QED  BY <2>1, <2>2
<1> DEFINE awaited == {n \in DOMAIN Series : \E w \in W : Series[n] \in WaitsFor(w)}
<1>1. PICK len \in Nat : DOMAIN Series = 1 .. len
  BY LiveAssumption, LenProperties
<1>2. ASSUME NEW w \in W
      PROVE  /\ worker[w].pc = "locking"
             /\ \E n \in awaited :
                  /\ Series[n] \in WaitsFor(w)
                  /\ Series[n] \in worker[w].scope \ worker[w].locks
  <2>1. worker[w].pc = "locking"
    BY <1>0 DEF WaitsFor
  <2>2. WaitsFor(w) = NextLocks(w)
    BY <2>1 DEF WaitsFor
  <2>3. PICK s \in NextLocks(w) : TRUE
    BY <1>0, <2>2
  <2>4. PICK n \in DOMAIN Series : s = Series[n] /\ s \in worker[w].scope \ worker[w].locks
    BY <1>0, <2>3, NextLockIsFirst
  <2>5. n \in awaited
    BY <2>2, <2>3, <2>4
  <2> QED  BY <2>1, <2>2, <2>4, <2>5
<1>3. awaited \subseteq Nat /\ awaited # {} /\ \A n \in awaited : n <= len
  <2>1. awaited # {}
    <3> HIDE DEF awaited
    <3> QED  BY <1>0, <1>2
  <2> QED  BY <1>1, <2>1
<1>4. PICK k : k = Max(awaited) /\ k \in awaited /\ \A n \in awaited : n <= k
  <2> HIDE DEF awaited
  <2> QED  BY <1>3, MaxIsGreatest
<1>5. PICK w \in W : Series[k] \in WaitsFor(w)
  BY <1>4
<1>6. PICK v \in W : Series[k] \in Holds(v)
  BY <1>0, <1>5
<1>7. PICK n \in awaited : Series[n] \in worker[v].scope \ worker[v].locks
  BY <1>2
<1>8. worker[v].pc = "locking" /\ Series[k] \in worker[v].locks
  BY <1>2, <1>6 DEF Holds
<1>9. k < n
  BY <1>0, <1>4, <1>7, <1>8 DEF TypeInv, LocksInOrder
<1>10. n <= k /\ n \in Nat /\ k \in Nat
  BY <1>3, <1>4
<1> QED  BY <1>9, <1>10

(* The locks suffice: no trigger finds a chain, a kind, a manifest or an      *)
(* attempt that Python decided on too early, no signal is simulated twice,    *)
(* and transactions never wait for each other in a circle.                    *)
THEOREM LocksAreEnough == Spec => []LocksSuffice
<1>1. TypeInv /\ SimulationInv => LocksSuffice
  BY LockOrderExcludesCycles DEF SimulationInv, LocksSuffice
<1> QED  BY <1>1, SimulationInvHolds, PTL
=============================================================================
