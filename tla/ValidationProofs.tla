---------------------------- MODULE ValidationProofs ----------------------------
(* Theorems about the offline validation, for any number of processes,        *)
(* strategies, instruments, chunks and days, any candles and any number of    *)
(* faults.                                                                    *)
EXTENDS Validation, FiniteSetTheorems, SequenceTheorems, WellFoundedInduction, TLAPS

-----------------------------------------------------------------------------
(* Least and greatest elements.                                               *)

LEMMA LeastExists ==
  ASSUME NEW S, S \subseteq Nat, S # {}
  PROVE  \E m \in S : \A n \in S : m <= n
<1> DEFINE R == {ss \in Nat \X Nat : ss[1] < ss[2]}
<1>1. IsWellFoundedOn(R, Nat) /\ \A x, y \in Nat : y < x => <<y, x>> \in R
  BY NatLessThanWellFounded DEF OpToRel
<1> HIDE DEF R
<1>2. PICK m \in S : \A n \in S : ~(<<n, m>> \in R)
  BY <1>1, WFMin
<1>3. ASSUME NEW n \in S PROVE m <= n
  <2>1. m \in Nat /\ n \in Nat /\ ~(n < m)
    BY <1>1, <1>2
  <2> QED  BY <2>1
<1> QED  BY <1>3

LEMMA MinIsLeast ==
  ASSUME NEW S, S \subseteq Nat, S # {}
  PROVE  Min(S) \in S /\ \A n \in S : Min(S) <= n
BY LeastExists DEF Min

LEMMA MaxIsGreatest ==
  ASSUME NEW S, S \subseteq Nat, S # {}, NEW bound \in Nat, \A x \in S : x <= bound
  PROVE  Max(S) \in S /\ \A x \in S : x <= Max(S)
<1> DEFINE T == {bound - x : x \in S}
<1>0. \A x \in S : bound - x \in Nat
  OBVIOUS
<1>1. T \subseteq Nat /\ T # {}
  BY <1>0
<1>2. PICK m \in T : \A n \in T : m <= n
  <2> HIDE DEF T
  <2> QED  BY <1>1, LeastExists
<1>3. PICK g \in S : m = bound - g
  OBVIOUS
<1>4. \A x \in S : g >= x
  <2> TAKE x \in S
  <2>1. bound - x \in T /\ x \in Nat /\ g \in Nat
    OBVIOUS
  <2>2. bound - g <= bound - x
    BY <1>2, <1>3, <2>1
  <2> QED  BY <2>1, <2>2
<1>5. Max(S) \in S /\ \A x \in S : Max(S) >= x
  BY <1>4 DEF Max
<1> QED  BY <1>5

-----------------------------------------------------------------------------
(* The digests of a chain, from the candles alone.                            *)

IsDigests(f, c, chain, m) ==
  f = [n \in 0..m |-> IF n = 0 THEN <<>>
                      ELSE Digest(replay_checkpoint(DataFor(chain, c), chain, n - 1, f[n - 1]))]

LEMMA DigestsExist ==
  ASSUME NEW c, NEW chain, NEW m \in Nat
  PROVE  \E f : IsDigests(f, c, chain, m)
<1> DEFINE Next1(d, n) == Digest(replay_checkpoint(DataFor(chain, c), chain, n - 1, d))
           Bad == {k \in Nat : ~ \E f : IsDigests(f, c, chain, k)}
<1>0. \A f, k : IsDigests(f, c, chain, k) <=> f = [n \in 0..k |-> IF n = 0 THEN <<>> ELSE Next1(f[n - 1], n)]
  BY DEF IsDigests
<1> HIDE DEF Next1
<1>1. SUFFICES ASSUME Bad # {} PROVE FALSE
  OBVIOUS
<1>2. PICK k \in Bad : \A n \in Bad : k <= n
  BY <1>1, LeastExists
<1>3. k \in Nat /\ ~ \E f : IsDigests(f, c, chain, k)
  OBVIOUS
<1>4. k # 0
  <2> DEFINE f == [n \in 0..0 |-> <<>>]
  <2>1. f = [n \in 0..0 |-> IF n = 0 THEN <<>> ELSE Next1(f[n - 1], n)]
    OBVIOUS
  <2> HIDE DEF f
  <2>2. IsDigests(f, c, chain, 0)
    BY <2>1, <1>0
  <2> QED  BY <2>2, <1>3
<1>5. k - 1 \in Nat /\ k - 1 \notin Bad
  BY <1>2, <1>3, <1>4
<1>6. PICK f : IsDigests(f, c, chain, k - 1)
  BY <1>5
<1> HIDE DEF Bad
<1> DEFINE g == [n \in 0..k |-> IF n = k THEN Next1(f[k - 1], k) ELSE f[n]]
<1>7. \A n \in 0..(k - 1) : f[n] = IF n = 0 THEN <<>> ELSE Next1(f[n - 1], n)
  BY <1>6, <1>0
<1>8. /\ g[k] = Next1(f[k - 1], k)
      /\ \A n \in 0..(k - 1) : n \in 0..k /\ n # k /\ g[n] = f[n]
  BY <1>3
<1>9. g = [n \in 0..k |-> g[n]]
  OBVIOUS
<1> HIDE DEF g
<1>10. ASSUME NEW n \in 0..k
       PROVE  g[n] = IF n = 0 THEN <<>> ELSE Next1(g[n - 1], n)
  <2>1. CASE n = k
    <3>1. k - 1 \in 0..(k - 1)
      BY <1>3, <1>5
    <3>2. g[k - 1] = f[k - 1]
      BY <3>1, <1>8
    <3> QED  BY <2>1, <3>2, <1>4, <1>8
  <2>2. CASE n = 0
    <3>1. 0 \in 0..(k - 1)
      BY <1>3, <1>5
    <3> QED  BY <2>2, <3>1, <1>7, <1>8
  <2>3. CASE n # k /\ n # 0
    <3>1. n \in 0..(k - 1) /\ n - 1 \in 0..(k - 1)
      BY <2>3, <1>3
    <3>2. g[n] = f[n] /\ g[n - 1] = f[n - 1]
      BY <3>1, <1>8
    <3>3. f[n] = Next1(f[n - 1], n)
      BY <3>1, <2>3, <1>7
    <3> QED  BY <2>3, <3>2, <3>3
  <2> QED  BY <2>1, <2>2, <2>3
<1>11. g = [n \in 0..k |-> IF n = 0 THEN <<>> ELSE Next1(g[n - 1], n)]
  BY <1>9, <1>10
<1>12. IsDigests(g, c, chain, k)
  BY <1>11, <1>0
<1> QED  BY <1>3, <1>12

\* The day that follows a digest of the chain.
TrueBody(c, chain, day) ==
  replay_checkpoint(DataFor(chain, c), chain, day, DigestsOf(c, chain)[day])

LEMMA DigestsFollow ==
  ASSUME NEW c, NEW chain
  PROVE  /\ DigestsOf(c, chain)[0] = <<>>
         /\ \A n \in 0..(EndDay - 1) : DigestsOf(c, chain)[n + 1] = Digest(TrueBody(c, chain, n))
<1> DEFINE f == DigestsOf(c, chain)
<1>1. f = CHOOSE h : IsDigests(h, c, chain, EndDay)
  BY DEF DigestsOf, IsDigests
<1>2. EndDay \in Nat
  BY ValidationAssumption
<1>3. IsDigests(f, c, chain, EndDay)
  BY <1>1, <1>2, DigestsExist, Zenon
<1> DEFINE Next1(d, n) == Digest(replay_checkpoint(DataFor(chain, c), chain, n - 1, d))
<1>4. f = [n \in 0..EndDay |-> IF n = 0 THEN <<>> ELSE Next1(f[n - 1], n)]
  BY <1>3 DEF IsDigests
<1>5. \A n : Next1(f[n], n + 1) = Digest(replay_checkpoint(DataFor(chain, c), chain, (n + 1) - 1, f[n]))
  OBVIOUS
<1>6. \A n \in Nat : (n + 1) - 1 = n
  OBVIOUS
<1>7. \A n \in Nat : Next1(f[n], n + 1) = Digest(TrueBody(c, chain, n))
  BY <1>5, <1>6 DEF TrueBody
<1> HIDE DEF f, Next1
<1>8. f[0] = <<>> /\ \A n \in 0..(EndDay - 1) : f[n + 1] = Next1(f[n], n + 1)
  <2>1. ASSUME NEW n \in 0..(EndDay - 1) PROVE f[n + 1] = Next1(f[n], n + 1)
    <3>1. n + 1 \in 0..EndDay /\ n + 1 # 0 /\ (n + 1) - 1 = n
      BY <1>2
    <3> QED  BY <3>1, <1>4
  <2> QED  BY <2>1, <1>2, <1>4
<1>9. \A n \in 0..(EndDay - 1) : n \in Nat
  BY <1>2
<1> QED  BY <1>7, <1>8, <1>9 DEF f

-----------------------------------------------------------------------------
(* The records of the state.                                                  *)

Fields == {"pc", "tries", "count", "got", "reg", "data", "proofs", "batch", "pair", "turn", "cursors",
           "chain", "day", "until", "pred", "todo", "published"}
IsProc(q) == q = [f \in Fields |-> q[f]]

IsChunk(d) ==
  d = [request |-> d.request, reg |-> d.reg, content |-> d.content, blob |-> d.blob, era |-> d.era]

ProcShape == proc = [p \in Procs |-> proc[p]] /\ \A p \in Procs : IsProc(proc[p])
CatalogShape ==
  /\ catalog = [regs |-> catalog.regs, rows |-> catalog.rows]
  /\ catalog.rows = [chain \in Chains |-> catalog.rows[chain]]
FileShape ==
  /\ store = [era |-> store.era, regs |-> store.regs, chunks |-> store.chunks]
  /\ transfer = [state |-> transfer.state, file |-> transfer.file, binding |-> transfer.binding]
Shapes == ProcShape /\ CatalogShape /\ FileShape

LEMMA IdleIsProc ==
  /\ IsProc(Idle) /\ Idle.pc = "idle" /\ Idle.data = None /\ Idle.proofs = <<>> /\ Idle.todo = <<>>
  /\ Idle.published = {} /\ Idle.batch = 1 /\ Idle.pair = 1
  /\ \A r : IsProc([Idle EXCEPT !.pc = "acquire", !.reg = r])
  /\ IsProc([Idle EXCEPT !.pc = "begin"]) /\ IsProc([Idle EXCEPT !.pc = "project"])
<1>1. IsProc(Idle) /\ Idle.pc = "idle" /\ Idle.data = None /\ Idle.proofs = <<>> /\ Idle.todo = <<>>
      /\ Idle.published = {} /\ Idle.batch = 1 /\ Idle.pair = 1
  BY DEF IsProc, Fields, Idle
<1>2. \A r : IsProc([Idle EXCEPT !.pc = "acquire", !.reg = r])
  BY DEF IsProc, Fields, Idle
<1>3. IsProc([Idle EXCEPT !.pc = "begin"])
  BY DEF IsProc, Fields, Idle
<1>4. IsProc([Idle EXCEPT !.pc = "project"])
  BY DEF IsProc, Fields, Idle
<1> QED  BY <1>1, <1>2, <1>3, <1>4

LEMMA IdleIsUntouched == [Idle EXCEPT !.proofs = @] = Idle
BY DEF Idle

\* The records that the steps make of a process.
Fetched(q, content) == [q EXCEPT !.pc = "insert", !.got = content]
Retried(q) == [q EXCEPT !.tries = @ + 1]
Inserted(q) == [q EXCEPT !.pc = "acquire", !.tries = 0, !.count = @ + 1, !.got = None]
Started(q, chain, start, until, pred, proofs, turn, data) ==
  [q EXCEPT !.pc = "run", !.chain = chain, !.day = start, !.until = until, !.pred = pred,
            !.proofs = proofs, !.turn = turn, !.data = data]
Exported(q, todo, proofs, data) ==
  [q EXCEPT !.pc = "publish", !.todo = todo, !.proofs = proofs, !.data = data]
Advanced(q, d, digest, proofs) == [q EXCEPT !.day = d, !.pred = digest, !.proofs = proofs]
TurnedOver(q, until) ==
  [q EXCEPT !.pc = "turn", !.turn = @ + 1, !.chain = <<>>, !.day = 0, !.until = 0,
            !.pred = <<>>, !.cursors[q.chain[1]] = until]
ReportDone(q, report) == [q EXCEPT !.todo = Tail(@), !.published = @ \cup {report}]
At(q, cursors) == [q EXCEPT !.pc = "turn", !.turn = 1, !.cursors = cursors]

\* q and r agree but for the fields of F.
Alike(q, r, F) == \A f \in Fields \ F : q[f] = r[f]

LEMMA AcquireRecords ==
  ASSUME NEW q, IsProc(q), NEW a
  PROVE  /\ IsProc(Fetched(q, a)) /\ Fetched(q, a).pc = "insert" /\ Fetched(q, a).got = a
         /\ Alike(Fetched(q, a), q, {"pc", "got"})
         /\ IsProc(Retried(q)) /\ Alike(Retried(q), q, {"tries"})
         /\ IsProc(Inserted(q)) /\ Inserted(q).pc = "acquire"
         /\ Alike(Inserted(q), q, {"pc", "tries", "count", "got"})
<1>1. {"pc", "tries", "count", "got"} \subseteq Fields
  BY DEF Fields
<1> HIDE DEF Fields
<1>2. DOMAIN q = Fields
  BY DEF IsProc
<1>3. IsProc(Fetched(q, a)) /\ Fetched(q, a).pc = "insert" /\ Fetched(q, a).got = a
      /\ Alike(Fetched(q, a), q, {"pc", "got"})
  BY <1>1, <1>2 DEF IsProc, Fetched, Alike
<1>4. IsProc(Retried(q)) /\ Alike(Retried(q), q, {"tries"})
  BY <1>1, <1>2 DEF IsProc, Retried, Alike
<1>5. IsProc(Inserted(q)) /\ Inserted(q).pc = "acquire"
      /\ Alike(Inserted(q), q, {"pc", "tries", "count", "got"})
  BY <1>1, <1>2 DEF IsProc, Inserted, Alike
<1> QED  BY <1>3, <1>4, <1>5

LEMMA RunRecords ==
  ASSUME NEW q, IsProc(q), NEW chain, NEW start, NEW until, NEW pred, NEW proofs, NEW turn, NEW data
  PROVE  LET r == Started(q, chain, start, until, pred, proofs, turn, data)
             n == Advanced(q, start, pred, proofs)
         IN /\ IsProc(r) /\ r.pc = "run" /\ r.chain = chain /\ r.day = start /\ r.until = until
            /\ r.pred = pred /\ r.proofs = proofs /\ r.turn = turn /\ r.data = data
            /\ Alike(r, q, {"pc", "chain", "day", "until", "pred", "proofs", "turn", "data"})
            /\ IsProc(n) /\ n.day = start /\ n.pred = pred /\ n.proofs = proofs
            /\ Alike(n, q, {"day", "pred", "proofs"})
<1>1. {"pc", "chain", "day", "until", "pred", "proofs", "turn", "data"} \subseteq Fields
  BY DEF Fields
<1> HIDE DEF Fields
<1>2. DOMAIN q = Fields
  BY DEF IsProc
<1> DEFINE r == Started(q, chain, start, until, pred, proofs, turn, data)
           n == Advanced(q, start, pred, proofs)
<1>3. /\ IsProc(r) /\ r.pc = "run" /\ r.chain = chain /\ r.day = start /\ r.until = until
      /\ r.pred = pred /\ r.proofs = proofs /\ r.turn = turn /\ r.data = data
      /\ Alike(r, q, {"pc", "chain", "day", "until", "pred", "proofs", "turn", "data"})
  BY <1>1, <1>2 DEF IsProc, Started, Alike
<1>4. /\ IsProc(n) /\ n.day = start /\ n.pred = pred /\ n.proofs = proofs
      /\ Alike(n, q, {"day", "pred", "proofs"})
  BY <1>1, <1>2 DEF IsProc, Advanced, Alike
<1> HIDE DEF r, n
<1>5. QED  BY <1>3, <1>4 DEF r, n

LEMMA AtRecord ==
  ASSUME NEW q, IsProc(q), NEW cursors
  PROVE  /\ IsProc(At(q, cursors)) /\ Alike(At(q, cursors), q, {"pc", "turn", "cursors"})
         /\ At(q, cursors).pc = "turn" /\ At(q, cursors).cursors = cursors
<1>1. {"pc", "turn", "cursors"} \subseteq Fields
  BY DEF Fields
<1> HIDE DEF Fields
<1>2. DOMAIN q = Fields
  BY DEF IsProc
<1> QED  BY <1>1, <1>2 DEF IsProc, Alike, At

LEMMA ReportRecord ==
  ASSUME NEW q, IsProc(q), NEW report
  PROVE  /\ IsProc(ReportDone(q, report)) /\ Alike(ReportDone(q, report), q, {"todo", "published"})
         /\ ReportDone(q, report).todo = Tail(q.todo)
         /\ ReportDone(q, report).published = q.published \cup {report}
<1>1. {"todo", "published"} \subseteq Fields
  BY DEF Fields
<1> HIDE DEF Fields
<1>2. DOMAIN q = Fields
  BY DEF IsProc
<1> QED  BY <1>1, <1>2 DEF IsProc, Alike, ReportDone

LEMMA TurnedRecord ==
  ASSUME NEW q, IsProc(q), NEW u
  PROVE  /\ IsProc(TurnedOver(q, u)) /\ Alike(TurnedOver(q, u), q, {"pc", "turn", "chain", "day", "until", "pred", "cursors"})
         /\ TurnedOver(q, u).pc = "turn"
         /\ TurnedOver(q, u).cursors = [q.cursors EXCEPT ![q.chain[1]] = u]
<1>1. {"pc", "turn", "chain", "day", "until", "pred", "cursors"} \subseteq Fields
  BY DEF Fields
<1> HIDE DEF Fields
<1>2. DOMAIN q = Fields
  BY DEF IsProc
<1> QED  BY <1>1, <1>2 DEF IsProc, Alike, TurnedOver

LEMMA IdleRecords ==
  ASSUME NEW r
  PROVE  LET a == [Idle EXCEPT !.pc = "acquire", !.reg = r]
             b == [Idle EXCEPT !.pc = "begin"]
             j == [Idle EXCEPT !.pc = "project"]
         IN /\ a.pc = "acquire" /\ a.reg = r /\ j.pc = "project"
            /\ b.pc = "begin" /\ b.batch = 1 /\ b.pair = 1 /\ b.data = None /\ b.proofs = <<>>
            /\ b.published = {} /\ b.todo = <<>>
BY DEF Idle

-----------------------------------------------------------------------------
(* The invariant: the parts that hold of every kind.                          *)

\* Each process is where its kind may be; what is not yet followed is empty.
Placed ==
  /\ kind \in {"acquisition", "worker", "manual"} /\ sources \in {"frozen", "edited"}
  /\ faults \in 0..Faults
  /\ transfer.state \in {"none", "partial", "complete"} /\ catalog.regs \subseteq {"frozen", "edited"}
  /\ sources = "edited" => "sources" \in harm
  /\ \A p \in Procs :
       /\ kind = "acquisition" => proc[p].pc \in {"idle", "acquire", "insert", "project"}
       /\ kind = "worker" => proc[p].pc \in {"idle", "begin", "turn", "run", "export", "publish"}
       /\ kind = "manual" => proc[p].pc \in {"idle", "run", "publish"}
  /\ kind = "acquisition" => files = {} /\ \A chain \in Chains : catalog.rows[chain] = <<>>

CacheRight ==
  /\ store.regs \subseteq {"v2", "frozen", "edited"}
  /\ "edited" \in store.regs => "sources" \in harm
  /\ \A d \in store.chunks :
       /\ IsChunk(d) /\ d.request \in Range(Requests) /\ d.reg \in store.regs
       /\ d.blob \in Contents \cup {1, 2}
       /\ "store" \notin harm => Intact(d)
  /\ OneChunkPerRequest

\* The requests no chunk answers.
Absent == {i \in DOMAIN Requests : \A d \in store.chunks : d.request # Requests[i]}

\* One process holds the lock, and what it inserts is still absent.
LockHeld ==
  \A p \in Procs : Is(p, "acquire") \/ Is(p, "insert") =>
    /\ \A q \in Procs : Is(q, "acquire") \/ Is(q, "insert") => q = p
    /\ proc[p].reg \in store.regs
    /\ Is(p, "insert") => Absent # {} /\ proc[p].got \in Contents \cup {1}

\* What a projection copies is complete unless it was altered meanwhile.
CopySound ==
  \A p \in Procs : Is(p, "project") /\ {"store", "sources"} \cap harm = {} =>
    metadata(store) /\ frozen # NotFrozen /\ Manifest(store) = frozen

Base ==
  Shapes /\ Placed /\ CacheRight /\ LockHeld /\ CopySound /\ SealedStaysSealed /\ RefusalsAreExplained

-----------------------------------------------------------------------------
(* The parts that hold of the catalogs, whose frozen content is c.            *)

Given(c) ==
  /\ frozen = Manifest(Complete(c))
  /\ "store" \notin harm => store = Complete(c) /\ transfer.file = Projected(Complete(c))

\* A day is computed from the content, or such a day forged.
Possible(c, chain) ==
  LET days == {TrueBody(c, chain, d) : d \in 0..(EndDay - 1)} IN days \cup {Forged(b) : b \in days}

RowsPossible(c) ==
  \A chain \in Chains :
    /\ catalog.rows[chain] \in Seq(Possible(c, chain))
    /\ \A i, j \in DOMAIN catalog.rows[chain] :
         catalog.rows[chain][i].day = catalog.rows[chain][j].day => i = j

RowsHonest(c) ==
  Untouched =>
    \A chain \in Chains :
      /\ Len(catalog.rows[chain]) <= EndDay
      /\ \A i \in 1..Len(catalog.rows[chain]) : catalog.rows[chain][i] = TrueBody(c, chain, i - 1)

\* The report of a view, and those of a strategy.
Report(c, k) == [key |-> k, bindings |-> Expected[c][k]]
Reports(c, s) == {Report(c, k) : k \in Views(s)}

ProofsRight(c, proofs) ==
  \A chain \in Chains, d \in 0..(EndDay - 1) :
    <<chain, d>> \in DOMAIN proofs => proofs[<<chain, d>>] = DigestsOf(c, chain)[d + 1]

Sound(c, q) == q.data \in {None, c} /\ ProofsRight(c, q.proofs)

Running(c, q) ==
  q.pc = "run" =>
    /\ q.chain \in Chains /\ q.day \in Nat /\ q.until \in Nat /\ q.day < q.until /\ q.until <= EndDay
    /\ q.pred = DigestsOf(c, q.chain)[q.day]
    /\ NeedsData(q.chain) => q.data = c
    /\ q.day > 0 => <<q.chain, q.day - 1>> \in DOMAIN q.proofs

Publishing(c, q) == q.pc = "publish" => q.todo \in Seq({Report(c, k) : k \in Keys})

\* Where a worker stands in its group.
Positioned(c, q) ==
  q.pc # "idle" =>
    /\ q.batch \in DOMAIN Batches
    /\ q.pc \in {"begin", "turn", "run"} => q.pair \in DOMAIN Pairs
    /\ q.pc \in {"turn", "run"} => q.cursors \in [Range(Batches[q.batch]) -> 0..EndDay]
    /\ q.pc = "run" => \E s \in Range(Batches[q.batch]) : q.chain = <<s, Pairs[q.pair]>>
    /\ q.pc \in {"export", "publish"} => q.turn \in DOMAIN Batches[q.batch]
    /\ q.pc # "publish" => q.published = {}
    /\ q.pc = "publish" => q.published \cup Range(q.todo) = Reports(c, Batches[q.batch][q.turn])

Process(k, c, q) ==
  Sound(c, q) /\ Running(c, q) /\ Publishing(c, q) /\ (k = "worker" => Positioned(c, q))

\* The catalog holds the days a process counts on.
Reached(rows, chain, n) == Len(rows[chain]) >= n
Behind(rows, k, q) ==
  /\ q.pc = "run" => Reached(rows, q.chain, q.day)
  /\ k = "worker" =>
       /\ q.pc \in {"turn", "run"} =>
            \A s \in Range(Batches[q.batch]) : Reached(rows, <<s, Pairs[q.pair]>>, q.cursors[s])
       /\ q.pc \in {"begin", "turn", "run"} =>
            \A j \in 1..(q.pair - 1), s \in Range(Batches[q.batch]) : Reached(rows, <<s, Pairs[j]>>, EndDay)
       /\ q.pc \in {"export", "publish"} =>
            \A j \in DOMAIN Pairs, s \in Range(Batches[q.batch]) : Reached(rows, <<s, Pairs[j]>>, EndDay)

ProcsRight(c) ==
  \A p \in Procs :
    Process(kind, c, proc[p]) /\ (Untouched => Behind(catalog.rows, kind, proc[p]))

IsReport(c, f) == \E k \in Keys, suffix \in {"json", "txt"} : f = File(Report(c, k), suffix)
IsMark(c, f) ==
  \E s \in Strategies :
    f = [key |-> <<s, "completed", NoBaseline>>, suffix |-> "json", reports |-> Reports(c, s)]
FilesRight(c) == \A f \in files : IsReport(c, f) \/ IsMark(c, f)

Kept(c) == Given(c) /\ RowsPossible(c) /\ RowsHonest(c) /\ ProcsRight(c) /\ FilesRight(c)

Inv == Base /\ (kind # "acquisition" => \E c \in Contents : Kept(c))

-----------------------------------------------------------------------------
(* The cache that was frozen, and what a loader gets from a file.             *)

\* The chunk of a request in a complete cache.
WholeChunk(c, r) ==
  [request |-> r, reg |-> "frozen", era |-> 0,
   content |-> IF Period[r] = "development" THEN c ELSE 1,
   blob |-> IF Period[r] = "development" THEN c ELSE 1]
Line(d) == [request |-> d.request, reg |-> d.reg, content |-> d.content, era |-> d.era]

LEMMA CompleteFacts ==
  ASSUME NEW c
  PROVE  /\ Complete(c).regs = {"frozen"}
         /\ Complete(c).chunks = {WholeChunk(c, r) : r \in Range(Requests)}
         /\ Manifest(Complete(c)) = {Line(WholeChunk(c, r)) : r \in Range(Requests)}
         /\ Projected(Complete(c)).regs = {"frozen"}
         /\ Projected(Complete(c)).chunks = {Sealed(WholeChunk(c, r)) : r \in Range(Requests)}
         /\ \A r : /\ WholeChunk(c, r).request = r /\ WholeChunk(c, r).reg = "frozen" /\ IsChunk(WholeChunk(c, r))
                   /\ Sealed(WholeChunk(c, r)).request = r
                   /\ Line(Sealed(WholeChunk(c, r))) = Line(WholeChunk(c, r))
                   /\ Intact(WholeChunk(c, r))
                   /\ Period[r] # "sealed" => Sealed(WholeChunk(c, r)) = WholeChunk(c, r)
                   /\ Period[r] = "sealed" => Sealed(WholeChunk(c, r)).blob = None
                   /\ Period[r] = "development" => WholeChunk(c, r).content = c
         /\ \A r : Line(WholeChunk(c, r)).request = r
                   /\ (Period[r] = "development" => Line(WholeChunk(c, r)).content = c)
<1>1. /\ Complete(c).regs = {"frozen"}
      /\ Complete(c).chunks = {WholeChunk(c, r) : r \in Range(Requests)}
  BY DEF Complete, WholeChunk
<1>2. Projected(Complete(c)).regs = {"frozen"}
      /\ Projected(Complete(c)).chunks = {Sealed(d) : d \in Complete(c).chunks}
  <2>1. "chunks" \in DOMAIN Complete(c) /\ "regs" \in DOMAIN Complete(c)
    BY DEF Complete
  <2> QED  BY <1>1, <2>1 DEF Projected
<1>3. Projected(Complete(c)).chunks = {Sealed(WholeChunk(c, r)) : r \in Range(Requests)}
  BY <1>1, <1>2
<1>4. Manifest(Complete(c)) = {Line(WholeChunk(c, r)) : r \in Range(Requests)}
  BY <1>1 DEF Manifest, Line
<1>5. ASSUME NEW r
      PROVE  /\ WholeChunk(c, r).request = r /\ WholeChunk(c, r).reg = "frozen" /\ IsChunk(WholeChunk(c, r))
             /\ Sealed(WholeChunk(c, r)).request = r
             /\ Line(Sealed(WholeChunk(c, r))) = Line(WholeChunk(c, r))
             /\ Intact(WholeChunk(c, r))
             /\ Period[r] # "sealed" => Sealed(WholeChunk(c, r)) = WholeChunk(c, r)
             /\ Period[r] = "sealed" => Sealed(WholeChunk(c, r)).blob = None
             /\ Period[r] = "development" => WholeChunk(c, r).content = c
             /\ Line(WholeChunk(c, r)).request = r
             /\ Period[r] = "development" => Line(WholeChunk(c, r)).content = c
  BY DEF WholeChunk, Sealed, Line, Intact, IsChunk
<1> QED  BY <1>1, <1>2, <1>3, <1>4, <1>5

LEMMA ContentIsGiven ==
  ASSUME NEW c \in Contents, frozen = Manifest(Complete(c))
  PROVE  /\ FrozenContent = c /\ frozen # NotFrozen
         /\ \A d \in frozen : Period[d.request] = "development" => d.content = c
         /\ \E d \in frozen : Period[d.request] = "development"
<1>1. PICK r \in Range(Requests) : Period[r] = "development"
  BY ValidationAssumption
<1>2. frozen = {Line(WholeChunk(c, s)) : s \in Range(Requests)}
      /\ \A s : Line(WholeChunk(c, s)).request = s
                /\ (Period[s] = "development" => Line(WholeChunk(c, s)).content = c)
  BY CompleteFacts
<1> HIDE DEF Line, WholeChunk
<1>3. \A d \in frozen : Period[d.request] = "development" => d.content = c
  BY <1>2
<1>4. Line(WholeChunk(c, r)) \in frozen /\ Period[Line(WholeChunk(c, r)).request] = "development"
  BY <1>1, <1>2
<1>5. FrozenContent = c
  BY <1>3, <1>4 DEF FrozenContent
<1> QED  BY <1>3, <1>4, <1>5 DEF NotFrozen

LEMMA LoadedIs ==
  ASSUME NEW c \in Contents, frozen = Manifest(Complete(c)), NEW f
  PROVE  Loaded(f) \in {None, c}
<1> DEFINE open == load_development(f)
<1>1. CASE ~(metadata(f) /\ Manifest(f) = frozen /\ \A d \in open : Intact(d))
  BY <1>1 DEF Loaded
<1>2. CASE metadata(f) /\ Manifest(f) = frozen /\ \A d \in open : Intact(d)
  <2>1. Loaded(f) = (CHOOSE d \in open : Period[d.request] = "development").content
    BY <1>2 DEF Loaded
  <2>2. Manifest(f) = {Line(d) : d \in f.chunks}
    BY DEF Manifest, Line
  <2>3. \A d : Line(d).request = d.request /\ Line(d).content = d.content
    BY DEF Line
  <2> HIDE DEF Line
  <2>4. \A d \in f.chunks : Period[d.request] = "development" => d.content = c
    BY <1>2, <2>2, <2>3, ContentIsGiven
  <2>5. PICK d \in f.chunks : Period[d.request] = "development"
    <3>1. PICK e \in frozen : Period[e.request] = "development"
      BY ContentIsGiven
    <3>2. PICK d \in f.chunks : e = Line(d)
      BY <1>2, <2>2, <3>1
    <3>3. e.request = d.request
      BY <2>3, <3>2
    <3> QED  BY <3>1, <3>2, <3>3
  <2>6. d \in open /\ open \subseteq f.chunks
    BY <2>5 DEF load_development
  <2> HIDE DEF open
  <2>7. (CHOOSE e \in open : Period[e.request] = "development") \in open
        /\ Period[(CHOOSE e \in open : Period[e.request] = "development").request] = "development"
    BY <2>5, <2>6
  <2> QED  BY <2>1, <2>4, <2>6, <2>7
<1> QED  BY <1>1, <1>2

\* The caches the catalogs started from load while they and the sources are
\* as they were.
LEMMA GivenLoads ==
  ASSUME NEW c \in Contents, Given(c), Placed, {"store", "sources"} \cap harm = {}
  PROVE  Loaded(DataFile) = c
<1>1. store = Complete(c) /\ transfer.file = Projected(Complete(c)) /\ frozen = Manifest(Complete(c))
  BY DEF Given
<1>2. sources = "frozen"
  BY DEF Placed
<1> DEFINE f == DataFile
<1>3. f = Complete(c) \/ f = Projected(Complete(c))
  BY <1>1 DEF DataFile
<1>4. \A r : WholeChunk(c, r).request = r /\ Sealed(WholeChunk(c, r)).request = r
  BY CompleteFacts
<1>5. /\ f.regs = {"frozen"} /\ \A d, e \in f.chunks : d.request = e.request => d = e
      /\ {d.request : d \in f.chunks} = Range(Requests)
  <2>1. PICK W : /\ f.regs = {"frozen"} /\ f.chunks = {W[r] : r \in Range(Requests)}
                 /\ \A r \in Range(Requests) : W[r].request = r
    <3>1. CASE f = Complete(c)
      <4> DEFINE W == [r \in Range(Requests) |-> WholeChunk(c, r)]
      <4>1. f.regs = {"frozen"} /\ f.chunks = {WholeChunk(c, r) : r \in Range(Requests)}
        BY <3>1, CompleteFacts
      <4>2. \A r \in Range(Requests) : W[r] = WholeChunk(c, r)
        OBVIOUS
      <4> HIDE DEF W, f
      <4> QED  BY <4>1, <4>2, <1>4
    <3>2. CASE f = Projected(Complete(c))
      <4> DEFINE W == [r \in Range(Requests) |-> Sealed(WholeChunk(c, r))]
      <4>1. f.regs = {"frozen"} /\ f.chunks = {Sealed(WholeChunk(c, r)) : r \in Range(Requests)}
        BY <3>2, CompleteFacts
      <4>2. \A r \in Range(Requests) : W[r] = Sealed(WholeChunk(c, r))
        OBVIOUS
      <4> HIDE DEF W, f
      <4> QED  BY <4>1, <4>2, <1>4
    <3> QED  BY <1>3, <3>1, <3>2
  <2>2. \A d, e \in f.chunks : d.request = e.request => d = e
    BY <2>1
  <2>3. {d.request : d \in f.chunks} = Range(Requests)
    BY <2>1
  <2> QED  BY <2>1, <2>2, <2>3
<1>6. \A d \in f.chunks : Period[d.request] # "sealed" => Intact(d)
  BY <1>3, CompleteFacts
<1>7. Manifest(f) = {Line(d) : d \in f.chunks}
  BY DEF Manifest, Line
<1>8. {Line(d) : d \in f.chunks} = frozen
  <2> HIDE DEF f
  <2>1. CASE f = Complete(c)
    BY <2>1, <1>1, <1>7
  <2>2. CASE f = Projected(Complete(c))
    <3>1. f.chunks = {Sealed(WholeChunk(c, r)) : r \in Range(Requests)}
          /\ frozen = {Line(WholeChunk(c, r)) : r \in Range(Requests)}
          /\ \A r : Line(Sealed(WholeChunk(c, r))) = Line(WholeChunk(c, r))
      BY <2>2, <1>1, CompleteFacts
    <3> HIDE DEF Sealed, Line, WholeChunk
    <3>2. {Line(d) : d \in f.chunks} = {Line(Sealed(WholeChunk(c, r))) : r \in Range(Requests)}
      BY <3>1
    <3> QED  BY <3>1, <3>2
  <2> QED  BY <1>3, <2>1, <2>2
<1>9. metadata(f)
  BY <1>2, <1>4, <1>5 DEF metadata, plan, Accepted
<1> HIDE DEF f
<1>10. Loaded(f) # None
  <2> DEFINE open == load_development(f)
  <2>1. Loaded(f) = (CHOOSE d \in open : Period[d.request] = "development").content
    BY <1>6, <1>7, <1>8, <1>9 DEF Loaded, load_development
  <2>2. \A d : Line(d).request = d.request /\ Line(d).content = d.content
    BY DEF Line
  <2> HIDE DEF Line
  <2>3. \A d \in f.chunks : Period[d.request] = "development" => d.content = c
    BY <1>1, <1>8, <2>2, ContentIsGiven
  <2>4. PICK d \in f.chunks : Period[d.request] = "development"
    BY <1>1, <1>8, <2>2, ContentIsGiven
  <2>5. d \in open /\ open \subseteq f.chunks
    BY <2>4 DEF load_development
  <2> HIDE DEF open
  <2>6. (CHOOSE e \in open : Period[e.request] = "development") \in open
        /\ Period[(CHOOSE e \in open : Period[e.request] = "development").request] = "development"
    BY <2>4, <2>5
  <2>7. Loaded(f) = c
    BY <2>1, <2>3, <2>5, <2>6
  <2> QED  BY <2>7, ValidationAssumption
<1>11. Loaded(f) \in {None, c}
  BY <1>1, LoadedIs
<1> QED  BY <1>10, <1>11 DEF f

-----------------------------------------------------------------------------
(* Verification.                                                              *)

LEMMA TrueBodyFacts ==
  ASSUME NEW c, NEW chain, NEW d
  PROVE  LET b == TrueBody(c, chain, d)
         IN /\ b.chain = chain /\ b.day = d /\ b.pred = DigestsOf(c, chain)[d]
            /\ Forged(b).chain = chain /\ Forged(b).day = d /\ Forged(Forged(b)) = Forged(b)
            /\ b # Forged(b)
<1> DEFINE b == TrueBody(c, chain, d)
           start == EndState(DigestsOf(c, chain)[d])
           end == Days[DataFor(chain, c), chain, d, start].active
<1>1. b = Body(chain, d, Named(DataFor(chain, c), start), end, DigestsOf(c, chain)[d])
  BY DEF TrueBody, replay_checkpoint
<1> HIDE DEF b, start, end
<1>2. b.chain = chain /\ b.day = d /\ b.pred = DigestsOf(c, chain)[d]
      /\ b.rows = [data |-> DataFor(chain, c), start |-> start, forged |-> FALSE]
  BY <1>1 DEF Body, Named
<1>3. \A r : r = [data |-> DataFor(chain, c), start |-> start, forged |-> FALSE]
           \/ r = [data |-> DataFor(chain, c), start |-> start, forged |-> TRUE]
        => [r EXCEPT !.forged = TRUE] = [data |-> DataFor(chain, c), start |-> start, forged |-> TRUE]
  <2> DEFINE N(x) == [data |-> DataFor(chain, c), start |-> start, forged |-> x]
  <2>1. \A x, y : [N(x) EXCEPT !.forged = y] = N(y)
    OBVIOUS
  <2> HIDE DEF N
  <2>2. \A r : r = N(FALSE) \/ r = N(TRUE) => [r EXCEPT !.forged = TRUE] = N(TRUE)
    BY <2>1, Zenon
  <2> QED  BY <2>2, Zenon DEF N
<1> DEFINE forged == [data |-> DataFor(chain, c), start |-> start, forged |-> TRUE]
           g == Forged(b)
<1>4. \A x : Forged(x) = Body(x.chain, x.day, [x.rows EXCEPT !.forged = TRUE], x.end, x.pred)
  BY DEF Forged
<1>5. Forged(b) = Body(chain, d, forged, b.end, b.pred)
  BY <1>2, <1>3, <1>4
<1>6. g = Body(chain, d, forged, b.end, b.pred)
  BY <1>5
<1> HIDE DEF g, forged
<1>7. g.chain = chain /\ g.day = d /\ g.rows = forged /\ g.end = b.end /\ g.pred = b.pred
  BY <1>6 DEF Body
<1>8. [g.rows EXCEPT !.forged = TRUE] = forged
  BY <1>3, <1>7 DEF forged
<1>9. Forged(g) = g
  BY <1>4, <1>6, <1>7, <1>8
<1>10. b # g
  BY <1>2, <1>7 DEF forged
<1> QED  BY <1>2, <1>7, <1>9, <1>10 DEF b, g

LEMMA WithRight ==
  ASSUME NEW c, NEW proofs, ProofsRight(c, proofs), NEW dg, ProofsRight(c, dg)
  PROVE  /\ ProofsRight(c, With(proofs, dg))
         /\ DOMAIN With(proofs, dg) = DOMAIN proofs \cup DOMAIN dg
<1>1. /\ DOMAIN With(proofs, dg) = DOMAIN proofs \cup DOMAIN dg
      /\ \A k \in DOMAIN proofs \cup DOMAIN dg :
           With(proofs, dg)[k] = IF k \in DOMAIN dg THEN dg[k] ELSE proofs[k]
  BY DEF With
<1> HIDE DEF With
<1> QED  BY <1>1 DEF ProofsRight

LEMMA PrefixProved ==
  ASSUME NEW c, NEW proofs, ProofsRight(c, proofs), NEW chain \in Chains, NEW stop \in 0..EndDay,
         \A d \in 0..(stop - 1) : VerifyDay(DataFor(chain, c), proofs, chain, d) = "none"
  PROVE  \A d \in 0..stop : Before(chain, d) = DigestsOf(c, chain)[d]
<1> DEFINE Bad == {d \in 0..stop : Before(chain, d) # DigestsOf(c, chain)[d]}
<1>0. EndDay \in Nat /\ stop \in Nat
  BY ValidationAssumption
<1>1. SUFFICES ASSUME Bad # {} PROVE FALSE
  OBVIOUS
<1>2. Bad \subseteq Nat
  BY <1>0
<1>3. PICK m \in Bad : \A n \in Bad : m <= n
  BY <1>1, <1>2, LeastExists
<1>4. m \in Nat /\ m <= stop /\ Before(chain, m) # DigestsOf(c, chain)[m]
  BY <1>2
<1>5. m # 0
  BY <1>4, DigestsFollow DEF Before
<1> DEFINE d == m - 1
<1>6. d \in 0..(stop - 1) /\ d \in 0..(EndDay - 1) /\ d \in 0..stop /\ d + 1 = m /\ ~(m <= d)
  BY <1>0, <1>4, <1>5
<1>7. Before(chain, d) = DigestsOf(c, chain)[d]
  BY <1>3, <1>6
<1>8. Before(chain, m) = Digest(Row(chain, d))
  BY <1>5 DEF Before
<1>9. DigestsOf(c, chain)[m] = Digest(TrueBody(c, chain, d))
  BY <1>6, DigestsFollow
<1> HIDE DEF d, Bad
<1>10. VerifyDay(DataFor(chain, c), proofs, chain, d) = "none"
  BY <1>6
<1> DEFINE b == Row(chain, d)
           pred == Before(chain, d)
           k == <<chain, d>>
           known == k \in DOMAIN proofs /\ Front(proofs[k]) = pred
           proof == IF known THEN proofs[k] ELSE Digest(replay_checkpoint(DataFor(chain, c), chain, d, pred))
<1>11. proof = Digest(b)
  <2>1. VerifyDay(DataFor(chain, c), proofs, chain, d)
          = IF b.pred # pred THEN "checkpoint_ancestry"
            ELSE IF proof # Digest(b) THEN "checkpoint_replay_mismatch" ELSE "none"
    BY DEF VerifyDay
  <2> HIDE DEF b, pred, proof, known, k
  <2> QED  BY <2>1, <1>10
<1>12. proof = DigestsOf(c, chain)[m]
  <2>1. CASE known
    BY <2>1, <1>6 DEF ProofsRight
  <2>2. CASE ~known
    BY <2>2, <1>7, <1>9 DEF TrueBody
  <2> QED  BY <2>1, <2>2
<1> QED  BY <1>4, <1>8, <1>11, <1>12

\* The stored days before stop are those computed from c.
StoredRight(c, chain, stop) ==
  \A d \in 0..(stop - 1) :
    Stored(chain, d) # {} /\ Digest(Row(chain, d)) = DigestsOf(c, chain)[d + 1]

LEMMA ChainVerified ==
  ASSUME NEW c \in Contents, NEW proofs, ProofsRight(c, proofs), NEW data \in {None, c},
         NEW chain \in Chains, NEW stop \in 0..EndDay,
         verify_chain(data, proofs, chain, stop).bad = "none"
  PROVE  /\ verify_chain(data, proofs, chain, stop).pred = DigestsOf(c, chain)[stop]
         /\ ProofsRight(c, verify_chain(data, proofs, chain, stop).proofs)
         /\ stop > 0 => <<chain, stop - 1>> \in DOMAIN verify_chain(data, proofs, chain, stop).proofs
         /\ NeedsData(chain) => data = c
         /\ StoredRight(c, chain, stop)
<1> DEFINE v == verify_chain(data, proofs, chain, stop)
           verdict == [day \in 0..(stop - 1) |-> VerifyDay(DataFor(chain, data), proofs, chain, day)]
           wrong == {day \in 0..(stop - 1) : verdict[day] # "none"}
<1>0. EndDay \in Nat /\ stop \in Nat /\ None \notin Contents
  BY ValidationAssumption
<1>1. \A x : Failed(x).bad = x
  BY DEF Failed
<1>2. /\ ~(NeedsData(chain) /\ data = None)
      /\ \A day \in 0..(stop - 1) : Stored(chain, day) # {}
      /\ v = IF wrong # {} THEN Failed(verdict[Min(wrong)])
             ELSE [bad |-> "none", pred |-> Before(chain, stop),
                   proofs |-> With(proofs, Digests({chain}, stop))]
  <2> DEFINE early == IF "frozen" \in catalog.regs THEN "registration_drift" ELSE "registration_missing"
             short == \/ \E day \in 0..(stop - 1) : Stored(chain, day) = {}
                      \/ stop = EndDay /\ Len(catalog.rows[chain]) # EndDay
             good == [bad |-> "none", pred |-> Before(chain, stop),
                      proofs |-> With(proofs, Digests({chain}, stop))]
  <2>1. v = IF ~load("frozen") THEN Failed(early)
            ELSE IF NeedsData(chain) /\ data = None THEN Failed("data_refused")
            ELSE IF short THEN Failed("chain_incomplete")
            ELSE IF wrong # {} THEN Failed(verdict[Min(wrong)]) ELSE good
    <3> HIDE DEF Failed, Before, With, Digests, VerifyDay
    <3> QED  BY DEF verify_chain, Judged
  <2>2. early # "none" /\ (~short => \A day \in 0..(stop - 1) : Stored(chain, day) # {})
    OBVIOUS
  <2>3. v.bad = "none"
    OBVIOUS
  <2> HIDE DEF Failed, verdict, wrong, v, early, short, good
  <2>4. ~short /\ ~(NeedsData(chain) /\ data = None)
        /\ v = IF wrong # {} THEN Failed(verdict[Min(wrong)]) ELSE good
    BY <1>1, <2>1, <2>2, <2>3
  <2> QED  BY <2>2, <2>4 DEF good
<1>3. wrong = {}
  <2>1. SUFFICES ASSUME wrong # {} PROVE FALSE
    OBVIOUS
  <2>2. wrong \subseteq Nat
    BY <1>0
  <2>3. Min(wrong) \in wrong
    BY <2>1, <2>2, MinIsLeast
  <2>4. verdict[Min(wrong)] # "none"
    BY <2>3
  <2>5. v = Failed(verdict[Min(wrong)])
    BY <1>2, <2>1
  <2> HIDE DEF verdict, wrong
  <2> QED  BY <2>4, <2>5, <1>1 DEF v
<1>4. v = [bad |-> "none", pred |-> Before(chain, stop),
           proofs |-> With(proofs, Digests({chain}, stop))]
  BY <1>2, <1>3
<1>5. NeedsData(chain) => data = c
  BY <1>2
<1>6. DataFor(chain, data) = DataFor(chain, c)
  BY <1>5 DEF DataFor
<1>7. \A d \in 0..(stop - 1) : VerifyDay(DataFor(chain, c), proofs, chain, d) = "none"
  <2> HIDE DEF VerifyDay
  <2> QED  BY <1>3, <1>6
<1>8. \A d \in 0..stop : Before(chain, d) = DigestsOf(c, chain)[d]
  BY <1>7, PrefixProved
<1>9. \A d \in 0..(stop - 1) : Digest(Row(chain, d)) = DigestsOf(c, chain)[d + 1]
  <2> TAKE d \in 0..(stop - 1)
  <2>1. d + 1 \in 0..stop /\ d + 1 # 0 /\ (d + 1) - 1 = d
    BY <1>0
  <2>2. Before(chain, d + 1) = Digest(Row(chain, d))
    BY <2>1 DEF Before
  <2> QED  BY <2>1, <2>2, <1>8
<1>10. DOMAIN Digests({chain}, stop) = {chain} \X (0..(stop - 1))
       /\ \A d \in 0..(stop - 1) : Digests({chain}, stop)[<<chain, d>>] = Digest(Row(chain, d))
  <2> HIDE DEF Digest, Row
  <2> QED  BY DEF Digests
<1>11. ProofsRight(c, With(proofs, Digests({chain}, stop)))
       /\ DOMAIN With(proofs, Digests({chain}, stop)) = DOMAIN proofs \cup DOMAIN Digests({chain}, stop)
  <2>1. \A ch \in Chains, d \in 0..(EndDay - 1) :
          <<ch, d>> \in DOMAIN Digests({chain}, stop)
            => Digests({chain}, stop)[<<ch, d>>] = DigestsOf(c, ch)[d + 1]
    <3> TAKE ch \in Chains, d \in 0..(EndDay - 1)
    <3> HAVE <<ch, d>> \in DOMAIN Digests({chain}, stop)
    <3>1. ch = chain /\ d \in 0..(stop - 1)
      BY <1>10
    <3> QED  BY <3>1, <1>9, <1>10
  <2> DEFINE dg == Digests({chain}, stop)
  <2>2. ProofsRight(c, dg)
    BY <2>1 DEF ProofsRight
  <2> HIDE DEF dg
  <2>3. ProofsRight(c, With(proofs, dg)) /\ DOMAIN With(proofs, dg) = DOMAIN proofs \cup DOMAIN dg
    BY <2>2, WithRight
  <2> QED  BY <2>3 DEF dg
<1>12. stop > 0 => <<chain, stop - 1>> \in DOMAIN Digests({chain}, stop)
  BY <1>0, <1>10
<1>13. stop \in 0..stop
  BY <1>0
<1> HIDE DEF v, verdict, wrong
<1>14. v.pred = DigestsOf(c, chain)[stop] /\ v.proofs = With(proofs, Digests({chain}, stop))
  BY <1>4, <1>8, <1>13
<1> QED  BY <1>2, <1>5, <1>9, <1>11, <1>12, <1>14 DEF v, StoredRight

\* A process that ends without finishing is excused.
Excused(reason) ==
  \/ reason \in Waits
  \/ kind = "manual" /\ reason = "chain_incomplete"
  \/ Causes[reason] \cap harm # {}

LEMMA CausesAre ==
  /\ Causes["registration_drift"] = {"sources"} /\ Causes["worker_registration_mismatch"] = {"sources"}
  /\ Causes["acquisition_registration_drift"] = {"sources"}
  /\ Causes["acquisition_chunk_corrupt"] = {"store"}
  /\ Causes["data_refused"] = {"store", "sources"} /\ Causes["projection_refused"] = {"store", "sources"}
  /\ Causes["checkpoint_ancestry"] = {"catalog"} /\ Causes["checkpoint_replay_mismatch"] = {"catalog"}
  /\ Causes["checkpoint_retry_conflict"] = {"catalog"} /\ Causes["checkpoint_admission"] = {"catalog"}
  /\ Causes["chain_incomplete"] = {"catalog"}
BY DEF Causes

LEMMA HonestRows ==
  ASSUME NEW c, RowsPossible(c), RowsHonest(c), Untouched, NEW chain \in Chains, NEW d \in Nat
  PROVE  /\ d < Len(catalog.rows[chain]) => /\ Stored(chain, d) = {TrueBody(c, chain, d)}
                                            /\ Row(chain, d) = TrueBody(c, chain, d)
         /\ Stored(chain, d) # {} => d < Len(catalog.rows[chain])
<1> DEFINE rows == catalog.rows[chain]
<1>1. /\ rows \in Seq(Possible(c, chain))
      /\ \A i \in 1..Len(rows) : rows[i] = TrueBody(c, chain, i - 1)
  BY DEF RowsPossible, RowsHonest
<1>2. Stored(chain, d) = {b \in Range(rows) : b.day = d}
  BY DEF Stored
<1>3. Row(chain, d) = CHOOSE b \in Stored(chain, d) : TRUE
  BY DEF Row
<1> HIDE DEF rows
<1>4. Range(rows) = {rows[i] : i \in 1..Len(rows)} /\ Len(rows) \in Nat
  BY <1>1 DEF Range
<1>5. \A i \in 1..Len(rows) : rows[i].day = i - 1
  BY <1>1, TrueBodyFacts
<1>6. \A i \in 1..Len(rows) : rows[i].day = d <=> i = d + 1
  BY <1>4, <1>5
<1>7. Stored(chain, d) = {rows[i] : i \in {n \in 1..Len(rows) : n = d + 1}}
  BY <1>2, <1>4, <1>6
<1>8. ASSUME d < Len(rows)
      PROVE  Stored(chain, d) = {TrueBody(c, chain, d)} /\ Row(chain, d) = TrueBody(c, chain, d)
  <2>1. d + 1 \in 1..Len(rows) /\ (d + 1) - 1 = d
    BY <1>8, <1>4
  <2>2. rows[d + 1] = TrueBody(c, chain, d)
    BY <2>1, <1>1
  <2>3. Stored(chain, d) = {TrueBody(c, chain, d)}
    BY <2>1, <2>2, <1>7
  <2> QED  BY <2>3, <1>3
<1>9. Stored(chain, d) # {} => d < Len(rows)
  BY <1>4, <1>7
<1> QED  BY <1>8, <1>9 DEF rows

LEMMA HonestPrefix ==
  ASSUME NEW c, RowsPossible(c), RowsHonest(c), Untouched, NEW chain \in Chains, NEW d \in Nat,
         d <= Len(catalog.rows[chain])
  PROVE  Before(chain, d) = DigestsOf(c, chain)[d]
<1>1. CASE d = 0
  BY <1>1, DigestsFollow DEF Before
<1>2. CASE d # 0
  <2>1. catalog.rows[chain] \in Seq(Possible(c, chain)) /\ Len(catalog.rows[chain]) <= EndDay
        /\ EndDay \in Nat
    BY ValidationAssumption DEF RowsPossible, RowsHonest
  <2>2. d - 1 \in Nat /\ d - 1 < Len(catalog.rows[chain]) /\ d - 1 \in 0..(EndDay - 1) /\ (d - 1) + 1 = d
    BY <1>2, <2>1
  <2>3. Row(chain, d - 1) = TrueBody(c, chain, d - 1)
    BY <2>2, HonestRows
  <2>4. DigestsOf(c, chain)[d] = Digest(TrueBody(c, chain, d - 1))
    BY <2>2, DigestsFollow
  <2> QED  BY <1>2, <2>3, <2>4 DEF Before
<1> QED  BY <1>1, <1>2

LEMMA HonestVerdict ==
  ASSUME NEW c, RowsPossible(c), RowsHonest(c), Untouched, NEW chain \in Chains,
         NEW proofs, ProofsRight(c, proofs), NEW d \in Nat, d < Len(catalog.rows[chain])
  PROVE  VerifyDay(DataFor(chain, c), proofs, chain, d) = "none"
<1>0. catalog.rows[chain] \in Seq(Possible(c, chain)) /\ Len(catalog.rows[chain]) <= EndDay
      /\ EndDay \in Nat
  BY ValidationAssumption DEF RowsPossible, RowsHonest
<1>1. d \in 0..(EndDay - 1) /\ d <= Len(catalog.rows[chain])
  BY <1>0
<1>2. Row(chain, d) = TrueBody(c, chain, d) /\ Before(chain, d) = DigestsOf(c, chain)[d]
  BY <1>1, HonestRows, HonestPrefix
<1>3. Row(chain, d).pred = Before(chain, d)
  BY <1>2, TrueBodyFacts
<1>4. DigestsOf(c, chain)[d + 1] = Digest(TrueBody(c, chain, d))
  BY <1>1, DigestsFollow
<1> DEFINE b == Row(chain, d)
           pred == Before(chain, d)
           k == <<chain, d>>
           known == k \in DOMAIN proofs /\ Front(proofs[k]) = pred
           proof == IF known THEN proofs[k] ELSE Digest(replay_checkpoint(DataFor(chain, c), chain, d, pred))
<1>5. proof = Digest(b)
  <2>1. CASE known
    BY <2>1, <1>1, <1>2, <1>4 DEF ProofsRight
  <2>2. CASE ~known
    BY <2>2, <1>2 DEF TrueBody
  <2> QED  BY <2>1, <2>2
<1>6. VerifyDay(DataFor(chain, c), proofs, chain, d)
        = IF b.pred # pred THEN "checkpoint_ancestry"
          ELSE IF proof # Digest(b) THEN "checkpoint_replay_mismatch" ELSE "none"
  BY DEF VerifyDay
<1> HIDE DEF b, pred, known, proof
<1>7. b.pred = pred
  BY <1>3 DEF b, pred
<1> QED  BY <1>5, <1>6, <1>7

LEMMA ChainRefused ==
  ASSUME NEW c \in Contents, Placed, Given(c), RowsPossible(c), RowsHonest(c), kind # "acquisition",
         NEW proofs, ProofsRight(c, proofs), NEW data \in {None, c}, data = None => Loaded(DataFile) = None,
         NEW chain \in Chains, NEW stop \in 0..EndDay,
         kind = "worker" /\ Untouched => Reached(catalog.rows, chain, stop),
         verify_chain(data, proofs, chain, stop).bad # "none"
  PROVE  Excused(verify_chain(data, proofs, chain, stop).bad)
<1> DEFINE v == verify_chain(data, proofs, chain, stop)
           verdict == [day \in 0..(stop - 1) |-> VerifyDay(DataFor(chain, data), proofs, chain, day)]
           wrong == {day \in 0..(stop - 1) : verdict[day] # "none"}
           early == IF "frozen" \in catalog.regs THEN "registration_drift" ELSE "registration_missing"
           short == \/ \E day \in 0..(stop - 1) : Stored(chain, day) = {}
                    \/ stop = EndDay /\ Len(catalog.rows[chain]) # EndDay
           good == [bad |-> "none", pred |-> Before(chain, stop),
                    proofs |-> With(proofs, Digests({chain}, stop))]
<1>0. EndDay \in Nat /\ stop \in Nat /\ None \notin Contents
  BY ValidationAssumption
<1>1. \A x : Failed(x).bad = x
  BY DEF Failed
<1>2. v = IF ~load("frozen") THEN Failed(early)
          ELSE IF NeedsData(chain) /\ data = None THEN Failed("data_refused")
          ELSE IF short THEN Failed("chain_incomplete")
          ELSE IF wrong # {} THEN Failed(verdict[Min(wrong)]) ELSE good
  <2> HIDE DEF Failed, Before, With, Digests, VerifyDay
  <2> QED  BY DEF verify_chain, Judged
<1>3. CASE ~load("frozen")
  <2>1. v.bad = early
    BY <1>1, <1>2, <1>3
  <2>2. CASE "frozen" \notin catalog.regs
    BY <2>1, <2>2 DEF Excused, Waits
  <2>3. CASE "frozen" \in catalog.regs
    <3>1. frozen # NotFrozen
      BY ContentIsGiven DEF Given
    <3>2. sources = "edited"
      BY <3>1, <2>3, <1>3 DEF load, validate_registration, Placed
    <3>3. "sources" \in harm
      BY <3>2 DEF Placed
    <3>4. v.bad = "registration_drift"
      BY <2>1, <2>3
    <3> QED  BY <3>3, <3>4, CausesAre DEF Excused
  <2> QED  BY <2>2, <2>3
<1>4. CASE load("frozen") /\ NeedsData(chain) /\ data = None
  <2>1. v.bad = "data_refused"
    BY <1>1, <1>2, <1>4
  <2>2. {"store", "sources"} \cap harm # {}
    <3>1. SUFFICES ASSUME {"store", "sources"} \cap harm = {} PROVE FALSE
      OBVIOUS
    <3>2. Loaded(DataFile) = c
      BY <3>1, GivenLoads
    <3> QED  BY <3>2, <1>0, <1>4
  <2> QED  BY <2>1, <2>2, CausesAre DEF Excused
<1>5. CASE load("frozen") /\ ~(NeedsData(chain) /\ data = None) /\ short
  <2>1. v.bad = "chain_incomplete"
    <3> HIDE DEF short, early, Failed, v
    <3> QED  BY <1>1, <1>2, <1>5
  <2>2. CASE kind = "manual"
    BY <2>1, <2>2 DEF Excused
  <2>3. CASE kind = "worker"
    <3>1. "catalog" \in harm
      <4>1. SUFFICES ASSUME Untouched PROVE FALSE
        BY DEF Untouched
      <4>2. Len(catalog.rows[chain]) >= stop /\ Len(catalog.rows[chain]) <= EndDay
            /\ Len(catalog.rows[chain]) \in Nat
        BY <4>1, <2>3 DEF Reached, RowsHonest, RowsPossible
      <4>3. \A day \in 0..(stop - 1) : Stored(chain, day) # {}
        <5> TAKE day \in 0..(stop - 1)
        <5>1. day \in Nat /\ day < Len(catalog.rows[chain])
          BY <4>2, <1>0
        <5> QED  BY <5>1, <4>1, HonestRows
      <4> QED  BY <4>2, <4>3, <1>5
    <3> QED  BY <2>1, <3>1, CausesAre DEF Excused
  <2> QED  BY <2>2, <2>3 DEF Placed
<1>6. CASE load("frozen") /\ ~(NeedsData(chain) /\ data = None) /\ ~short
  <2>1. v = IF wrong # {} THEN Failed(verdict[Min(wrong)]) ELSE good
    <3> HIDE DEF short, early, Failed, v, wrong, verdict, good
    <3> QED  BY <1>2, <1>6
  <2>2. wrong # {}
    BY <2>1
  <2>3. Min(wrong) \in wrong
    <3>1. wrong \subseteq Nat
      BY <1>0
    <3> QED  BY <2>2, <3>1, MinIsLeast
  <2> DEFINE m == Min(wrong)
  <2>4. m \in 0..(stop - 1) /\ verdict[m] # "none"
    BY <2>3
  <2>5. v.bad = verdict[m]
    <3> HIDE DEF Failed, v, wrong, verdict, good
    <3> QED  BY <1>1, <2>1, <2>2
  <2>6. verdict[m] = VerifyDay(DataFor(chain, data), proofs, chain, m)
    <3> HIDE DEF VerifyDay, m
    <3> QED  BY <2>4
  <2>7. DataFor(chain, data) = DataFor(chain, c)
    BY <1>6 DEF DataFor
  <2> HIDE DEF m, verdict, wrong, v, good
  <2>8. "catalog" \in harm
    <3>1. SUFFICES ASSUME Untouched PROVE FALSE
      BY DEF Untouched
    <3>2. Stored(chain, m) # {} /\ m \in Nat
      BY <2>4, <1>0, <1>6
    <3>3. m < Len(catalog.rows[chain])
      BY <3>1, <3>2, HonestRows
    <3>4. VerifyDay(DataFor(chain, c), proofs, chain, m) = "none"
      BY <3>1, <3>2, <3>3, HonestVerdict
    <3> QED  BY <3>4, <2>4, <2>6, <2>7
  <2>9. VerifyDay(DataFor(chain, c), proofs, chain, m)
          \in {"none", "checkpoint_ancestry", "checkpoint_replay_mismatch"}
    BY DEF VerifyDay
  <2>10. v.bad \in {"checkpoint_ancestry", "checkpoint_replay_mismatch"}
    BY <2>4, <2>5, <2>6, <2>7, <2>9
  <2> QED  BY <2>8, <2>10, CausesAre DEF Excused, v
<1> QED  BY <1>3, <1>4, <1>5, <1>6

-----------------------------------------------------------------------------
(* Writing a day.                                                             *)

\* No chain loses a row.
Longer(rows, new) == \A chain \in Chains : Len(new[chain]) >= Len(rows[chain])

LEMMA Written ==
  ASSUME NEW c, RowsPossible(c), RowsHonest(c), CatalogShape, NEW chain \in Chains,
         NEW day \in 0..(EndDay - 1), _write_replayed(TrueBody(c, chain, day)), harm' = harm,
         Untouched => Reached(catalog.rows, chain, day)
  PROVE  /\ RowsPossible(c)' /\ RowsHonest(c)' /\ CatalogShape' /\ catalog'.regs = catalog.regs
         /\ Longer(catalog.rows, catalog'.rows)
         /\ Untouched => Len(catalog'.rows[chain]) >= day + 1
<1> DEFINE b == TrueBody(c, chain, day)
           rows == catalog.rows[chain]
<1>0. EndDay \in Nat /\ day \in Nat /\ day < EndDay
  BY ValidationAssumption
<1>1. b.chain = chain /\ b.day = day /\ b \in Possible(c, chain)
  BY TrueBodyFacts DEF Possible
<1>2. \A ch \in Chains : /\ catalog.rows[ch] \in Seq(Possible(c, ch)) /\ Len(catalog.rows[ch]) \in Nat
                         /\ \A i, j \in DOMAIN catalog.rows[ch] :
                              catalog.rows[ch][i].day = catalog.rows[ch][j].day => i = j
  BY DEF RowsPossible
<1>3. CASE Stored(chain, day) # {}
  <2>1. catalog' = catalog
    BY <1>1, <1>3 DEF _write_replayed
  <2>2. RowsPossible(c)' /\ RowsHonest(c)' /\ CatalogShape' /\ catalog'.regs = catalog.regs
    BY <2>1 DEF RowsPossible, RowsHonest, CatalogShape, Untouched
  <2>3. Longer(catalog.rows, catalog'.rows)
    BY <2>1, <1>2 DEF Longer
  <2>4. Untouched => Len(catalog'.rows[chain]) >= day + 1
    <3> HAVE Untouched
    <3>1. day < Len(catalog.rows[chain])
      BY <1>0, <1>3, HonestRows
    <3> QED  BY <3>1, <2>1, <1>0, <1>2
  <2> QED  BY <2>2, <2>3, <2>4
<1>4. CASE Stored(chain, day) = {}
  <2>1. catalog' = [catalog EXCEPT !.rows[chain] = Append(@, b)]
    BY <1>1, <1>4 DEF _write_replayed
  <2> HIDE DEF b
  <2>2. /\ catalog'.rows = [catalog.rows EXCEPT ![chain] = Append(rows, b)]
        /\ catalog'.regs = catalog.regs /\ catalog' = [regs |-> catalog'.regs, rows |-> catalog'.rows]
    BY <2>1 DEF CatalogShape
  <2>3. /\ catalog'.rows[chain] = Append(rows, b)
        /\ \A ch \in Chains : ch # chain => catalog'.rows[ch] = catalog.rows[ch]
        /\ catalog'.rows = [ch \in Chains |-> catalog'.rows[ch]]
    BY <2>2 DEF CatalogShape
  <2>4. CatalogShape'
    BY <2>2, <2>3 DEF CatalogShape
  <2>5. rows \in Seq(Possible(c, chain))
    BY <1>2
  <2>6. \A i \in DOMAIN rows : rows[i].day # day
    BY <1>4 DEF Stored, Range
  <2> DEFINE new == Append(rows, b)
  <2> HIDE DEF rows
  <2>7. /\ new \in Seq(Possible(c, chain)) /\ Len(new) = Len(rows) + 1 /\ Len(rows) \in Nat
        /\ DOMAIN new = 1..(Len(rows) + 1) /\ DOMAIN rows = 1..Len(rows) /\ new[Len(rows) + 1] = b
        /\ \A i \in 1..Len(rows) : new[i] = rows[i]
    BY <1>1, <2>5 DEF b
  <2> HIDE DEF new
  <2>8. \A i, j \in DOMAIN rows : rows[i].day = rows[j].day => i = j
    BY <1>2 DEF rows
  <2>9. \A i, j \in DOMAIN new : new[i].day = new[j].day => i = j
    <3> TAKE i, j \in DOMAIN new
    <3>1. (i \in DOMAIN rows \/ i = Len(rows) + 1) /\ (j \in DOMAIN rows \/ j = Len(rows) + 1)
      BY <2>7
    <3>2. b.day = day
      BY <1>1 DEF b
    <3> QED  BY <3>1, <3>2, <2>6, <2>7, <2>8
  <2>10. RowsPossible(c)'
    <3>1. \A ch \in Chains :
             /\ catalog'.rows[ch] \in Seq(Possible(c, ch))
             /\ \A i, j \in DOMAIN catalog'.rows[ch] :
                  catalog'.rows[ch][i].day = catalog'.rows[ch][j].day => i = j
      <4> TAKE ch \in Chains
      <4>1. CASE ch = chain
        BY <4>1, <2>3, <2>7, <2>9 DEF new
      <4>2. CASE ch # chain
        BY <4>2, <2>3, <1>2
      <4> QED  BY <4>1, <4>2
    <3> QED  BY <3>1 DEF RowsPossible
  <2>11. Longer(catalog.rows, catalog'.rows)
    BY <1>2, <2>3, <2>7 DEF Longer, new, rows
  <2>12. ASSUME Untouched
         PROVE  Len(rows) = day
    <3>1. ~(day < Len(rows))
      BY <1>0, <1>4, <2>12, HonestRows DEF rows
    <3> QED  BY <3>1, <2>7, <2>12, <1>0 DEF Reached, rows
  <2>13. RowsHonest(c)'
    <3>1. SUFFICES ASSUME Untouched
                   PROVE  \A ch \in Chains :
                            /\ Len(catalog'.rows[ch]) <= EndDay
                            /\ \A i \in 1..Len(catalog'.rows[ch]) :
                                 catalog'.rows[ch][i] = TrueBody(c, ch, i - 1)
      BY DEF RowsHonest, Untouched
    <3>2. \A ch \in Chains :
             /\ Len(catalog.rows[ch]) <= EndDay
             /\ \A i \in 1..Len(catalog.rows[ch]) : catalog.rows[ch][i] = TrueBody(c, ch, i - 1)
      BY <3>1 DEF RowsHonest
    <3>3. Len(new) = day + 1 /\ \A i \in 1..Len(new) : new[i] = TrueBody(c, chain, i - 1)
      <4>1. Len(new) = day + 1 /\ (day + 1) - 1 = day
        BY <2>7, <2>12, <3>1, <1>0
      <4>2. \A i \in 1..Len(rows) : rows[i] = TrueBody(c, chain, i - 1)
        BY <3>2 DEF rows
      <4>3. ASSUME NEW i \in 1..Len(new) PROVE new[i] = TrueBody(c, chain, i - 1)
        <5>1. CASE i = day + 1
          BY <5>1, <4>1, <2>7, <2>12, <3>1 DEF b
        <5>2. CASE i # day + 1
          <6>1. i \in 1..Len(rows)
            BY <5>2, <4>1, <2>12, <3>1, <1>0
          <6> QED  BY <6>1, <4>2, <2>7
        <5> QED  BY <5>1, <5>2
      <4> QED  BY <4>1, <4>3
    <3> TAKE ch \in Chains
    <3>4. CASE ch = chain
      BY <3>4, <3>3, <2>3, <1>0 DEF new
    <3>5. CASE ch # chain
      BY <3>5, <3>2, <2>3
    <3> QED  BY <3>4, <3>5
  <2>14. Untouched => Len(catalog'.rows[chain]) >= day + 1
    BY <2>3, <2>7, <2>12, <1>0 DEF new
  <2> QED  BY <2>2, <2>4, <2>10, <2>11, <2>13, <2>14
<1> QED  BY <1>3, <1>4

LEMMA WriteRefused ==
  ASSUME NEW c, RowsPossible(c), RowsHonest(c), NEW chain \in Chains, NEW day \in 0..(EndDay - 1),
         Untouched => Reached(catalog.rows, chain, day), WriteOutcome(TrueBody(c, chain, day)) # "none"
  PROVE  Excused(WriteOutcome(TrueBody(c, chain, day)))
<1> DEFINE b == TrueBody(c, chain, day)
<1>0. EndDay \in Nat /\ day \in Nat /\ day < EndDay
  BY ValidationAssumption
<1>1. b.chain = chain /\ b.day = day /\ b.pred = DigestsOf(c, chain)[day]
  BY TrueBodyFacts
<1>2. WriteOutcome(b) \in {"checkpoint_retry_conflict", "checkpoint_admission"}
      /\ ((\E d \in Stored(chain, day) : d # b) \/ ~admit_checkpoint(b))
  <2> HIDE DEF b
  <2>1. WriteOutcome(b) # "none"
    BY DEF b
  <2> QED  BY <1>1, <2>1 DEF WriteOutcome
<1>3. "catalog" \in harm
  <2>1. SUFFICES ASSUME Untouched PROVE FALSE
    BY DEF Untouched
  <2>2. Len(catalog.rows[chain]) \in Nat /\ day <= Len(catalog.rows[chain])
    BY <2>1, <1>0 DEF Reached, RowsPossible
  <2>3. Stored(chain, day) \subseteq {b}
    <3>1. CASE Stored(chain, day) = {}
      BY <3>1
    <3>2. CASE Stored(chain, day) # {}
      BY <3>2, <2>1, <1>0, HonestRows
    <3> QED  BY <3>1, <3>2
  <2>4. admit_checkpoint(b)
    <3>1. CASE day = 0
      BY <3>1, <1>1, DigestsFollow DEF admit_checkpoint
    <3>2. CASE day # 0
      <4>1. day - 1 \in Nat /\ day - 1 \in 0..(EndDay - 1) /\ (day - 1) + 1 = day
            /\ day - 1 < Len(catalog.rows[chain])
        BY <3>2, <1>0, <2>2
      <4>2. Stored(chain, day - 1) = {TrueBody(c, chain, day - 1)}
        BY <4>1, <2>1, HonestRows
      <4>3. Digest(TrueBody(c, chain, day - 1)) = b.pred
        BY <4>1, <1>1, DigestsFollow
      <4> HIDE DEF b
      <4> QED  BY <3>2, <4>2, <4>3, <1>1 DEF admit_checkpoint
    <3> QED  BY <3>1, <3>2
  <2> HIDE DEF b
  <2> QED  BY <2>3, <2>4, <1>2
<1> QED  BY <1>2, <1>3, CausesAre DEF Excused

-----------------------------------------------------------------------------
(* The reports of a strategy.                                                 *)

LEMMA ViewsFacts ==
  ASSUME NEW s \in Strategies
  PROVE  /\ IsFiniteSet(Views(s)) /\ Requested(s) \in Seq(Views(s))
         /\ \A k \in Views(s) : /\ k \in Keys /\ Source(k) = s /\ k[2] # "completed"
                                /\ Range(Population(k[2])) \subseteq Range(Pairs)
                                /\ Population(k[2]) \in Seq(Range(Pairs)) /\ Population(k[2]) # <<>>
<1> DEFINE each == Len(Pairs) + 1
           n == (Len(OVERLAYS) + 1) * each
           view(v) == IF v = 1 THEN s ELSE OVERLAYS[v - 1]
           pair(j) == IF j <= Len(Pairs) THEN Pairs[j] ELSE "aggregate"
           of(v, j) == <<view(v), pair(j), IF view(v) = s THEN NoBaseline ELSE s>>
           keys == Requested(s)
<1>1. /\ Pairs \in Seq(Range(Pairs)) /\ Pairs # <<>> /\ Len(Pairs) \in Nat /\ Len(OVERLAYS) \in Nat
      /\ "completed" \notin Range(Pairs) /\ NoBaseline \notin Strategies
      /\ \A j \in 1..Len(Pairs) : Pairs[j] \in Range(Pairs)
  BY ValidationAssumption DEF Range
<1>2. n \in Nat /\ each \in Nat \ {0}
  BY <1>1
<1>3. keys = [i \in 1..n |-> of(((i - 1) \div each) + 1, ((i - 1) % each) + 1)]
  BY DEF Requested
<1>4. \A i \in 1..n : ((i - 1) % each) + 1 \in Nat \ {0}
  BY <1>2
<1>5. ASSUME NEW j \in Nat \ {0}
      PROVE  /\ pair(j) # "completed" /\ Range(Population(pair(j))) \subseteq Range(Pairs)
             /\ Population(pair(j)) \in Seq(Range(Pairs)) /\ Population(pair(j)) # <<>>
  <2>1. CASE pair(j) = "aggregate"
    BY <2>1, <1>1 DEF Population
  <2>2. CASE pair(j) # "aggregate"
    <3>1. pair(j) \in Range(Pairs)
      BY <2>2, <1>1
    <3>2. Population(pair(j)) = <<pair(j)>>
      BY <2>2 DEF Population
    <3> HIDE DEF pair
    <3>3. Range(<<pair(j)>>) = {pair(j)}
      BY DEF Range
    <3> QED  BY <3>1, <3>2, <3>3, <1>1
  <2> QED  BY <2>1, <2>2
<1> HIDE DEF pair
<1>6. ASSUME NEW v, NEW j
      PROVE  Source(of(v, j)) = s /\ of(v, j)[2] = pair(j)
  <2>1. s # NoBaseline
    BY <1>1
  <2> QED  BY <2>1 DEF Source
<1> HIDE DEF n, of, each, keys
<1>7. keys \in Seq(Range(keys)) /\ DOMAIN keys = 1..n /\ Range(keys) = {keys[i] : i \in 1..n}
  <2>1. DOMAIN keys = 1..n /\ keys = [i \in 1..n |-> keys[i]]
    BY <1>3
  <2>2. Range(keys) = {keys[i] : i \in 1..n}
    BY <2>1 DEF Range
  <2>3. \A i \in 1..n : keys[i] \in Range(keys)
    BY <2>2
  <2> QED  BY <2>1, <2>2, <2>3, <1>2
<1>8. Views(s) = Range(keys)
  BY DEF Views, keys
<1>9. IsFiniteSet(Range(keys))
  <2>1. IsFiniteSet(1..n)
    BY <1>2, FS_Interval
  <2>2. keys \in Surjection(1..n, Range(keys))
    BY <1>3, <1>7 DEF Surjection
  <2> QED  BY <2>1, <2>2, FS_Surjection
<1>10. ASSUME NEW k \in Views(s)
       PROVE  /\ k \in Keys /\ Source(k) = s /\ k[2] # "completed"
              /\ Range(Population(k[2])) \subseteq Range(Pairs)
              /\ Population(k[2]) \in Seq(Range(Pairs)) /\ Population(k[2]) # <<>>
  <2>1. PICK i \in 1..n : k = keys[i]
    BY <1>7, <1>8
  <2>2. k = of(((i - 1) \div each) + 1, ((i - 1) % each) + 1)
    BY <2>1, <1>3
  <2>3. ((i - 1) % each) + 1 \in Nat \ {0}
    BY <1>4
  <2>4. k \in Keys
    BY DEF Keys
  <2>5. Source(k) = s /\ k[2] = pair(((i - 1) % each) + 1)
    BY <2>2, <1>6
  <2> QED  BY <2>3, <2>4, <2>5, <1>5
<1> QED  BY <1>7, <1>8, <1>9, <1>10 DEF keys

LEMMA ReportsCounted ==
  ASSUME NEW c, NEW s \in Strategies
  PROVE  Cardinality(Reports(c, s)) = Cardinality(Views(s))
<1> DEFINE f == [k \in Views(s) |-> Report(c, k)]
<1>1. \A k : Report(c, k).key = k
  BY DEF Report
<1> HIDE DEF Report
<1>2. f \in Bijection(Views(s), Reports(c, s))
  <2>1. \A k \in Views(s) : f[k] \in Reports(c, s) /\ f[k].key = k
    BY <1>1 DEF Reports
  <2>2. f \in Injection(Views(s), Reports(c, s))
    <3>1. f \in [Views(s) -> Reports(c, s)]
      BY <2>1
    <3>2. \A k, l \in Views(s) : f[k] = f[l] => k = l
      BY <2>1
    <3> HIDE DEF f
    <3> QED  BY <3>1, <3>2 DEF Injection, IsInjective
  <2>3. f \in Surjection(Views(s), Reports(c, s))
    BY DEF Surjection, Reports
  <2> QED  BY <2>2, <2>3 DEF Bijection
<1>3. ExistsBijection(Views(s), Reports(c, s))
  BY <1>2 DEF ExistsBijection
<1> QED  BY <1>3, ViewsFacts, FS_Bijection

\* The reports bound to the digests of whole chains are those expected.
LEMMA BoundAreReports ==
  ASSUME NEW c \in Contents, NEW s \in Strategies, NEW keys, NEW terminal,
         \A j \in DOMAIN keys :
           /\ keys[j] \in Views(s)
           /\ \A pair \in Range(Population(keys[j][2])) :
                terminal[pair] = DigestsOf(c, <<s, pair>>)[EndDay]
  PROVE  Bound(keys, terminal) = [j \in DOMAIN keys |-> Report(c, keys[j])]
<1>1. ASSUME NEW j \in DOMAIN keys
      PROVE  [key |-> keys[j],
              bindings |-> [pair \in Range(Population(keys[j][2])) |-> terminal[pair]]]
               = Report(c, keys[j])
  <2> DEFINE k == keys[j]
  <2>1. k \in Keys /\ Source(k) = s /\ Range(Population(k[2])) \subseteq Range(Pairs)
    BY ViewsFacts
  <2>2. Expected[c][k] = [pair \in Range(Population(k[2])) |-> FromStart[c][<<Source(k), pair>>]]
    <3> HIDE DEF k
    <3> QED  BY <2>1 DEF Expected
  <2>3. \A pair \in Range(Population(k[2])) :
          FromStart[c][<<Source(k), pair>>] = DigestsOf(c, <<s, pair>>)[EndDay]
    <3> HIDE DEF k
    <3> TAKE pair \in Range(Population(k[2]))
    <3>1. <<s, pair>> \in Chains
      BY <2>1 DEF Chains
    <3> QED  BY <3>1, <2>1 DEF FromStart
  <2>4. Expected[c][k] = [pair \in Range(Population(k[2])) |-> terminal[pair]]
    <3>1. \A pair \in Range(Population(k[2])) : terminal[pair] = FromStart[c][<<Source(k), pair>>]
      BY <2>1, <2>3
    <3> HIDE DEF k
    <3> QED  BY <2>2, <3>1
  <2> QED  BY <2>4 DEF Report
<1> QED  BY <1>1 DEF Bound

-----------------------------------------------------------------------------
(* The steps of a process.                                                    *)

LEMMA BecomeFacts ==
  ASSUME ProcShape, NEW p \in Procs, NEW r, IsProc(r), Become(p, r)
  PROVE  /\ ProcShape' /\ proc'[p] = r /\ \A q \in Procs : q # p => proc'[q] = proc[q]
<1>1. proc' = [proc EXCEPT ![p] = r]
  BY DEF Become
<1>2. DOMAIN proc = Procs /\ \A q \in Procs : IsProc(proc[q])
  BY DEF ProcShape
<1>3. proc'[p] = r /\ \A q \in Procs : q # p => proc'[q] = proc[q]
  BY <1>1, <1>2
<1>4. proc' = [q \in Procs |-> proc'[q]]
  BY <1>1, <1>2
<1>5. \A q \in Procs : IsProc(proc'[q])
  BY <1>2, <1>3
<1> QED  BY <1>3, <1>4, <1>5 DEF ProcShape

LEMMA RefuseFacts ==
  ASSUME NEW p \in Procs, NEW reason, Refuse(p, reason), Excused(reason), RefusalsAreExplained, harm' = harm
  PROVE  Become(p, Idle) /\ RefusalsAreExplained'
<1>1. Become(p, Idle) /\ (refused' = refused \/ refused' = refused \cup {reason})
      /\ (refused' = refused \/ Causes[reason] \cap harm # {})
  BY DEF Refuse, Excused
<1> QED  BY <1>1 DEF RefusalsAreExplained

Steady == UNCHANGED <<kind, sources, store, frozen, transfer>>

\* Where the processes of the catalogs may be.
Following(k, pc) ==
  /\ k = "acquisition" => pc = "idle"
  /\ k = "worker" => pc \in {"idle", "begin", "turn", "run", "export", "publish"}
  /\ k = "manual" => pc \in {"idle", "run", "publish"}
  /\ pc \in {"idle", "begin", "turn", "run", "export", "publish"}

LEMMA BaseStep ==
  ASSUME Base, Steady, harm' = harm, faults' \in 0..Faults, NEW p \in Procs, NEW r, IsProc(r),
         Become(p, r), Following(kind, r.pc), CatalogShape', catalog'.regs \subseteq {"frozen", "edited"},
         kind = "acquisition" => UNCHANGED <<catalog, files>>, "sealed" \notin reads', RefusalsAreExplained'
  PROVE  Base'
<1>1. ProcShape' /\ proc'[p] = r /\ \A q \in Procs : q # p => proc'[q] = proc[q]
  BY BecomeFacts DEF Base, Shapes
<1>2. Shapes'
  BY <1>1 DEF Base, Shapes, Steady, FileShape
<1>3. Placed'
  <2>1. \A q \in Procs :
          /\ kind = "acquisition" => proc'[q].pc \in {"idle", "acquire", "insert", "project"}
          /\ kind = "worker" => proc'[q].pc \in {"idle", "begin", "turn", "run", "export", "publish"}
          /\ kind = "manual" => proc'[q].pc \in {"idle", "run", "publish"}
    BY <1>1 DEF Base, Placed, Following
  <2> QED  BY <2>1 DEF Base, Placed, Steady
<1>4. CacheRight'
  BY DEF Base, CacheRight, OneChunkPerRequest, Steady, Intact
<1>5. \A q \in Procs : /\ proc'[q].pc \in {"acquire", "insert", "project"} => q # p
  BY <1>1 DEF Following
<1>6. LockHeld'
  <2>1. Absent' = Absent
    BY DEF Absent, Steady
  <2>2. store' = store
    BY DEF Steady
  <2> HIDE DEF Absent
  <2> QED  BY <1>1, <1>5, <2>1, <2>2 DEF Base, LockHeld, Is
<1>7. CopySound'
  <2>1. metadata(store)' = metadata(store) /\ Manifest(store)' = Manifest(store)
    BY DEF Steady, metadata, Manifest, plan, Accepted
  <2>2. frozen' = frozen
    BY DEF Steady
  <2> HIDE DEF metadata, Manifest
  <2> QED  BY <1>1, <1>5, <2>1, <2>2 DEF Base, CopySound, Is
<1>8. SealedStaysSealed'
  BY DEF Base, SealedStaysSealed, Steady
<1> QED  BY <1>2, <1>3, <1>4, <1>6, <1>7, <1>8 DEF Base

LEMMA BatchFacts ==
  ASSUME NEW b \in DOMAIN Batches
  PROVE  /\ Batches[b] \in Seq(Strategies) /\ Batches[b] # <<>> /\ Range(Batches[b]) \subseteq Strategies
         /\ Len(Batches[b]) \in Nat /\ DOMAIN Batches[b] = 1..Len(Batches[b])
         /\ \A i \in 1..Len(Batches[b]) : Batches[b][i] \in Strategies /\ Batches[b][i] \in Range(Batches[b])
<1>1. Batches[b] \in Seq(Strategies) /\ Batches[b] # <<>>
  BY ValidationAssumption
<1> DEFINE s == Batches[b]
<1> HIDE DEF s
<1>2. /\ Range(s) \subseteq Strategies /\ Len(s) \in Nat /\ DOMAIN s = 1..Len(s)
      /\ \A i \in 1..Len(s) : s[i] \in Strategies /\ s[i] \in Range(s)
  BY <1>1 DEF Range, s
<1> QED  BY <1>1, <1>2 DEF s

LEMMA PairFacts ==
  /\ DOMAIN Pairs = 1..Len(Pairs) /\ Len(Pairs) \in Nat \ {0}
  /\ \A j \in DOMAIN Pairs : Pairs[j] \in Range(Pairs)
  /\ \A s \in Strategies, j \in DOMAIN Pairs : <<s, Pairs[j]>> \in Chains
<1>1. Pairs \in Seq(Range(Pairs)) /\ Pairs # <<>>
  BY ValidationAssumption
<1>2. DOMAIN Pairs = 1..Len(Pairs) /\ Len(Pairs) \in Nat \ {0}
  BY <1>1
<1>3. \A j \in DOMAIN Pairs : Pairs[j] \in Range(Pairs)
  BY DEF Range
<1> QED  BY <1>2, <1>3 DEF Chains

LEMMA BehindStays ==
  ASSUME NEW rows, NEW new, Longer(rows, new),
         \A chain \in Chains : Len(rows[chain]) \in Nat /\ Len(new[chain]) \in Nat,
         NEW k, NEW c, NEW q, Process(k, c, q), Behind(rows, k, q)
  PROVE  Behind(new, k, q)
<1>0. EndDay \in Nat
  BY ValidationAssumption
<1>1. \A chain \in Chains, n \in Nat : Reached(rows, chain, n) => Reached(new, chain, n)
  BY DEF Longer, Reached
<1>2. q.pc = "run" => Reached(new, q.chain, q.day)
  BY <1>1 DEF Process, Running, Behind
<1>3. ASSUME k = "worker", q.pc \in {"begin", "turn", "run", "export", "publish"}
      PROVE  /\ q.pc \in {"turn", "run"} =>
                  \A s \in Range(Batches[q.batch]) : Reached(new, <<s, Pairs[q.pair]>>, q.cursors[s])
             /\ q.pc \in {"begin", "turn", "run"} =>
                  \A j \in 1..(q.pair - 1), s \in Range(Batches[q.batch]) : Reached(new, <<s, Pairs[j]>>, EndDay)
             /\ q.pc \in {"export", "publish"} =>
                  \A j \in DOMAIN Pairs, s \in Range(Batches[q.batch]) : Reached(new, <<s, Pairs[j]>>, EndDay)
  <2>1. /\ q.batch \in DOMAIN Batches
        /\ q.pc \in {"begin", "turn", "run"} => q.pair \in DOMAIN Pairs
        /\ q.pc \in {"turn", "run"} => q.cursors \in [Range(Batches[q.batch]) -> 0..EndDay]
    BY <1>3 DEF Process, Positioned
  <2>2. /\ q.pc \in {"turn", "run"} =>
             \A s \in Range(Batches[q.batch]) : Reached(rows, <<s, Pairs[q.pair]>>, q.cursors[s])
        /\ q.pc \in {"begin", "turn", "run"} =>
             \A j \in 1..(q.pair - 1), s \in Range(Batches[q.batch]) : Reached(rows, <<s, Pairs[j]>>, EndDay)
        /\ q.pc \in {"export", "publish"} =>
             \A j \in DOMAIN Pairs, s \in Range(Batches[q.batch]) : Reached(rows, <<s, Pairs[j]>>, EndDay)
    BY <1>3 DEF Behind
  <2>3. Range(Batches[q.batch]) \subseteq Strategies
    BY <2>1, BatchFacts
  <2>4. q.pc \in {"begin", "turn", "run"} => \A j \in 1..(q.pair - 1) : j \in DOMAIN Pairs
    BY <2>1, PairFacts
  <2> HIDE DEF Reached
  <2>5. q.pc \in {"turn", "run"} =>
          \A s \in Range(Batches[q.batch]) : Reached(new, <<s, Pairs[q.pair]>>, q.cursors[s])
    <3> HAVE q.pc \in {"turn", "run"}
    <3> TAKE s \in Range(Batches[q.batch])
    <3>1. q.cursors[s] \in Nat /\ <<s, Pairs[q.pair]>> \in Chains
      BY <2>1, <2>3, <1>0, PairFacts
    <3> QED  BY <3>1, <2>2, <1>1
  <2>6. q.pc \in {"begin", "turn", "run"} =>
          \A j \in 1..(q.pair - 1), s \in Range(Batches[q.batch]) : Reached(new, <<s, Pairs[j]>>, EndDay)
    <3> HAVE q.pc \in {"begin", "turn", "run"}
    <3> TAKE j \in 1..(q.pair - 1), s \in Range(Batches[q.batch])
    <3>1. <<s, Pairs[j]>> \in Chains
      BY <2>3, <2>4, PairFacts
    <3> QED  BY <3>1, <2>2, <1>0, <1>1
  <2>7. q.pc \in {"export", "publish"} =>
          \A j \in DOMAIN Pairs, s \in Range(Batches[q.batch]) : Reached(new, <<s, Pairs[j]>>, EndDay)
    <3> HAVE q.pc \in {"export", "publish"}
    <3> TAKE j \in DOMAIN Pairs, s \in Range(Batches[q.batch])
    <3>1. <<s, Pairs[j]>> \in Chains
      BY <2>3, PairFacts
    <3> QED  BY <3>1, <2>2, <1>0, <1>1
  <2> QED  BY <2>5, <2>6, <2>7
<1> QED  BY <1>2, <1>3 DEF Behind

LEMMA KeptStep ==
  ASSUME NEW c \in Contents, Kept(c), ProcShape, Steady, harm' = harm, NEW p \in Procs, NEW r, IsProc(r),
         Become(p, r), Process(kind, c, r), Untouched => Behind(catalog'.rows, kind, r),
         Longer(catalog.rows, catalog'.rows), RowsPossible(c)', RowsHonest(c)', FilesRight(c)'
  PROVE  Kept(c)'
<1>1. proc'[p] = r /\ \A q \in Procs : q # p => proc'[q] = proc[q]
  BY BecomeFacts
<1>2. kind' = kind /\ Untouched' = Untouched
  BY DEF Steady, Untouched
<1>3. \A chain \in Chains : Len(catalog.rows[chain]) \in Nat /\ Len(catalog'.rows[chain]) \in Nat
  BY DEF RowsPossible, Kept
<1>4. ASSUME NEW q \in Procs
      PROVE  Process(kind, c, proc'[q]) /\ (Untouched => Behind(catalog'.rows, kind, proc'[q]))
  <2>1. CASE q = p
    BY <2>1, <1>1
  <2>2. CASE q # p
    <3>1. Process(kind, c, proc[q]) /\ (Untouched => Behind(catalog.rows, kind, proc[q]))
      BY DEF Kept, ProcsRight
    <3>2. Untouched => Behind(catalog'.rows, kind, proc[q])
      BY <3>1, <1>3, BehindStays
    <3> QED  BY <2>2, <3>1, <3>2, <1>1
  <2> QED  BY <2>1, <2>2
<1>5. ProcsRight(c)'
  BY <1>2, <1>4 DEF ProcsRight
<1>6. Given(c)'
  BY DEF Kept, Given, Steady
<1> QED  BY <1>5, <1>6 DEF Kept

LEMMA ProcStep ==
  ASSUME NEW c \in Contents, Base, Kept(c), kind # "acquisition", Steady, harm' = harm,
         faults' \in 0..Faults, NEW p \in Procs, NEW r, IsProc(r), Become(p, r), Following(kind, r.pc),
         Process(kind, c, r), Untouched => Behind(catalog'.rows, kind, r),
         CatalogShape', catalog'.regs \subseteq {"frozen", "edited"},
         Longer(catalog.rows, catalog'.rows), RowsPossible(c)', RowsHonest(c)', FilesRight(c)',
         "sealed" \notin reads', RefusalsAreExplained'
  PROVE  Base' /\ Kept(c)'
<1>1. Base'
  BY BaseStep
<1>2. ProcShape
  BY DEF Base, Shapes
<1>3. Kept(c)'
  BY <1>2, KeptStep
<1> QED  BY <1>1, <1>3

LEMMA IdleProcess ==
  ASSUME NEW c, NEW k, NEW rows
  PROVE  Process(k, c, Idle) /\ Behind(rows, k, Idle) /\ (k \in {"acquisition", "worker", "manual"} => Following(k, Idle.pc))
<1>1. ProofsRight(c, <<>>)
  BY DEF ProofsRight
<1> QED  BY <1>1, IdleIsProc DEF Process, Sound, Running, Publishing, Positioned, Behind, Following

LEMMA RowsSame ==
  ASSUME NEW c, Kept(c), harm' = harm, catalog'.rows = catalog.rows
  PROVE  RowsPossible(c)' /\ RowsHonest(c)' /\ Longer(catalog.rows, catalog'.rows)
<1>1. \A chain \in Chains : Len(catalog.rows[chain]) \in Nat
  BY DEF Kept, RowsPossible
<1>2. Longer(catalog.rows, catalog'.rows)
  BY <1>1 DEF Longer
<1>3. RowsPossible(c)' /\ RowsHonest(c)'
  BY DEF Kept, RowsPossible, RowsHonest, Untouched
<1> QED  BY <1>2, <1>3

\* A step that leaves the rows and the files as they are.
Still == catalog' = catalog /\ files' = files /\ harm' = harm /\ faults' = faults

LEMMA StillFacts ==
  ASSUME NEW c, Base, Kept(c), Still
  PROVE  /\ CatalogShape' /\ catalog'.regs \subseteq {"frozen", "edited"} /\ faults' \in 0..Faults
         /\ RowsPossible(c)' /\ RowsHonest(c)' /\ Longer(catalog.rows, catalog'.rows) /\ FilesRight(c)'
<1>1. RowsPossible(c)' /\ RowsHonest(c)' /\ Longer(catalog.rows, catalog'.rows)
  BY RowsSame DEF Still
<1>2. CatalogShape' /\ catalog'.regs \subseteq {"frozen", "edited"} /\ faults' \in 0..Faults
  BY DEF Still, Base, Shapes, CatalogShape, Placed
<1>3. FilesRight(c)'
  BY DEF Still, Kept, FilesRight
<1> QED  BY <1>1, <1>2, <1>3

\* A process that ends leaves nothing to show.
LEMMA EndStep ==
  ASSUME NEW c \in Contents, Base, Kept(c), kind # "acquisition", Steady, Still, NEW p \in Procs,
         Become(p, Idle), "sealed" \notin reads', RefusalsAreExplained'
  PROVE  Base' /\ Kept(c)'
<1>1. IsProc(Idle) /\ Process(kind, c, Idle) /\ Behind(catalog'.rows, kind, Idle) /\ Following(kind, Idle.pc)
  BY IdleProcess, IdleIsProc DEF Base, Placed
<1>2. harm' = harm
  BY DEF Still
<1> QED  BY <1>1, <1>2, StillFacts, ProcStep

LEMMA ReadsStay ==
  ASSUME Base, NEW p, NEW chain, MarkReads(p, chain)
  PROVE  "sealed" \notin reads'
BY DEF Base, SealedStaysSealed, MarkReads, load_development

LEMMA DataFacts ==
  ASSUME NEW c \in Contents, Kept(c), NEW p \in Procs
  PROVE  /\ Data(p) \in {None, c} /\ (Data(p) = None => Loaded(DataFile) = None)
         /\ ProofsRight(c, proc[p].proofs) /\ proc[p].data \in {None, c}
<1>1. proc[p].data \in {None, c} /\ ProofsRight(c, proc[p].proofs)
  BY DEF Kept, ProcsRight, Process, Sound
<1>2. Loaded(DataFile) \in {None, c}
  BY LoadedIs DEF Kept, Given
<1> QED  BY <1>1, <1>2 DEF Data

LEMMA RunStartStep ==
  ASSUME NEW c \in Contents, Base, Kept(c), kind # "acquisition", Steady, Still, NEW p \in Procs,
         NEW chain \in Chains, NEW start \in Nat, NEW until \in Nat, start < until, until <= EndDay,
         RunStart(p, chain, start, until),
         kind = "worker" => /\ proc[p].pc = "turn"
                            /\ \E s \in Range(Batches[proc[p].batch]) :
                                 chain = <<s, Pairs[proc[p].pair]>> /\ start = proc[p].cursors[s]
  PROVE  Base' /\ Kept(c)'
<1> DEFINE q == proc[p]
           v == verify_chain(Data(p), q.proofs, chain, start)
           turn == IF kind = "worker" THEN NextTurn(p) ELSE q.turn
           data == IF NeedsData(chain) THEN Data(p) ELSE q.data
           r == Started(q, chain, start, until, v.pred, v.proofs, turn, data)
<1>0. EndDay \in Nat /\ start \in 0..EndDay /\ None \notin Contents
  BY ValidationAssumption
<1>1. /\ MarkReads(p, chain)
      /\ IF v.bad # "none" THEN Refuse(p, v.bad) ELSE Become(p, r) /\ UNCHANGED refused
  BY DEF RunStart, StartOn, Started
<1>2. "sealed" \notin reads'
  BY <1>1, ReadsStay
<1>3. /\ Data(p) \in {None, c} /\ (Data(p) = None => Loaded(DataFile) = None)
      /\ ProofsRight(c, q.proofs) /\ q.data \in {None, c}
  BY DataFacts
<1>4. IsProc(q) /\ Process(kind, c, q) /\ (Untouched => Behind(catalog.rows, kind, q))
  BY DEF Base, Shapes, ProcShape, Kept, ProcsRight
<1>5. kind = "worker" /\ Untouched => Reached(catalog.rows, chain, start)
  BY <1>4 DEF Behind
<1>6. harm' = harm
  BY DEF Still
<1>7. CASE v.bad # "none"
  <2>1. Refuse(p, v.bad) /\ Excused(v.bad)
    <3>1. Excused(verify_chain(Data(p), q.proofs, chain, start).bad)
      BY <1>0, <1>3, <1>5, <1>7, ChainRefused DEF Kept, Base
    <3> QED  BY <3>1, <1>1, <1>7
  <2> HIDE DEF v
  <2>2. Become(p, Idle) /\ RefusalsAreExplained'
    BY <2>1, <1>6, RefuseFacts DEF Base
  <2> QED  BY <2>2, <1>2, EndStep
<1>8. CASE v.bad = "none"
  <2>1. Become(p, r) /\ refused' = refused
    BY <1>1, <1>8
  <2>2. /\ v.pred = DigestsOf(c, chain)[start] /\ ProofsRight(c, v.proofs)
        /\ start > 0 => <<chain, start - 1>> \in DOMAIN v.proofs
        /\ NeedsData(chain) => Data(p) = c
        /\ StoredRight(c, chain, start)
    BY <1>0, <1>3, <1>8, ChainVerified
  <2> HIDE DEF v, turn, data, q
  <2>3. data \in {None, c} /\ (NeedsData(chain) => data = c)
    BY <1>3, <2>2 DEF data
  <2>4. /\ IsProc(r) /\ r.pc = "run" /\ r.chain = chain /\ r.day = start /\ r.until = until
        /\ r.pred = v.pred /\ r.proofs = v.proofs /\ r.data = data
        /\ Alike(r, q, {"pc", "chain", "day", "until", "pred", "proofs", "turn", "data"})
    BY <1>4, RunRecords
  <2>5. r.batch = q.batch /\ r.pair = q.pair /\ r.cursors = q.cursors /\ r.published = q.published
    BY <2>4 DEF Alike, Fields
  <2> HIDE DEF r
  <2>6. Sound(c, r) /\ Running(c, r) /\ Publishing(c, r)
    BY <2>2, <2>3, <2>4 DEF Sound, Running, Publishing
  <2>7. kind = "worker" => Positioned(c, r)
    <3> HAVE kind = "worker"
    <3>1. q.pc = "turn" /\ \E s \in Range(Batches[q.batch]) : chain = <<s, Pairs[q.pair]>>
      BY DEF q
    <3>2. Positioned(c, q)
      BY <1>4 DEF Process
    <3> QED  BY <3>1, <3>2, <2>4, <2>5 DEF Positioned
  <2>8. Process(kind, c, r)
    BY <2>6, <2>7 DEF Process
  <2>9. Untouched => Behind(catalog'.rows, kind, r)
    <3> HAVE Untouched
    <3>1. catalog' = catalog /\ Behind(catalog.rows, kind, q)
      BY <1>4 DEF Still
    <3>2. Reached(catalog.rows, chain, start)
      <4>0. Len(catalog.rows[chain]) \in Nat
        BY DEF Kept, RowsPossible
      <4>1. CASE start = 0
        BY <4>0, <4>1 DEF Reached
      <4>2. CASE start # 0
        <5>1. start - 1 \in Nat /\ start - 1 \in 0..(start - 1)
          BY <4>2
        <5>2. start - 1 < Len(catalog.rows[chain])
          BY <5>1, <2>2, HonestRows DEF Kept, StoredRight
        <5> QED  BY <5>2, <4>0 DEF Reached
      <4> QED  BY <4>1, <4>2
    <3>3. kind = "worker" => q.pc = "turn"
      BY DEF q
    <3> QED  BY <3>1, <3>2, <3>3, <2>4, <2>5 DEF Behind
  <2>10. Following(kind, r.pc)
    BY <2>4 DEF Base, Placed, Following
  <2>11. RefusalsAreExplained'
    BY <2>1, <1>6 DEF Base, RefusalsAreExplained
  <2> QED  BY <2>1, <2>4, <2>8, <2>9, <2>10, <2>11, <1>2, <1>6, StillFacts, ProcStep
<1> QED  BY <1>7, <1>8

LEMMA ReportsRefused ==
  ASSUME NEW c \in Contents, Base, Kept(c), kind # "acquisition", NEW p \in Procs,
         NEW source \in Strategies, NEW pairs \in Seq(Range(Pairs)),
         kind = "worker" /\ Untouched =>
           \A pair \in Range(pairs) : Reached(catalog.rows, <<source, pair>>, EndDay),
         _verified_reports(p, source, pairs).bad # "none"
  PROVE  Excused(_verified_reports(p, source, pairs).bad)
<1> DEFINE proofs == proc[p].proofs
           check(pair) == verify_chain(Data(p), proofs, <<source, pair>>, EndDay)
           verified == [pair \in Range(pairs) |-> check(pair)]
           wrong == {i \in DOMAIN pairs : verified[pairs[i]].bad # "none"}
           good == [bad |-> "none", terminal |-> [pair \in Range(pairs) |-> verified[pair].pred],
                    proofs |-> With(proofs, Digests({source} \X Range(pairs), EndDay))]
           v == _verified_reports(p, source, pairs)
<1>0. EndDay \in Nat /\ EndDay \in 0..EndDay
  BY ValidationAssumption
<1>1. v = IF wrong # {} THEN [bad |-> verified[pairs[Min(wrong)]].bad, terminal |-> <<>>, proofs |-> <<>>]
          ELSE good
  BY DEF _verified_reports, Together
<1>2. wrong # {} /\ v.bad = verified[pairs[Min(wrong)]].bad
  <2> HIDE DEF verified, wrong, v
  <2>1. v.bad # "none"
    BY DEF v
  <2> QED  BY <1>1, <2>1
<1>3. DOMAIN pairs \subseteq Nat /\ \A i \in DOMAIN pairs : pairs[i] \in Range(pairs) /\ pairs[i] \in Range(Pairs)
  BY DEF Range
<1>4. Min(wrong) \in wrong
  <2>1. wrong \subseteq Nat
    BY <1>3
  <2> QED  BY <1>2, <2>1, MinIsLeast
<1> DEFINE pair == pairs[Min(wrong)]
<1>5. pair \in Range(pairs) /\ pair \in Range(Pairs) /\ verified[pair].bad # "none"
  <2> HIDE DEF verified
  <2> QED  BY <1>3, <1>4
<1> HIDE DEF pair
<1>6. verified[pair] = check(pair)
  BY <1>5
<1>7. <<source, pair>> \in Chains
  BY <1>5 DEF Chains
<1>8. Data(p) \in {None, c} /\ (Data(p) = None => Loaded(DataFile) = None) /\ ProofsRight(c, proofs)
  BY DataFacts
<1>9. verify_chain(Data(p), proofs, <<source, pair>>, EndDay).bad # "none"
  BY <1>5, <1>6
<1> DEFINE chain == <<source, pair>>
<1>10. chain \in Chains /\ verify_chain(Data(p), proofs, chain, EndDay).bad # "none"
       /\ (kind = "worker" /\ Untouched => Reached(catalog.rows, chain, EndDay))
  BY <1>5, <1>7, <1>9
<1> HIDE DEF chain, proofs
<1>11. Excused(verify_chain(Data(p), proofs, chain, EndDay).bad)
  BY <1>0, <1>8, <1>10, ChainRefused DEF Kept, Base
<1>12. Excused(check(pair).bad)
  BY <1>11 DEF chain, proofs
<1> QED  BY <1>2, <1>6, <1>12 DEF pair

LEMMA ReportsVerified ==
  ASSUME NEW c \in Contents, Kept(c), NEW p \in Procs, NEW source \in Strategies,
         NEW pairs \in Seq(Range(Pairs)), pairs # <<>>, _verified_reports(p, source, pairs).bad = "none"
  PROVE  /\ \A pair \in Range(pairs) :
              _verified_reports(p, source, pairs).terminal[pair] = DigestsOf(c, <<source, pair>>)[EndDay]
         /\ ProofsRight(c, _verified_reports(p, source, pairs).proofs)
         /\ NeedsData(<<source>>) => Data(p) = c
<1> DEFINE proofs == proc[p].proofs
           check(pair) == verify_chain(Data(p), proofs, <<source, pair>>, EndDay)
           verified == [pair \in Range(pairs) |-> check(pair)]
           wrong == {i \in DOMAIN pairs : verified[pairs[i]].bad # "none"}
           dg == Digests({source} \X Range(pairs), EndDay)
           good == [bad |-> "none", terminal |-> [pair \in Range(pairs) |-> verified[pair].pred],
                    proofs |-> With(proofs, dg)]
           v == _verified_reports(p, source, pairs)
<1>0. EndDay \in Nat /\ EndDay \in 0..EndDay
  BY ValidationAssumption
<1>1. v = IF wrong # {} THEN [bad |-> verified[pairs[Min(wrong)]].bad, terminal |-> <<>>, proofs |-> <<>>]
          ELSE good
  BY DEF _verified_reports, Together
<1>2. DOMAIN pairs \subseteq Nat /\ Range(pairs) \subseteq Range(Pairs) /\ Range(pairs) # {}
      /\ \A pair \in Range(pairs) : \E i \in DOMAIN pairs : pair = pairs[i]
  <2>1. DOMAIN pairs = 1..Len(pairs) /\ Len(pairs) \in Nat \ {0}
        /\ \A i \in DOMAIN pairs : pairs[i] \in Range(Pairs)
    OBVIOUS
  <2>2. Range(pairs) = {pairs[i] : i \in DOMAIN pairs}
    BY DEF Range
  <2>3. 1 \in DOMAIN pairs
    BY <2>1
  <2> QED  BY <2>1, <2>2, <2>3
<1>3. wrong = {}
  <2>1. SUFFICES ASSUME wrong # {} PROVE FALSE
    OBVIOUS
  <2>2. wrong \subseteq Nat
    BY <1>2
  <2>3. Min(wrong) \in wrong
    BY <2>1, <2>2, MinIsLeast
  <2>4. verified[pairs[Min(wrong)]].bad # "none"
    BY <2>3
  <2>5. v = [bad |-> verified[pairs[Min(wrong)]].bad, terminal |-> <<>>, proofs |-> <<>>]
    BY <1>1, <2>1
  <2> HIDE DEF verified, wrong
  <2>6. v.bad = verified[pairs[Min(wrong)]].bad
    BY <2>5
  <2> QED  BY <2>4, <2>6
<1>4. v = good
  BY <1>1, <1>3
<1>5. Data(p) \in {None, c} /\ ProofsRight(c, proofs)
  BY DataFacts
<1>6. ASSUME NEW pair \in Range(pairs)
      PROVE  /\ verified[pair].pred = DigestsOf(c, <<source, pair>>)[EndDay]
             /\ NeedsData(<<source, pair>>) => Data(p) = c
             /\ \A d \in 0..(EndDay - 1) : Digest(Row(<<source, pair>>, d)) = DigestsOf(c, <<source, pair>>)[d + 1]
  <2>1. verified[pair] = check(pair)
    OBVIOUS
  <2>2. verified[pair].bad = "none"
    BY <1>2, <1>3
  <2> DEFINE chain == <<source, pair>>
  <2>3. chain \in Chains
    BY <1>2 DEF Chains
  <2>4. verify_chain(Data(p), proofs, chain, EndDay).bad = "none"
    BY <2>1, <2>2
  <2> HIDE DEF chain
  <2>5. /\ verify_chain(Data(p), proofs, chain, EndDay).pred = DigestsOf(c, chain)[EndDay]
        /\ NeedsData(chain) => Data(p) = c
        /\ StoredRight(c, chain, EndDay)
    BY <1>0, <1>5, <2>3, <2>4, ChainVerified
  <2> QED  BY <2>1, <2>5 DEF chain, StoredRight
<1>7. NeedsData(<<source>>) => Data(p) = c
  <2>1. PICK pair \in Range(pairs) : TRUE
    BY <1>2
  <2>2. NeedsData(<<source>>) => NeedsData(<<source, pair>>)
    BY DEF NeedsData
  <2> QED  BY <2>2, <1>6
<1>8. ProofsRight(c, dg)
  <2>1. DOMAIN dg = ({source} \X Range(pairs)) \X (0..(EndDay - 1))
        /\ \A ch \in {source} \X Range(pairs), d \in 0..(EndDay - 1) : dg[<<ch, d>>] = Digest(Row(ch, d))
    <3> HIDE DEF Digest, Row
    <3> QED  BY DEF Digests
  <2> HIDE DEF dg
  <2>2. ASSUME NEW ch \in Chains, NEW d \in 0..(EndDay - 1), <<ch, d>> \in DOMAIN dg
        PROVE  dg[<<ch, d>>] = DigestsOf(c, ch)[d + 1]
    <3>1. ch \in {source} \X Range(pairs)
      BY <2>1, <2>2
    <3>2. PICK pair \in Range(pairs) : ch = <<source, pair>>
      BY <3>1
    <3> QED  BY <3>1, <3>2, <2>1, <1>6
  <2> QED  BY <2>2 DEF ProofsRight
<1> HIDE DEF dg, proofs
<1>9. ProofsRight(c, With(proofs, dg))
  BY <1>5, <1>8, WithRight
<1> HIDE DEF verified
<1>10. /\ \A pair \in Range(pairs) : v.terminal[pair] = verified[pair].pred
       /\ v.proofs = With(proofs, dg)
  <2> HIDE DEF v
  <2> QED  BY <1>4
<1> QED  BY <1>6, <1>7, <1>9, <1>10

LEMMA BoundFacts ==
  ASSUME NEW c, NEW s \in Strategies, NEW keys \in Seq(Views(s)), NEW todo,
         todo = [j \in DOMAIN keys |-> Report(c, keys[j])]
  PROVE  /\ todo \in Seq({Report(c, k) : k \in Keys})
         /\ Range(keys) = Views(s) => Range(todo) = Reports(c, s)
<1>1. DOMAIN keys = 1..Len(keys) /\ Len(keys) \in Nat /\ \A j \in DOMAIN keys : keys[j] \in Views(s)
  OBVIOUS
<1>2. \A j \in DOMAIN keys : keys[j] \in Keys
  BY <1>1, ViewsFacts
<1>3. DOMAIN todo = 1..Len(keys) /\ \A j \in 1..Len(keys) : todo[j] = Report(c, keys[j])
  BY <1>1
<1> HIDE DEF Report, Keys, Views
<1>4. todo = [j \in 1..Len(keys) |-> todo[j]]
  BY <1>1
<1>5. \A j \in 1..Len(keys) : todo[j] \in {Report(c, k) : k \in Keys}
  BY <1>1, <1>2, <1>3
<1>6. todo \in Seq({Report(c, k) : k \in Keys})
  BY <1>1, <1>4, <1>5
<1>7. Range(todo) = {Report(c, k) : k \in Range(keys)}
  <2>1. Range(todo) = {todo[j] : j \in 1..Len(keys)} /\ Range(keys) = {keys[j] : j \in 1..Len(keys)}
    BY <1>1, <1>3 DEF Range
  <2> QED  BY <2>1, <1>3
<1> QED  BY <1>6, <1>7 DEF Reports

LEMMA ExportRecord ==
  ASSUME NEW q, IsProc(q), NEW todo, NEW proofs, NEW data
  PROVE  /\ IsProc(Exported(q, todo, proofs, data)) /\ Exported(q, todo, proofs, data).pc = "publish"
         /\ Exported(q, todo, proofs, data).todo = todo /\ Exported(q, todo, proofs, data).proofs = proofs
         /\ Exported(q, todo, proofs, data).data = data
         /\ Alike(Exported(q, todo, proofs, data), q, {"pc", "todo", "proofs", "data"})
<1>1. {"pc", "todo", "proofs", "data"} \subseteq Fields
  BY DEF Fields
<1> HIDE DEF Fields
<1>2. DOMAIN q = Fields
  BY DEF IsProc
<1> QED  BY <1>1, <1>2 DEF IsProc, Exported, Alike

LEMMA ExportStep ==
  ASSUME NEW c \in Contents, Base, Kept(c), kind # "acquisition", Steady, Still, NEW p \in Procs,
         NEW s \in Strategies, NEW pairs \in Seq(Range(Pairs)), pairs # <<>>, NEW keys \in Seq(Views(s)),
         \A j \in DOMAIN keys : Range(Population(keys[j][2])) \subseteq Range(pairs),
         Export(p, s, pairs, keys, "publish"),
         kind = "worker" => /\ proc[p].pc = "export" /\ Range(keys) = Views(s)
                            /\ s = Batches[proc[p].batch][proc[p].turn]
  PROVE  Base' /\ Kept(c)'
<1> DEFINE q == proc[p]
           v == _verified_reports(p, s, pairs)
           todo == Bound(keys, v.terminal)
           data == IF NeedsData(<<s>>) THEN Data(p) ELSE q.data
           r == Exported(q, todo, v.proofs, data)
<1>0. EndDay \in Nat
  BY ValidationAssumption
<1>1. /\ MarkReads(p, <<s, pairs[1]>>)
      /\ IF v.bad # "none" THEN Refuse(p, v.bad) ELSE Become(p, r) /\ UNCHANGED refused
  BY DEF Export, ExportOn, Exported
<1>2. "sealed" \notin reads'
  BY <1>1, ReadsStay
<1>3. Data(p) \in {None, c} /\ q.data \in {None, c}
  BY DataFacts
<1>4. IsProc(q) /\ Process(kind, c, q) /\ (Untouched => Behind(catalog.rows, kind, q))
  BY DEF Base, Shapes, ProcShape, Kept, ProcsRight
<1>5. kind = "worker" => /\ q.batch \in DOMAIN Batches /\ q.turn \in DOMAIN Batches[q.batch]
                         /\ s \in Range(Batches[q.batch]) /\ q.published = {}
  <2> HAVE kind = "worker"
  <2>1. q.batch \in DOMAIN Batches /\ q.turn \in DOMAIN Batches[q.batch] /\ q.published = {}
    BY <1>4 DEF Process, Positioned
  <2> QED  BY <2>1 DEF Range
<1>6. kind = "worker" /\ Untouched =>
        \A pair \in Range(pairs) : Reached(catalog.rows, <<s, pair>>, EndDay)
  <2> HAVE kind = "worker" /\ Untouched
  <2> TAKE pair \in Range(pairs)
  <2>1. \A j \in DOMAIN Pairs, t \in Range(Batches[q.batch]) : Reached(catalog.rows, <<t, Pairs[j]>>, EndDay)
    BY <1>4 DEF Behind
  <2>2. pair \in Range(Pairs)
    BY DEF Range
  <2>3. PICK j \in DOMAIN Pairs : pair = Pairs[j]
    BY <2>2 DEF Range
  <2> QED  BY <2>1, <2>3, <1>5
<1>7. harm' = harm
  BY DEF Still
<1>8. CASE v.bad # "none"
  <2>1. Refuse(p, v.bad) /\ Excused(v.bad)
    <3>1. Excused(_verified_reports(p, s, pairs).bad)
      BY <1>6, <1>8, ReportsRefused
    <3> QED  BY <3>1, <1>1, <1>8
  <2> HIDE DEF v
  <2>2. Become(p, Idle) /\ RefusalsAreExplained'
    BY <2>1, <1>7, RefuseFacts DEF Base
  <2> QED  BY <2>2, <1>2, EndStep
<1>9. CASE v.bad = "none"
  <2>1. Become(p, r) /\ refused' = refused
    BY <1>1, <1>9
  <2>2. /\ \A pair \in Range(pairs) : v.terminal[pair] = DigestsOf(c, <<s, pair>>)[EndDay]
        /\ ProofsRight(c, v.proofs) /\ (NeedsData(<<s>>) => Data(p) = c)
    BY <1>9, ReportsVerified
  <2> HIDE DEF v, data, q
  <2>3. data \in {None, c}
    BY <1>3 DEF data
  <2>4. todo = [j \in DOMAIN keys |-> Report(c, keys[j])]
    <3>1. \A j \in DOMAIN keys :
             /\ keys[j] \in Views(s)
             /\ \A pair \in Range(Population(keys[j][2])) :
                  v.terminal[pair] = DigestsOf(c, <<s, pair>>)[EndDay]
      <4>1. \A j \in DOMAIN keys : keys[j] \in Views(s)
        OBVIOUS
      <4> QED  BY <4>1, <2>2
    <3> QED  BY <3>1, BoundAreReports
  <2> HIDE DEF todo
  <2>5. /\ todo \in Seq({Report(c, k) : k \in Keys})
        /\ Range(keys) = Views(s) => Range(todo) = Reports(c, s)
    BY <2>4, BoundFacts
  <2>6. /\ IsProc(r) /\ r.pc = "publish" /\ r.todo = todo /\ r.proofs = v.proofs /\ r.data = data
        /\ Alike(r, q, {"pc", "todo", "proofs", "data"})
    <3>1. IsProc(q)
      BY <1>4
    <3> QED  BY <3>1, ExportRecord
  <2>7. r.batch = q.batch /\ r.turn = q.turn /\ r.published = q.published
    BY <2>6 DEF Alike, Fields
  <2> HIDE DEF r
  <2>8. Sound(c, r) /\ Running(c, r) /\ Publishing(c, r)
    BY <2>2, <2>3, <2>5, <2>6 DEF Sound, Running, Publishing
  <2>9. kind = "worker" => Positioned(c, r)
    <3> HAVE kind = "worker"
    <3>1. r.published \cup Range(r.todo) = Reports(c, Batches[r.batch][r.turn])
      BY <2>5, <2>6, <2>7, <1>5 DEF q
    <3> QED  BY <3>1, <1>5, <2>6, <2>7 DEF Positioned
  <2>10. Process(kind, c, r)
    BY <2>8, <2>9 DEF Process
  <2>11. Untouched => Behind(catalog'.rows, kind, r)
    <3> HAVE Untouched
    <3>1. catalog' = catalog /\ Behind(catalog.rows, kind, q)
      BY <1>4 DEF Still
    <3>2. kind = "worker" => q.pc = "export"
      BY DEF q
    <3> QED  BY <3>1, <3>2, <2>6, <2>7 DEF Behind
  <2>12. Following(kind, r.pc)
    BY <2>6 DEF Base, Placed, Following
  <2>13. RefusalsAreExplained'
    BY <2>1, <1>7 DEF Base, RefusalsAreExplained
  <2> QED  BY <2>1, <2>6, <2>10, <2>11, <2>12, <2>13, <1>2, <1>7, StillFacts, ProcStep
<1> QED  BY <1>8, <1>9

\* The process after a day, and after the last one of its window.
Next1(q, digest) == Advanced(q, q.day + 1, digest, With(q.proofs, [k \in {<<q.chain, q.day>>} |-> digest]))
Last1(q, digest) == [TurnedOver(q, q.until) EXCEPT !.proofs = Next1(q, digest).proofs]

LEMMA ProofsRecord ==
  ASSUME NEW q, IsProc(q), NEW proofs
  PROVE  /\ IsProc([q EXCEPT !.proofs = proofs]) /\ [q EXCEPT !.proofs = proofs].proofs = proofs
         /\ Alike([q EXCEPT !.proofs = proofs], q, {"proofs"})
<1>1. {"proofs"} \subseteq Fields
  BY DEF Fields
<1> HIDE DEF Fields
<1>2. DOMAIN q = Fields
  BY DEF IsProc
<1> QED  BY <1>1, <1>2 DEF IsProc, Alike

LEMMA DayProved ==
  ASSUME NEW c, NEW q, IsProc(q), Sound(c, q), Running(c, q), q.pc = "run"
  PROVE  LET digest == DigestsOf(c, q.chain)[q.day + 1]
             n == Next1(q, digest)
         IN /\ IsProc(n) /\ n.day = q.day + 1 /\ n.pred = digest /\ Alike(n, q, {"day", "pred", "proofs"})
            /\ ProofsRight(c, n.proofs) /\ <<q.chain, q.day>> \in DOMAIN n.proofs
<1> DEFINE digest == DigestsOf(c, q.chain)[q.day + 1]
           dg == [k \in {<<q.chain, q.day>>} |-> digest]
           n == Next1(q, digest)
<1>1. ProofsRight(c, dg) /\ DOMAIN dg = {<<q.chain, q.day>>}
  BY DEF ProofsRight
<1>2. ProofsRight(c, q.proofs)
  BY DEF Sound
<1> HIDE DEF dg, digest
<1>3. ProofsRight(c, With(q.proofs, dg)) /\ DOMAIN With(q.proofs, dg) = DOMAIN q.proofs \cup DOMAIN dg
  BY <1>1, <1>2, WithRight
<1>4. n = Advanced(q, q.day + 1, digest, With(q.proofs, dg))
  BY DEF Next1, dg
<1> HIDE DEF n
<1>5. /\ IsProc(n) /\ n.day = q.day + 1 /\ n.pred = digest /\ n.proofs = With(q.proofs, dg)
      /\ Alike(n, q, {"day", "pred", "proofs"})
  BY <1>4, RunRecords
<1> QED  BY <1>1, <1>3, <1>5 DEF n, digest

LEMMA NextProcess ==
  ASSUME NEW c, NEW k, NEW q, IsProc(q), Process(k, c, q), q.pc = "run", q.day + 1 < q.until,
         NEW new
  PROVE  LET n == Next1(q, DigestsOf(c, q.chain)[q.day + 1])
         IN /\ IsProc(n) /\ n.pc = "run" /\ Process(k, c, n)
            /\ Behind(new, k, q) /\ Reached(new, q.chain, q.day + 1) => Behind(new, k, n)
<1> DEFINE n == Next1(q, DigestsOf(c, q.chain)[q.day + 1])
<1>1. Sound(c, q) /\ Running(c, q) /\ (k = "worker" => Positioned(c, q))
  BY DEF Process
<1>2. /\ IsProc(n) /\ n.day = q.day + 1 /\ n.pred = DigestsOf(c, q.chain)[q.day + 1]
      /\ Alike(n, q, {"day", "pred", "proofs"})
      /\ ProofsRight(c, n.proofs) /\ <<q.chain, q.day>> \in DOMAIN n.proofs
  BY <1>1, DayProved
<1> HIDE DEF n
<1>3. /\ n.pc = "run" /\ n.chain = q.chain /\ n.until = q.until /\ n.data = q.data /\ n.batch = q.batch
      /\ n.pair = q.pair /\ n.cursors = q.cursors /\ n.published = q.published
  BY <1>2 DEF Alike, Fields
<1>4. q.day \in Nat /\ (q.day + 1) - 1 = q.day /\ q.day + 1 \in Nat
  BY <1>1 DEF Running
<1>5. Sound(c, n) /\ Running(c, n) /\ Publishing(c, n)
  BY <1>1, <1>2, <1>3, <1>4 DEF Sound, Running, Publishing
<1>6. k = "worker" => Positioned(c, n)
  BY <1>1, <1>3 DEF Positioned
<1>7. Behind(new, k, q) /\ Reached(new, q.chain, q.day + 1) => Behind(new, k, n)
  BY <1>2, <1>3 DEF Behind
<1> QED  BY <1>2, <1>3, <1>5, <1>6, <1>7 DEF Process, n

LEMMA LastProcess ==
  ASSUME NEW c, NEW q, IsProc(q), Process("worker", c, q), q.pc = "run", q.until = q.day + 1,
         NEW new
  PROVE  LET n == Last1(q, DigestsOf(c, q.chain)[q.day + 1])
         IN /\ IsProc(n) /\ n.pc = "turn" /\ Process("worker", c, n)
            /\ Behind(new, "worker", q) /\ Reached(new, q.chain, q.day + 1) => Behind(new, "worker", n)
<1> DEFINE proofs == Next1(q, DigestsOf(c, q.chain)[q.day + 1]).proofs
           o == TurnedOver(q, q.until)
           n == Last1(q, DigestsOf(c, q.chain)[q.day + 1])
<1>1. Sound(c, q) /\ Running(c, q) /\ Positioned(c, q)
  BY DEF Process
<1>2. ProofsRight(c, proofs)
  BY <1>1, DayProved
<1>3. n = [o EXCEPT !.proofs = proofs]
  BY DEF Last1
<1> HIDE DEF o, proofs, n
<1>4. /\ IsProc(o) /\ o.pc = "turn" /\ o.cursors = [q.cursors EXCEPT ![q.chain[1]] = q.until]
      /\ Alike(o, q, {"pc", "turn", "chain", "day", "until", "pred", "cursors"})
  BY TurnedRecord DEF o
<1>5. IsProc(n) /\ n.proofs = proofs /\ Alike(n, o, {"proofs"})
  BY <1>3, <1>4, ProofsRecord
<1>6. /\ n.pc = "turn" /\ n.cursors = [q.cursors EXCEPT ![q.chain[1]] = q.until]
      /\ n.data = q.data /\ n.batch = q.batch /\ n.pair = q.pair /\ n.published = q.published
  BY <1>4, <1>5 DEF Alike, Fields
<1>7. Sound(c, n) /\ Running(c, n) /\ Publishing(c, n)
  BY <1>1, <1>2, <1>5, <1>6 DEF Sound, Running, Publishing
<1>8. /\ q.cursors \in [Range(Batches[q.batch]) -> 0..EndDay] /\ q.until \in 0..EndDay
      /\ q.batch \in DOMAIN Batches /\ q.pair \in DOMAIN Pairs /\ q.published = {}
      /\ \E s \in Range(Batches[q.batch]) : q.chain = <<s, Pairs[q.pair]>>
  <2>1. q.until \in 0..EndDay
    <3>1. q.until \in Nat /\ q.until <= EndDay
      BY <1>1 DEF Running
    <3>2. EndDay \in Nat
      BY ValidationAssumption
    <3> QED  BY <3>1, <3>2
  <2> QED  BY <2>1, <1>1 DEF Positioned
<1>9. PICK s \in Range(Batches[q.batch]) : q.chain = <<s, Pairs[q.pair]>>
  BY <1>8
<1>10. /\ n.cursors \in [Range(Batches[q.batch]) -> 0..EndDay] /\ n.cursors[s] = q.until
       /\ \A t \in Range(Batches[q.batch]) : t # s => n.cursors[t] = q.cursors[t]
  BY <1>6, <1>8, <1>9
<1>11. Positioned(c, n)
  BY <1>6, <1>8, <1>10 DEF Positioned
<1>12. ASSUME Behind(new, "worker", q), Reached(new, q.chain, q.day + 1)
       PROVE  Behind(new, "worker", n)
  <2>1. ASSUME NEW t \in Range(Batches[q.batch])
        PROVE  Reached(new, <<t, Pairs[q.pair]>>, n.cursors[t])
    <3>1. CASE t = s
      BY <3>1, <1>9, <1>10, <1>12
    <3>2. CASE t # s
      BY <3>2, <1>10, <1>12 DEF Behind
    <3> QED  BY <3>1, <3>2
  <2> QED  BY <2>1, <1>6, <1>12 DEF Behind
<1> QED  BY <1>5, <1>6, <1>7, <1>11, <1>12 DEF Process, n

LEMMA RunDayStep ==
  ASSUME NEW c \in Contents, Base, Kept(c), kind # "acquisition", NEW p \in Procs, RunDay(p)
  PROVE  Base' /\ Kept(c)'
<1> DEFINE q == proc[p]
           day == q.day
           chain == q.chain
           b == replay_checkpoint(DataFor(chain, q.data), chain, day, q.pred)
           digest == DigestsOf(c, chain)[day + 1]
<1>0. EndDay \in Nat
  BY ValidationAssumption
<1>1. IsProc(q) /\ Process(kind, c, q) /\ (Untouched => Behind(catalog.rows, kind, q)) /\ q.pc = "run"
  BY DEF Base, Shapes, ProcShape, Kept, ProcsRight, RunDay, Is
<1>2. Sound(c, q) /\ Running(c, q)
  BY <1>1 DEF Process
<1>3. chain \in Chains /\ day \in Nat /\ q.until \in Nat /\ day < q.until /\ q.until <= EndDay
      /\ q.pred = DigestsOf(c, chain)[day] /\ (NeedsData(chain) => q.data = c)
  BY <1>1, <1>2 DEF Running
<1>4. b = TrueBody(c, chain, day)
  BY <1>3 DEF TrueBody, DataFor
<1>5. day \in 0..(EndDay - 1)
  BY <1>0, <1>3
<1>6. b.day = day /\ b.chain = chain /\ Digest(b) = digest
  BY <1>4, <1>5, DigestsFollow, TrueBodyFacts
<1>7. Untouched => Reached(catalog.rows, chain, day)
  BY <1>1 DEF Behind
<1>8. Steady /\ files' = files /\ harm' = harm /\ faults' = faults /\ reads' = reads
  BY DEF RunDay, Steady
<1>9. "sealed" \notin reads'
  BY <1>8 DEF Base, SealedStaysSealed
<1>10. RowsPossible(c) /\ RowsHonest(c) /\ CatalogShape /\ RefusalsAreExplained /\ FilesRight(c)
       /\ catalog.regs \subseteq {"frozen", "edited"} /\ kind \in {"worker", "manual"}
  BY DEF Kept, Base, Shapes, Placed
<1> DEFINE n == [q EXCEPT !.day = @ + 1, !.pred = Digest(b),
                          !.proofs = With(@, [k \in {<<chain, b.day>>} |-> Digest(b)])]
           back == [Returned(p, n.until) EXCEPT !.proofs = IF kind = "worker" THEN n.proofs ELSE @]
           r == IF n.day < n.until THEN n ELSE back
<1>11. IF WriteOutcome(b) # "none" THEN Refuse(p, WriteOutcome(b)) /\ UNCHANGED catalog
       ELSE _write_replayed(b) /\ Become(p, r) /\ UNCHANGED refused
  BY DEF RunDay
<1>12. n = Next1(q, digest)
  BY <1>6 DEF Next1, Advanced
<1> HIDE DEF b, n, q, day, chain, digest
<1>13. CASE WriteOutcome(b) # "none"
  <2>1. Excused(WriteOutcome(TrueBody(c, chain, day)))
    BY <1>3, <1>4, <1>5, <1>7, <1>10, <1>13, WriteRefused
  <2>2. Become(p, Idle) /\ RefusalsAreExplained'
    BY <2>1, <1>4, <1>8, <1>10, <1>11, <1>13, RefuseFacts
  <2>3. Still
    BY <1>8, <1>11, <1>13 DEF Still
  <2> QED  BY <2>2, <2>3, <1>8, <1>9, EndStep
<1>14. CASE WriteOutcome(b) = "none"
  <2>1. _write_replayed(TrueBody(c, chain, day)) /\ Become(p, r) /\ refused' = refused
    BY <1>4, <1>11, <1>14
  <2>2. /\ RowsPossible(c)' /\ RowsHonest(c)' /\ CatalogShape' /\ catalog'.regs = catalog.regs
        /\ Longer(catalog.rows, catalog'.rows)
        /\ Untouched => Len(catalog'.rows[chain]) >= day + 1
    BY <2>1, <1>3, <1>5, <1>7, <1>8, <1>10, Written
  <2>3. FilesRight(c)'
    BY <1>8, <1>10 DEF FilesRight
  <2>4. RefusalsAreExplained'
    BY <2>1, <1>8, <1>10 DEF RefusalsAreExplained
  <2>5. \A ch \in Chains : Len(catalog.rows[ch]) \in Nat /\ Len(catalog'.rows[ch]) \in Nat
    BY <2>2, <1>10 DEF RowsPossible
  <2>6. Untouched => Behind(catalog'.rows, kind, q) /\ Reached(catalog'.rows, chain, day + 1)
    <3>1. Untouched => Behind(catalog'.rows, kind, q)
      BY <2>2, <2>5, <1>1, BehindStays DEF q
    <3>2. Untouched => Reached(catalog'.rows, chain, day + 1)
      BY <2>2 DEF Reached
    <3> QED  BY <3>1, <3>2
  <2>7. n.day = day + 1 /\ n.until = q.until
    <3>1. n.day = q.day + 1 /\ Alike(n, q, {"day", "pred", "proofs"})
      BY <1>1, <1>2, <1>12, DayProved DEF q, digest, day, chain
    <3> QED  BY <3>1 DEF Alike, Fields, day
  <2>8. IsProc(r) /\ Following(kind, r.pc) /\ Process(kind, c, r)
        /\ (Untouched => Behind(catalog'.rows, kind, r))
    <3>1. CASE n.day < n.until
      <4>1. r = n /\ q.day + 1 < q.until
        BY <3>1, <2>7 DEF day
      <4>2. IsProc(n) /\ n.pc = "run" /\ Process(kind, c, n)
            /\ (Behind(catalog'.rows, kind, q) /\ Reached(catalog'.rows, q.chain, q.day + 1)
                 => Behind(catalog'.rows, kind, n))
        BY <4>1, <1>1, <1>12, NextProcess DEF digest, day, chain
      <4>3. Untouched => Behind(catalog'.rows, kind, n)
        BY <4>2, <2>6 DEF chain, day
      <4> QED  BY <4>1, <4>2, <4>3, <1>10 DEF Following
    <3>2. CASE ~(n.day < n.until) /\ kind = "worker"
      <4>1. q.until = q.day + 1 /\ r = back
        BY <3>2, <2>7, <1>3 DEF day
      <4>2. back = Last1(q, digest)
        BY <3>2, <2>7, <1>12 DEF Returned, Last1, TurnedOver, q
      <4>3. IsProc(r) /\ r.pc = "turn" /\ Process("worker", c, r)
            /\ (Behind(catalog'.rows, "worker", q) /\ Reached(catalog'.rows, q.chain, q.day + 1)
                 => Behind(catalog'.rows, "worker", r))
        <5>1. Process("worker", c, q)
          BY <3>2, <1>1
        <5>2. r = Last1(q, DigestsOf(c, q.chain)[q.day + 1])
          BY <4>1, <4>2 DEF digest, day, chain
        <5> HIDE DEF r, back
        <5> DEFINE o == Last1(q, DigestsOf(c, q.chain)[q.day + 1])
        <5>3. IsProc(q) /\ q.pc = "run" /\ q.until = q.day + 1
          BY <4>1, <1>1
        <5>4. \A new : /\ IsProc(o) /\ o.pc = "turn" /\ Process("worker", c, o)
                       /\ Behind(new, "worker", q) /\ Reached(new, q.chain, q.day + 1) => Behind(new, "worker", o)
          <6> TAKE new
          <6> QED  BY ONLY <5>1, <5>3, LastProcess
        <5> HIDE DEF o
        <5>5. r = o
          BY <5>2 DEF o
        <5> QED  BY <5>4, <5>5
      <4>4. Untouched => Behind(catalog'.rows, "worker", r)
        BY <4>3, <3>2, <2>6 DEF chain, day
      <4> QED  BY <4>3, <4>4, <3>2 DEF Following
    <3>3. CASE ~(n.day < n.until) /\ kind # "worker"
      <4>1. r = [Idle EXCEPT !.proofs = @]
        BY <3>3 DEF Returned
      <4>2. r = Idle
        BY <4>1, IdleIsUntouched
      <4> QED  BY <4>2, <1>10, IdleProcess, IdleIsProc
    <3> QED  BY <3>1, <3>2, <3>3
  <2> HIDE DEF r, back
  <2>9. Base /\ Kept(c) /\ faults' \in 0..Faults
    BY <1>8 DEF Base, Placed
  <2>10. catalog'.regs \subseteq {"frozen", "edited"} /\ harm' = harm /\ Steady
    BY <2>2, <1>8, <1>10
  <2> QED  BY <2>1, <2>2, <2>3, <2>4, <2>8, <2>9, <2>10, <1>9, ProcStep
<1> QED  BY <1>13, <1>14

-----------------------------------------------------------------------------
(* The worker.                                                                *)

LEMMA RegisterFacts ==
  ASSUME NEW c, Base, Kept(c), register, harm' = harm
  PROVE  /\ CatalogShape' /\ catalog'.regs \subseteq {"frozen", "edited"}
         /\ RowsPossible(c)' /\ RowsHonest(c)' /\ Longer(catalog.rows, catalog'.rows)
<1>1. CatalogShape /\ catalog.regs \subseteq {"frozen", "edited"} /\ sources \in {"frozen", "edited"}
  BY DEF Base, Shapes, Placed
<1>2. catalog' = [catalog EXCEPT !.regs = @ \cup {sources}]
  BY DEF register
<1>3. catalog'.regs = catalog.regs \cup {sources} /\ catalog'.rows = catalog.rows
      /\ catalog' = [regs |-> catalog'.regs, rows |-> catalog'.rows]
  BY <1>1, <1>2 DEF CatalogShape
<1>4. CatalogShape'
  BY <1>1, <1>3 DEF CatalogShape
<1>5. RowsPossible(c)' /\ RowsHonest(c)' /\ Longer(catalog.rows, catalog'.rows)
  BY <1>3, RowsSame
<1> QED  BY <1>1, <1>3, <1>4, <1>5

LEMMA WorkerOpenStep ==
  ASSUME NEW c \in Contents, Base, Kept(c), kind # "acquisition", NEW p \in Procs, WorkerOpen(p)
  PROVE  Base' /\ Kept(c)'
<1>1. Steady /\ files' = files /\ harm' = harm /\ faults' = faults /\ reads' = reads /\ kind = "worker"
  BY DEF WorkerOpen, Steady
<1>2. "sealed" \notin reads' /\ faults' \in 0..Faults /\ FilesRight(c)' /\ RefusalsAreExplained
  BY <1>1 DEF Base, SealedStaysSealed, Placed, Kept, FilesRight
<1>3. CASE frozen = NotFrozen \/ ~verify_projection
  <2>1. Refuse(p, "projection_mismatch") /\ Still
    BY <1>1, <1>3 DEF WorkerOpen, Still
  <2>2. Excused("projection_mismatch")
    BY DEF Excused, Waits
  <2>3. Become(p, Idle) /\ RefusalsAreExplained'
    BY <2>1, <2>2, <1>1, <1>2, RefuseFacts
  <2> QED  BY <2>1, <2>3, <1>1, <1>2, EndStep
<1>4. CASE ~(frozen = NotFrozen \/ ~verify_projection)
  <2>1. register /\ IF sources # "frozen" THEN Refuse(p, "worker_registration_mismatch")
                    ELSE Become(p, [Idle EXCEPT !.pc = "begin"]) /\ UNCHANGED refused
    BY <1>4 DEF WorkerOpen
  <2>2. /\ CatalogShape' /\ catalog'.regs \subseteq {"frozen", "edited"}
        /\ RowsPossible(c)' /\ RowsHonest(c)' /\ Longer(catalog.rows, catalog'.rows)
    BY <2>1, <1>1, RegisterFacts
  <2>3. CASE sources # "frozen"
    <3>1. Excused("worker_registration_mismatch")
      BY <2>3, CausesAre DEF Excused, Base, Placed
    <3>2. Become(p, Idle) /\ RefusalsAreExplained'
      BY <3>1, <2>1, <2>3, <1>1, <1>2, RefuseFacts
    <3>3. IsProc(Idle) /\ Process(kind, c, Idle) /\ Behind(catalog'.rows, kind, Idle) /\ Following(kind, Idle.pc)
      BY <1>1, IdleProcess, IdleIsProc
    <3> QED  BY <3>2, <3>3, <2>2, <1>1, <1>2, ProcStep
  <2>4. CASE sources = "frozen"
    <3> DEFINE r == [Idle EXCEPT !.pc = "begin"]
    <3>1. Become(p, r) /\ refused' = refused
      BY <2>1, <2>4
    <3>2. /\ IsProc(r) /\ r.pc = "begin" /\ r.batch = 1 /\ r.pair = 1 /\ r.data = None /\ r.proofs = <<>>
          /\ r.published = {} /\ r.todo = <<>>
      BY IdleIsProc, IdleRecords
    <3> HIDE DEF r
    <3>3. ProofsRight(c, r.proofs)
      BY <3>2 DEF ProofsRight
    <3>4. 1 \in DOMAIN Batches /\ 1 \in DOMAIN Pairs
      <4>1. Batches \in Seq(Seq(Strategies) \ {<<>>}) /\ Batches # <<>>
        BY ValidationAssumption
      <4>2. 1 \in DOMAIN Batches
        BY <4>1
      <4> QED  BY <4>2, PairFacts
    <3>5. Process(kind, c, r)
      BY <3>2, <3>3, <3>4 DEF Process, Sound, Running, Publishing, Positioned
    <3>6. Behind(catalog'.rows, kind, r)
      BY <3>2 DEF Behind
    <3>7. RefusalsAreExplained'
      BY <3>1, <1>1, <1>2 DEF RefusalsAreExplained
    <3>8. Following(kind, r.pc)
      BY <3>2, <1>1 DEF Following
    <3> QED  BY <3>1, <3>2, <3>5, <3>6, <3>7, <3>8, <2>2, <1>1, <1>2, ProcStep
  <2> QED  BY <2>3, <2>4
<1> QED  BY <1>3, <1>4

LEMMA CursorFacts ==
  ASSUME NEW c, RowsPossible(c), NEW chain \in Chains
  PROVE  /\ Cursor(chain) \in 0..EndDay
         /\ RowsHonest(c) /\ Untouched => Reached(catalog.rows, chain, Cursor(chain))
<1> DEFINE rows == catalog.rows[chain]
           S == {0} \cup {b.day + 1 : b \in Range(rows)}
<1>0. EndDay \in Nat
  BY ValidationAssumption
<1>1. rows \in Seq(Possible(c, chain))
  BY DEF RowsPossible
<1>2. \A b \in Possible(c, chain) : b.day \in 0..(EndDay - 1)
  BY TrueBodyFacts DEF Possible
<1>3. Range(rows) = {rows[i] : i \in 1..Len(rows)} /\ Len(rows) \in Nat
      /\ \A i \in 1..Len(rows) : rows[i] \in Possible(c, chain)
  <2> HIDE DEF rows
  <2> QED  BY <1>1 DEF Range
<1>4. S \subseteq 0..EndDay /\ S # {} /\ S \subseteq Nat
  BY <1>0, <1>2, <1>3
<1>5. Cursor(chain) = Max(S)
  BY DEF Cursor
<1>6. Max(S) \in S
  <2> HIDE DEF S
  <2>1. \A x \in S : x <= EndDay
    BY <1>0, <1>4
  <2> QED  BY <2>1, <1>0, <1>4, MaxIsGreatest
<1>7. ASSUME RowsHonest(c), Untouched
      PROVE  \A x \in S : x <= Len(rows)
  <2>1. \A i \in 1..Len(rows) : rows[i] = TrueBody(c, chain, i - 1)
    BY <1>7 DEF RowsHonest
  <2>2. \A i \in 1..Len(rows) : rows[i].day = i - 1
    BY <2>1, TrueBodyFacts
  <2> HIDE DEF rows
  <2>3. \A i \in 1..Len(rows) : rows[i].day + 1 <= Len(rows)
    BY <2>2, <1>3
  <2> QED  BY <2>3, <1>3
<1> HIDE DEF S
<1> QED  BY <1>4, <1>5, <1>6, <1>7 DEF Reached

\* A worker that turns to an instrument stands after the last day of each chain.
LEMMA AtPairProcess ==
  ASSUME NEW c, RowsPossible(c), RowsHonest(c), NEW q, IsProc(q), Sound(c, q), q.batch \in DOMAIN Batches,
         q.pair \in DOMAIN Pairs, q.published = {},
         Untouched => \A j \in 1..(q.pair - 1), s \in Range(Batches[q.batch]) :
                        Reached(catalog.rows, <<s, Pairs[j]>>, EndDay)
  PROVE  /\ IsProc(AtPair(q)) /\ AtPair(q).pc = "turn" /\ Process("worker", c, AtPair(q))
         /\ Untouched => Behind(catalog.rows, "worker", AtPair(q))
<1> DEFINE cursors == [s \in Range(Batches[q.batch]) |-> Cursor(<<s, Pairs[q.pair]>>)]
           r == AtPair(q)
<1>1. r = At(q, cursors)
  BY DEF AtPair, At
<1>2. Range(Batches[q.batch]) \subseteq Strategies
  BY BatchFacts
<1>3. \A s \in Range(Batches[q.batch]) :
        /\ cursors[s] = Cursor(<<s, Pairs[q.pair]>>) /\ cursors[s] \in 0..EndDay
        /\ Untouched => Reached(catalog.rows, <<s, Pairs[q.pair]>>, cursors[s])
  <2> TAKE s \in Range(Batches[q.batch])
  <2>1. <<s, Pairs[q.pair]>> \in Chains
    BY <1>2, PairFacts
  <2>2. cursors[s] = Cursor(<<s, Pairs[q.pair]>>)
    OBVIOUS
  <2> QED  BY <2>1, <2>2, CursorFacts
<1>4. cursors \in [Range(Batches[q.batch]) -> 0..EndDay]
  BY <1>3
<1> HIDE DEF cursors, r
<1>5. IsProc(r) /\ r.pc = "turn" /\ r.cursors = cursors /\ Alike(r, q, {"pc", "turn", "cursors"})
  BY <1>1, AtRecord
<1>6. r.data = q.data /\ r.proofs = q.proofs /\ r.batch = q.batch /\ r.pair = q.pair /\ r.published = {}
  BY <1>5 DEF Alike, Fields
<1>7. Process("worker", c, r)
  BY <1>4, <1>5, <1>6 DEF Process, Sound, Running, Publishing, Positioned
<1>8. Untouched => Behind(catalog.rows, "worker", r)
  BY <1>3, <1>5, <1>6 DEF Behind
<1> QED  BY <1>5, <1>7, <1>8 DEF r

\* A step of a process that writes nothing.
LEMMA StillStep ==
  ASSUME NEW c \in Contents, Base, Kept(c), kind # "acquisition", Steady, Still, reads' = reads,
         refused' = refused, NEW p \in Procs, NEW r, IsProc(r), Become(p, r), Following(kind, r.pc),
         Process(kind, c, r), Untouched => Behind(catalog.rows, kind, r)
  PROVE  Base' /\ Kept(c)'
<1>1. harm' = harm /\ catalog' = catalog
  BY DEF Still
<1>2. "sealed" \notin reads' /\ RefusalsAreExplained'
  BY <1>1 DEF Base, SealedStaysSealed, RefusalsAreExplained
<1>3. /\ CatalogShape' /\ catalog'.regs \subseteq {"frozen", "edited"} /\ faults' \in 0..Faults
      /\ RowsPossible(c)' /\ RowsHonest(c)' /\ Longer(catalog.rows, catalog'.rows) /\ FilesRight(c)'
  BY StillFacts
<1>4. Untouched => Behind(catalog'.rows, kind, r)
  BY <1>1
<1> QED  BY <1>1, <1>2, <1>3, <1>4, ProcStep

LEMMA WorkerBeginStep ==
  ASSUME NEW c \in Contents, Base, Kept(c), kind # "acquisition", NEW p \in Procs, WorkerBegin(p)
  PROVE  Base' /\ Kept(c)'
<1> DEFINE q == proc[p]
<1>1. Steady /\ Still /\ reads' = reads /\ refused' = refused /\ q.pc = "begin" /\ Become(p, AtPair(q))
  BY DEF WorkerBegin, Steady, Still, Is
<1>2. kind = "worker"
  BY <1>1 DEF Base, Placed
<1>3. IsProc(q) /\ Process("worker", c, q) /\ (Untouched => Behind(catalog.rows, "worker", q))
  BY <1>2 DEF Base, Shapes, ProcShape, Kept, ProcsRight
<1> HIDE DEF q
<1>4. Sound(c, q) /\ q.batch \in DOMAIN Batches /\ q.pair \in DOMAIN Pairs /\ q.published = {}
  BY <1>1, <1>3 DEF Process, Positioned
<1>5. Untouched => \A j \in 1..(q.pair - 1), s \in Range(Batches[q.batch]) :
                     Reached(catalog.rows, <<s, Pairs[j]>>, EndDay)
  BY <1>1, <1>3 DEF Behind
<1>6. /\ IsProc(AtPair(q)) /\ AtPair(q).pc = "turn" /\ Process("worker", c, AtPair(q))
      /\ Untouched => Behind(catalog.rows, "worker", AtPair(q))
  BY <1>3, <1>4, <1>5, AtPairProcess DEF Kept
<1>7. Following(kind, AtPair(q).pc)
  BY <1>2, <1>6 DEF Following
<1> DEFINE r == AtPair(q)
<1>8. IsProc(r) /\ Become(p, r) /\ Following(kind, r.pc) /\ Process(kind, c, r)
      /\ (Untouched => Behind(catalog.rows, kind, r))
  BY <1>1, <1>2, <1>6, <1>7
<1> HIDE DEF r
<1> QED  BY <1>1, <1>8, StillStep

LEMMA PairDoneRecords ==
  ASSUME NEW q, IsProc(q)
  PROVE  /\ IsProc([q EXCEPT !.pair = @ + 1]) /\ [q EXCEPT !.pair = @ + 1].pair = q.pair + 1
         /\ Alike([q EXCEPT !.pair = @ + 1], q, {"pair"})
         /\ IsProc([q EXCEPT !.pc = "export", !.turn = 1, !.cursors = <<>>])
         /\ [q EXCEPT !.pc = "export", !.turn = 1, !.cursors = <<>>].pc = "export"
         /\ [q EXCEPT !.pc = "export", !.turn = 1, !.cursors = <<>>].turn = 1
         /\ Alike([q EXCEPT !.pc = "export", !.turn = 1, !.cursors = <<>>], q, {"pc", "turn", "cursors"})
<1>1. {"pc", "turn", "cursors", "pair"} \subseteq Fields
  BY DEF Fields
<1> HIDE DEF Fields
<1>2. DOMAIN q = Fields
  BY DEF IsProc
<1> QED  BY <1>1, <1>2 DEF IsProc, Alike

LEMMA WorkerPairDoneStep ==
  ASSUME NEW c \in Contents, Base, Kept(c), kind # "acquisition", NEW p \in Procs, WorkerPairDone(p)
  PROVE  Base' /\ Kept(c)'
<1> DEFINE q == proc[p]
           moved == [q EXCEPT !.pair = @ + 1]
           done == [q EXCEPT !.pc = "export", !.turn = 1, !.cursors = <<>>]
           r == IF q.pair < Len(Pairs) THEN AtPair(moved) ELSE done
<1>0. EndDay \in Nat
  BY ValidationAssumption
<1>1. Steady /\ Still /\ reads' = reads /\ refused' = refused /\ q.pc = "turn" /\ Become(p, r) /\ Open(p) = {}
  BY DEF WorkerPairDone, Steady, Still, Is
<1>2. kind = "worker"
  BY <1>1 DEF Base, Placed
<1>3. IsProc(q) /\ Process("worker", c, q) /\ (Untouched => Behind(catalog.rows, "worker", q))
  BY <1>2 DEF Base, Shapes, ProcShape, Kept, ProcsRight
<1>4. /\ Sound(c, q) /\ q.batch \in DOMAIN Batches /\ q.pair \in DOMAIN Pairs /\ q.published = {}
      /\ q.cursors \in [Range(Batches[q.batch]) -> 0..EndDay]
  BY <1>1, <1>3 DEF Process, Positioned
<1>5. Open(p) = {i \in DOMAIN Batches[q.batch] : q.cursors[Batches[q.batch][i]] < EndDay}
  BY DEF Open, Batch
<1> HIDE DEF q
<1>6. \A s \in Range(Batches[q.batch]) : q.cursors[s] = EndDay
  <2> TAKE s \in Range(Batches[q.batch])
  <2>1. PICK i \in DOMAIN Batches[q.batch] : s = Batches[q.batch][i]
    BY DEF Range
  <2>2. ~(q.cursors[s] < EndDay)
    BY <2>1, <1>1, <1>5
  <2>3. q.cursors[s] \in 0..EndDay
    BY <1>4
  <2> QED  BY <2>2, <2>3, <1>0
<1>7. Untouched => \A j \in 1..q.pair, s \in Range(Batches[q.batch]) :
                     Reached(catalog.rows, <<s, Pairs[j]>>, EndDay)
  <2> HAVE Untouched
  <2> TAKE j \in 1..q.pair, s \in Range(Batches[q.batch])
  <2>1. CASE j = q.pair
    BY <2>1, <1>1, <1>3, <1>6 DEF Behind
  <2>2. CASE j # q.pair
    <3>1. j \in 1..(q.pair - 1)
      BY <2>2, <1>4, PairFacts
    <3> QED  BY <3>1, <1>1, <1>3 DEF Behind
  <2> QED  BY <2>1, <2>2
<1>8. CASE q.pair < Len(Pairs)
  <2>1. IsProc(moved) /\ moved.pair = q.pair + 1 /\ Alike(moved, q, {"pair"})
    BY <1>3, PairDoneRecords
  <2> HIDE DEF moved, done
  <2>2. moved.batch = q.batch /\ moved.published = {} /\ moved.data = q.data /\ moved.proofs = q.proofs
    BY <2>1, <1>4 DEF Alike, Fields
  <2>3. moved.pair \in DOMAIN Pairs /\ moved.pair - 1 = q.pair /\ Sound(c, moved)
    BY <2>1, <2>2, <1>4, <1>8, PairFacts DEF Sound
  <2>4. Untouched => \A j \in 1..(moved.pair - 1), s \in Range(Batches[moved.batch]) :
                       Reached(catalog.rows, <<s, Pairs[j]>>, EndDay)
    BY <2>2, <2>3, <1>7
  <2> DEFINE a == AtPair(moved)
  <2>5. /\ IsProc(a) /\ a.pc = "turn" /\ Process("worker", c, a)
        /\ Untouched => Behind(catalog.rows, "worker", a)
    BY <2>1, <2>2, <2>3, <2>4, <1>4, AtPairProcess DEF Kept
  <2>6. Become(p, a)
    BY <1>1, <1>8
  <2> HIDE DEF a
  <2>7. Following(kind, a.pc) /\ Process(kind, c, a) /\ (Untouched => Behind(catalog.rows, kind, a))
    BY <1>2, <2>5 DEF Following
  <2> QED  BY <1>1, <2>5, <2>6, <2>7, StillStep
<1>9. CASE ~(q.pair < Len(Pairs))
  <2>1. IsProc(done) /\ done.pc = "export" /\ done.turn = 1 /\ Alike(done, q, {"pc", "turn", "cursors"})
    BY <1>3, PairDoneRecords
  <2>2. Become(p, done)
    BY <1>1, <1>9
  <2> HIDE DEF moved, done
  <2>3. done.batch = q.batch /\ done.published = {} /\ done.data = q.data /\ done.proofs = q.proofs
    BY <2>1, <1>4 DEF Alike, Fields
  <2>4. 1 \in DOMAIN Batches[q.batch]
    <3>1. Batches[q.batch] \in Seq(Strategies) /\ Batches[q.batch] # <<>>
      BY <1>4, BatchFacts
    <3> QED  BY <3>1
  <2>5. Process(kind, c, done)
    BY <2>1, <2>3, <2>4, <1>4 DEF Process, Sound, Running, Publishing, Positioned
  <2>6. q.pair = Len(Pairs) /\ DOMAIN Pairs = 1..q.pair
    BY <1>4, <1>9, PairFacts
  <2>7. Untouched => Behind(catalog.rows, kind, done)
    BY <2>1, <2>3, <2>6, <1>7 DEF Behind
  <2>8. Following(kind, done.pc)
    BY <1>2, <2>1 DEF Following
  <2> QED  BY <1>1, <2>1, <2>2, <2>5, <2>7, <2>8, StillStep
<1> QED  BY <1>8, <1>9

LEMMA WorkerRunStep ==
  ASSUME NEW c \in Contents, Base, Kept(c), kind # "acquisition", NEW p \in Procs, WorkerRun(p)
  PROVE  Base' /\ Kept(c)'
<1> DEFINE q == proc[p]
           s == Batch(p)[NextTurn(p)]
           day == q.cursors[s]
           until == Min({day + BatchDays, EndDay})
           chain == <<s, Pairs[q.pair]>>
<1>0. EndDay \in Nat /\ BatchDays \in Nat \ {0}
  BY ValidationAssumption
<1>1. Steady /\ Still /\ q.pc = "turn" /\ Open(p) # {} /\ RunStart(p, chain, day, until)
  BY DEF WorkerRun, Steady, Still, Is
<1>2. kind = "worker"
  BY <1>1 DEF Base, Placed
<1>3. Process("worker", c, q)
  BY <1>2 DEF Kept, ProcsRight
<1>4. /\ q.batch \in DOMAIN Batches /\ q.pair \in DOMAIN Pairs
      /\ q.cursors \in [Range(Batches[q.batch]) -> 0..EndDay]
  BY <1>1, <1>3 DEF Process, Positioned
<1>5. Batch(p) = Batches[q.batch] /\ Open(p) = {i \in DOMAIN Batches[q.batch] : q.cursors[Batches[q.batch][i]] < EndDay}
  BY DEF Open, Batch
<1>6. NextTurn(p) \in Open(p)
  <2> DEFINE rest == {i \in Open(p) : i >= q.turn}
  <2>1. Open(p) \subseteq Nat
    BY <1>4, <1>5, BatchFacts
  <2>2. NextTurn(p) = IF rest = {} THEN Min(Open(p)) ELSE Min(rest)
    BY DEF NextTurn
  <2>3. rest \subseteq Open(p)
    OBVIOUS
  <2> HIDE DEF rest, q
  <2>4. Min(Open(p)) \in Open(p)
    BY <2>1, <1>1, MinIsLeast
  <2>5. rest # {} => Min(rest) \in rest
    BY <2>1, <2>3, MinIsLeast
  <2> QED  BY <2>2, <2>3, <2>4, <2>5
<1>7. s \in Range(Batches[q.batch]) /\ s \in Strategies /\ day < EndDay
  BY <1>4, <1>5, <1>6, BatchFacts
<1> HIDE DEF q
<1>8. day \in Nat /\ chain \in Chains
  BY <1>0, <1>4, <1>7, PairFacts
<1> HIDE DEF day
<1>9. until \in Nat /\ day < until /\ until <= EndDay
  <2>1. {day + BatchDays, EndDay} \subseteq Nat
    BY <1>0, <1>8
  <2>2. until \in {day + BatchDays, EndDay} /\ \A n \in {day + BatchDays, EndDay} : until <= n
    BY <2>1, MinIsLeast
  <2> QED  BY <2>2, <1>0, <1>7, <1>8
<1>10. \E t \in Range(Batches[q.batch]) : chain = <<t, Pairs[q.pair]>> /\ day = q.cursors[t]
  BY <1>7 DEF day
<1> HIDE DEF until, chain
<1>11. kind = "worker" => /\ proc[p].pc = "turn"
                          /\ \E t \in Range(Batches[proc[p].batch]) :
                               chain = <<t, Pairs[proc[p].pair]>> /\ day = proc[p].cursors[t]
  BY <1>1, <1>10 DEF q
<1> QED  BY <1>1, <1>7, <1>8, <1>9, <1>11, RunStartStep

LEMMA ExportPopulationStep ==
  ASSUME NEW c \in Contents, Base, Kept(c), kind # "acquisition", NEW p \in Procs, export_population(p)
  PROVE  Base' /\ Kept(c)'
<1> DEFINE q == proc[p]
           s == Batch(p)[q.turn]
           keys == Requested(s)
<1>1. q.pc = "export" /\ Export(p, s, Pairs, keys, "publish")
  BY DEF export_population, Is
<1>2. Steady /\ Still
  BY <1>1 DEF Export, ExportOn, Steady, Still
<1>3. kind = "worker"
  BY <1>1 DEF Base, Placed
<1>4. q.batch \in DOMAIN Batches /\ q.turn \in DOMAIN Batches[q.batch]
  BY <1>1, <1>3 DEF Kept, ProcsRight, Process, Positioned
<1>5. s = Batches[q.batch][q.turn] /\ s \in Strategies
  BY <1>4, BatchFacts DEF Batch
<1> HIDE DEF s
<1>6. keys \in Seq(Views(s)) /\ Range(keys) = Views(s)
  BY <1>5, ViewsFacts DEF Views
<1>7. \A j \in DOMAIN keys : Range(Population(keys[j][2])) \subseteq Range(Pairs)
  <2>1. \A j \in DOMAIN keys : keys[j] \in Views(s)
    <3> HIDE DEF keys
    <3> QED  BY <1>6
  <2> HIDE DEF keys
  <2> QED  BY <2>1, <1>5, ViewsFacts
<1>8. Pairs \in Seq(Range(Pairs)) /\ Pairs # <<>>
  BY ValidationAssumption
<1> HIDE DEF keys
<1>9. kind = "worker" => /\ proc[p].pc = "export" /\ Range(keys) = Views(s)
                         /\ s = Batches[proc[p].batch][proc[p].turn]
  BY <1>1, <1>5, <1>6
<1> QED  BY <1>1, <1>2, <1>5, <1>6, <1>7, <1>8, <1>9, ExportStep

LEMMA PublishStep ==
  ASSUME NEW c \in Contents, Base, Kept(c), kind # "acquisition", NEW p \in Procs, _publish_report(p)
  PROVE  Base' /\ Kept(c)'
<1> DEFINE q == proc[p]
           report == Head(q.todo)
           r == ReportDone(q, report)
<1>1. q.pc = "publish" /\ q.todo # <<>> /\ Steady /\ catalog' = catalog /\ reads' = reads /\ refused' = refused
  BY DEF _publish_report, Steady, Is
<1>2. IsProc(q) /\ Process(kind, c, q) /\ (Untouched => Behind(catalog.rows, kind, q)) /\ ProcShape
  BY DEF Base, Shapes, ProcShape, Kept, ProcsRight
<1>3. \/ /\ files' = files \cup {File(report, "json"), File(report, "txt")}
         /\ Become(p, r) /\ harm' = harm /\ faults' = faults
      \/ /\ files' = files \cup {File(report, "json")} /\ Become(p, Idle)
         /\ harm' = harm /\ faults < Faults /\ faults' = faults + 1
  BY DEF _publish_report, ReportDone, Fault
<1>4. q.todo \in Seq({Report(c, k) : k \in Keys})
  BY <1>1, <1>2 DEF Process, Publishing
<1> DEFINE todo == q.todo
<1>5. /\ Head(todo) \in {Report(c, k) : k \in Keys} /\ Tail(todo) \in Seq({Report(c, k) : k \in Keys})
      /\ Range(todo) = {Head(todo)} \cup Range(Tail(todo))
  <2> DEFINE R == {Report(c, k) : k \in Keys}
  <2>1. todo \in Seq(R) /\ todo # <<>>
    BY <1>1, <1>4
  <2> HIDE DEF todo, R
  <2>2. Head(todo) \in R /\ Tail(todo) \in Seq(R) /\ Len(todo) \in Nat \ {0} /\ Len(Tail(todo)) = Len(todo) - 1
    BY <2>1
  <2>3. /\ Range(todo) = {todo[i] : i \in 1..Len(todo)}
        /\ Range(Tail(todo)) = {Tail(todo)[i] : i \in 1..(Len(todo) - 1)}
    <3> DEFINE tail == Tail(todo)
    <3>1. tail \in Seq(R) /\ Len(tail) = Len(todo) - 1
      BY <2>2
    <3> HIDE DEF tail
    <3>2. DOMAIN tail = 1..(Len(todo) - 1) /\ DOMAIN todo = 1..Len(todo)
      BY <2>1, <3>1
    <3>3. Range(tail) = {tail[i] : i \in DOMAIN tail} /\ Range(todo) = {todo[i] : i \in DOMAIN todo}
      BY DEF Range
    <3> QED  BY <3>2, <3>3 DEF tail
  <2>4. Head(todo) = todo[1] /\ \A i \in 1..(Len(todo) - 1) : Tail(todo)[i] = todo[i + 1]
    BY <2>1
  <2>5. \A x : x \in Range(todo) => x \in {Head(todo)} \cup Range(Tail(todo))
    <3> SUFFICES ASSUME NEW i \in 1..Len(todo) PROVE todo[i] \in {Head(todo)} \cup Range(Tail(todo))
      BY <2>3
    <3>1. CASE i = 1
      BY <3>1, <2>4
    <3>2. CASE i # 1
      <4>1. i - 1 \in 1..(Len(todo) - 1) /\ (i - 1) + 1 = i
        BY <3>2, <2>2
      <4> QED  BY <4>1, <2>3, <2>4
    <3> QED  BY <3>1, <3>2
  <2>6. \A x : x \in {Head(todo)} \cup Range(Tail(todo)) => x \in Range(todo)
    <3>1. Head(todo) \in Range(todo)
      BY <2>2, <2>3, <2>4
    <3>2. \A i \in 1..(Len(todo) - 1) : i + 1 \in 1..Len(todo)
      BY <2>2
    <3> QED  BY <3>1, <3>2, <2>3, <2>4
  <2> QED  BY <2>2, <2>5, <2>6 DEF R
<1> HIDE DEF todo, r, q
<1>6. PICK k \in Keys : Head(todo) = Report(c, k)
  BY <1>5
<1>7. report = Head(todo)
  BY DEF todo
<1>8. FilesRight(c)'
  <2>1. IsReport(c, File(report, "json")) /\ IsReport(c, File(report, "txt"))
    BY <1>6, <1>7 DEF IsReport
  <2>2. files' \subseteq files \cup {File(report, "json"), File(report, "txt")}
    BY <1>3
  <2> QED  BY <2>1, <2>2 DEF Kept, FilesRight
<1>9. faults' \in 0..Faults /\ harm' = harm
  <2>1. faults \in 0..Faults /\ Faults \in Nat
    BY ValidationAssumption DEF Base, Placed
  <2> QED  BY <2>1, <1>3
<1>10. "sealed" \notin reads' /\ RefusalsAreExplained'
  BY <1>1, <1>9 DEF Base, SealedStaysSealed, RefusalsAreExplained
<1>11. /\ CatalogShape' /\ catalog'.regs \subseteq {"frozen", "edited"}
       /\ RowsPossible(c)' /\ RowsHonest(c)' /\ Longer(catalog.rows, catalog'.rows)
  <2>1. RowsPossible(c)' /\ RowsHonest(c)' /\ Longer(catalog.rows, catalog'.rows)
    BY <1>1, <1>9, RowsSame
  <2> QED  BY <2>1, <1>1 DEF Base, Shapes, CatalogShape, Placed
<1>12. CASE Become(p, Idle)
  <2>1. IsProc(Idle) /\ Process(kind, c, Idle) /\ Behind(catalog'.rows, kind, Idle) /\ Following(kind, Idle.pc)
    BY IdleProcess, IdleIsProc DEF Base, Placed
  <2> QED  BY <2>1, <1>1, <1>8, <1>9, <1>10, <1>11, <1>12, ProcStep
<1>13. CASE Become(p, r)
  <2>1. /\ IsProc(r) /\ r.todo = Tail(todo) /\ r.published = q.published \cup {report}
        /\ Alike(r, q, {"todo", "published"})
    BY <1>2, ReportRecord DEF r, todo
  <2>2. r.pc = "publish" /\ r.data = q.data /\ r.proofs = q.proofs /\ r.batch = q.batch /\ r.turn = q.turn
    BY <2>1, <1>1 DEF Alike, Fields
  <2>3. Sound(c, r) /\ Running(c, r) /\ Publishing(c, r)
    BY <2>1, <2>2, <1>2, <1>5 DEF Process, Sound, Running, Publishing
  <2>4. kind = "worker" => Positioned(c, r)
    <3> HAVE kind = "worker"
    <3>1. Positioned(c, q)
      BY <1>2 DEF Process
    <3>2. r.published \cup Range(r.todo) = q.published \cup Range(q.todo)
      BY <2>1, <1>5, <1>7 DEF todo
    <3> QED  BY <3>1, <3>2, <2>2, <1>1 DEF Positioned
  <2>5. Process(kind, c, r)
    BY <2>3, <2>4 DEF Process
  <2>6. Untouched => Behind(catalog'.rows, kind, r)
    BY <1>1, <1>2, <2>2 DEF Behind
  <2>7. Following(kind, r.pc)
    BY <2>2 DEF Base, Placed, Following
  <2> QED  BY <2>1, <2>5, <2>6, <2>7, <1>1, <1>8, <1>9, <1>10, <1>11, <1>13, ProcStep
<1> QED  BY <1>3, <1>12, <1>13

LEMMA MarkRecords ==
  ASSUME NEW q, IsProc(q)
  PROVE  /\ IsProc([q EXCEPT !.published = {}]) /\ [q EXCEPT !.published = {}].published = {}
         /\ Alike([q EXCEPT !.published = {}], q, {"published"})
         /\ IsProc([q EXCEPT !.pc = "export", !.turn = @ + 1])
         /\ [q EXCEPT !.pc = "export", !.turn = @ + 1].pc = "export"
         /\ [q EXCEPT !.pc = "export", !.turn = @ + 1].turn = q.turn + 1
         /\ Alike([q EXCEPT !.pc = "export", !.turn = @ + 1], q, {"pc", "turn"})
         /\ IsProc([q EXCEPT !.pc = "begin", !.batch = @ + 1, !.pair = 1])
         /\ [q EXCEPT !.pc = "begin", !.batch = @ + 1, !.pair = 1].pc = "begin"
         /\ [q EXCEPT !.pc = "begin", !.batch = @ + 1, !.pair = 1].batch = q.batch + 1
         /\ [q EXCEPT !.pc = "begin", !.batch = @ + 1, !.pair = 1].pair = 1
         /\ Alike([q EXCEPT !.pc = "begin", !.batch = @ + 1, !.pair = 1], q, {"pc", "batch", "pair"})
<1>1. {"pc", "turn", "published", "batch", "pair"} \subseteq Fields
  BY DEF Fields
<1> HIDE DEF Fields
<1>2. DOMAIN q = Fields
  BY DEF IsProc
<1>3. IsProc([q EXCEPT !.published = {}]) /\ [q EXCEPT !.published = {}].published = {}
      /\ Alike([q EXCEPT !.published = {}], q, {"published"})
  BY <1>1, <1>2 DEF IsProc, Alike
<1>4. /\ IsProc([q EXCEPT !.pc = "export", !.turn = @ + 1])
      /\ [q EXCEPT !.pc = "export", !.turn = @ + 1].pc = "export"
      /\ [q EXCEPT !.pc = "export", !.turn = @ + 1].turn = q.turn + 1
      /\ Alike([q EXCEPT !.pc = "export", !.turn = @ + 1], q, {"pc", "turn"})
  BY <1>1, <1>2 DEF IsProc, Alike
<1>5. /\ IsProc([q EXCEPT !.pc = "begin", !.batch = @ + 1, !.pair = 1])
      /\ [q EXCEPT !.pc = "begin", !.batch = @ + 1, !.pair = 1].pc = "begin"
      /\ [q EXCEPT !.pc = "begin", !.batch = @ + 1, !.pair = 1].batch = q.batch + 1
      /\ [q EXCEPT !.pc = "begin", !.batch = @ + 1, !.pair = 1].pair = 1
      /\ Alike([q EXCEPT !.pc = "begin", !.batch = @ + 1, !.pair = 1], q, {"pc", "batch", "pair"})
  BY <1>1, <1>2 DEF IsProc, Alike
<1> QED  BY <1>3, <1>4, <1>5

\* Where a worker goes after the mark of a strategy.
Moved(q) ==
  LET b == [q EXCEPT !.published = {}]
  IN IF b.turn < Len(Batches[q.batch]) THEN [b EXCEPT !.pc = "export", !.turn = @ + 1]
     ELSE IF b.batch < Len(Batches) THEN [b EXCEPT !.pc = "begin", !.batch = @ + 1, !.pair = 1]
     ELSE Idle

LEMMA MarkedProcess ==
  ASSUME NEW c, NEW q, IsProc(q), Process("worker", c, q), q.pc = "publish", NEW r, r = Moved(q)
  PROVE  /\ IsProc(r) /\ Following("worker", r.pc) /\ Process("worker", c, r)
         /\ \A rows : Behind(rows, "worker", q) => Behind(rows, "worker", r)
<1> DEFINE b == [q EXCEPT !.published = {}]
           e == [b EXCEPT !.pc = "export", !.turn = @ + 1]
           n == [b EXCEPT !.pc = "begin", !.batch = @ + 1, !.pair = 1]
<1>1. r = IF b.turn < Len(Batches[q.batch]) THEN e ELSE IF b.batch < Len(Batches) THEN n ELSE Idle
  BY DEF Moved
<1>2. IsProc(b) /\ b.published = {} /\ Alike(b, q, {"published"})
  BY MarkRecords
<1> HIDE DEF b
<1>3. /\ IsProc(e) /\ e.pc = "export" /\ e.turn = b.turn + 1 /\ Alike(e, b, {"pc", "turn"})
      /\ IsProc(n) /\ n.pc = "begin" /\ n.batch = b.batch + 1 /\ n.pair = 1
      /\ Alike(n, b, {"pc", "batch", "pair"})
  BY <1>2, MarkRecords
<1> HIDE DEF e, n
<1>4. /\ b.turn = q.turn /\ b.batch = q.batch /\ b.data = q.data /\ b.proofs = q.proofs
      /\ e.data = b.data /\ e.proofs = b.proofs /\ e.batch = b.batch /\ e.published = {}
      /\ n.data = b.data /\ n.proofs = b.proofs /\ n.published = {}
  BY <1>2, <1>3 DEF Alike, Fields
<1>5. Sound(c, q) /\ q.batch \in DOMAIN Batches /\ q.turn \in DOMAIN Batches[q.batch]
  BY DEF Process, Positioned
<1>6. DOMAIN Batches = 1..Len(Batches) /\ Len(Batches) \in Nat
  <2>1. Batches \in Seq(Seq(Strategies) \ {<<>>})
    BY ValidationAssumption
  <2> QED  BY <2>1
<1>7. CASE b.turn < Len(Batches[q.batch])
  <2>1. r = e
    BY <1>1, <1>7
  <2>2. e.turn \in DOMAIN Batches[e.batch]
    BY <1>3, <1>4, <1>5, <1>7, BatchFacts
  <2>3. Process("worker", c, e)
    BY <2>2, <1>3, <1>4, <1>5 DEF Process, Sound, Running, Publishing, Positioned
  <2>4. \A rows : Behind(rows, "worker", q) => Behind(rows, "worker", e)
    BY <1>3, <1>4 DEF Behind
  <2> QED  BY <2>1, <2>3, <2>4, <1>3 DEF Following
<1>8. CASE ~(b.turn < Len(Batches[q.batch])) /\ b.batch < Len(Batches)
  <2>1. r = n
    BY <1>1, <1>8
  <2>2. n.batch \in DOMAIN Batches /\ 1 \in DOMAIN Pairs
    BY <1>3, <1>4, <1>5, <1>6, <1>8, PairFacts
  <2>3. Process("worker", c, n)
    BY <2>2, <1>3, <1>4, <1>5 DEF Process, Sound, Running, Publishing, Positioned
  <2>4. \A rows : Behind(rows, "worker", n)
    BY <1>3 DEF Behind
  <2> QED  BY <2>1, <2>3, <2>4, <1>3 DEF Following
<1>9. CASE ~(b.turn < Len(Batches[q.batch])) /\ ~(b.batch < Len(Batches))
  <2>1. r = Idle
    BY <1>1, <1>9
  <2> QED  BY <2>1, IdleProcess, IdleIsProc
<1> QED  BY <1>7, <1>8, <1>9

LEMMA MarkCompletedStep ==
  ASSUME NEW c \in Contents, Base, Kept(c), kind # "acquisition", NEW p \in Procs, MarkCompleted(p)
  PROVE  Base' /\ Kept(c)'
<1> DEFINE q == proc[p]
           s == Batches[q.batch][q.turn]
           mark == [key |-> <<s, "completed", NoBaseline>>, suffix |-> "json", reports |-> Reports(c, s)]
           b == [q EXCEPT !.published = {}]
           r == IF b.turn < Len(Batches[q.batch]) THEN [b EXCEPT !.pc = "export", !.turn = @ + 1]
                ELSE IF b.batch < Len(Batches) THEN [b EXCEPT !.pc = "begin", !.batch = @ + 1, !.pair = 1]
                ELSE Idle
<1>1. /\ q.pc = "publish" /\ q.todo = <<>> /\ kind = "worker" /\ Steady
      /\ catalog' = catalog /\ reads' = reads /\ harm' = harm /\ faults' = faults
  BY DEF MarkCompleted, Steady, Is
<1>2. IsProc(q) /\ Process("worker", c, q) /\ (Untouched => Behind(catalog.rows, "worker", q))
  BY <1>1 DEF Base, Shapes, ProcShape, Kept, ProcsRight
<1>3. q.batch \in DOMAIN Batches /\ q.turn \in DOMAIN Batches[q.batch]
      /\ q.published \cup Range(q.todo) = Reports(c, s)
  BY <1>1, <1>2 DEF Process, Positioned
<1>4. s \in Strategies
  BY <1>3, BatchFacts
<1>5. q.published = Reports(c, s)
  <2>1. Range(<<>>) = {}
    BY DEF Range
  <2> QED  BY <2>1, <1>1, <1>3
<1>6. Mark(p) = mark
  BY <1>5 DEF Mark, Batch
<1>7. mark.key = <<s, "completed", NoBaseline>> /\ mark.key[1] = s
  OBVIOUS
<1>8. Cardinality(q.published) = Cardinality(Views(s))
  BY <1>4, <1>5, ReportsCounted
<1>9. ~ \E f \in files : f.key = mark.key /\ f # mark
  <2> SUFFICES ASSUME NEW f \in files, f.key = mark.key PROVE f = mark
    OBVIOUS
  <2>1. CASE IsReport(c, f)
    <3>1. PICK k \in Keys, suffix \in {"json", "txt"} : f = File(Report(c, k), suffix)
      BY <2>1 DEF IsReport
    <3>2. f.key = k
      BY <3>1 DEF File, Report
    <3>3. PICK t \in Strategies : k \in Views(t)
      BY DEF Keys
    <3>4. k[2] # "completed"
      BY <3>3, ViewsFacts
    <3> QED  BY <3>2, <3>4, <1>7
  <2>2. CASE IsMark(c, f)
    <3>1. PICK t \in Strategies :
            f = [key |-> <<t, "completed", NoBaseline>>, suffix |-> "json", reports |-> Reports(c, t)]
      BY <2>2 DEF IsMark
    <3>2. f.key = <<t, "completed", NoBaseline>>
      BY <3>1
    <3>3. t = s
      BY <3>2, <1>7
    <3> QED  BY <3>1, <3>3
  <2> QED  BY <2>1, <2>2 DEF Kept, FilesRight
<1>10. files' = files \cup {mark} /\ refused' = refused /\ Become(p, r)
  <2>1. Cardinality(proc[p].published) = Cardinality(Views(Mark(p).key[1]))
    BY <1>6, <1>7, <1>8
  <2>2. ~ \E f \in files : f.key = Mark(p).key /\ f # Mark(p)
    BY <1>6, <1>9
  <2> DEFINE move == Become(p, IF b.turn < Len(Batch(p)) THEN [b EXCEPT !.pc = "export", !.turn = @ + 1]
                               ELSE IF b.batch < Len(Batches) THEN [b EXCEPT !.pc = "begin", !.batch = @ + 1, !.pair = 1]
                               ELSE Idle)
             whole == Cardinality(proc[p].published) = Cardinality(Views(Mark(p).key[1]))
             clash == \E f \in files : f.key = Mark(p).key /\ f # Mark(p)
  <2>3. IF ~whole THEN Refuse(p, "worker_report_population_incomplete") /\ UNCHANGED files
        ELSE IF clash THEN Refuse(p, "immutable_report_conflict") /\ UNCHANGED files
        ELSE files' = files \cup {Mark(p)} /\ UNCHANGED refused /\ move
    <3> HIDE DEF Mark, Become, Refuse
    <3> QED  BY DEF MarkCompleted
  <2>4. whole /\ ~clash
    BY <2>1, <2>2
  <2> HIDE DEF whole, clash, move
  <2>5. files' = files \cup {Mark(p)} /\ UNCHANGED refused /\ move
    BY <2>3, <2>4
  <2>6. Batch(p) = Batches[q.batch]
    BY DEF Batch
  <2> HIDE DEF b, mark
  <2> QED  BY <2>5, <2>6, <1>6 DEF move
<1> HIDE DEF q, mark, b
<1>11. /\ IsProc(r) /\ Following("worker", r.pc) /\ Process("worker", c, r)
       /\ \A rows : Behind(rows, "worker", q) => Behind(rows, "worker", r)
  <2> DEFINE rr == r
  <2>1. rr = Moved(q)
    BY DEF b, Moved
  <2> HIDE DEF rr
  <2>2. /\ IsProc(rr) /\ Following("worker", rr.pc) /\ Process("worker", c, rr)
        /\ \A rows : Behind(rows, "worker", q) => Behind(rows, "worker", rr)
    BY <2>1, <1>1, <1>2, MarkedProcess
  <2> QED  BY <2>2 DEF rr
<1> HIDE DEF r
<1>12. FilesRight(c)'
  <2>1. IsMark(c, mark)
    BY <1>4 DEF IsMark, mark
  <2> QED  BY <2>1, <1>10 DEF Kept, FilesRight
<1>13. "sealed" \notin reads' /\ RefusalsAreExplained' /\ faults' \in 0..Faults
  BY <1>1, <1>10 DEF Base, SealedStaysSealed, RefusalsAreExplained, Placed
<1>14. /\ CatalogShape' /\ catalog'.regs \subseteq {"frozen", "edited"}
       /\ RowsPossible(c)' /\ RowsHonest(c)' /\ Longer(catalog.rows, catalog'.rows)
  <2>1. RowsPossible(c)' /\ RowsHonest(c)' /\ Longer(catalog.rows, catalog'.rows)
    BY <1>1, RowsSame
  <2> QED  BY <2>1, <1>1 DEF Base, Shapes, CatalogShape, Placed
<1>15. Process(kind, c, r) /\ Following(kind, r.pc) /\ (Untouched => Behind(catalog'.rows, kind, r))
  BY <1>1, <1>2, <1>11
<1> QED  BY <1>1, <1>10, <1>11, <1>12, <1>13, <1>14, <1>15, ProcStep

-----------------------------------------------------------------------------
(* The owner's catalog.                                                       *)

\* A step that only adds to the catalog.
LEMMA CatalogStep ==
  ASSUME NEW c \in Contents, Base, Kept(c), kind # "acquisition", Steady,
         UNCHANGED <<files, proc, reads, refused, harm, faults>>,
         CatalogShape', catalog'.regs \subseteq {"frozen", "edited"},
         RowsPossible(c)', RowsHonest(c)', Longer(catalog.rows, catalog'.rows)
  PROVE  Base' /\ Kept(c)'
<1>1. Shapes' /\ Placed' /\ SealedStaysSealed' /\ RefusalsAreExplained'
  BY DEF Base, Shapes, ProcShape, FileShape, Placed, SealedStaysSealed, RefusalsAreExplained, Steady
<1>2. CacheRight'
  BY DEF Base, CacheRight, OneChunkPerRequest, Steady, Intact
<1>3. LockHeld'
  <2>1. Absent' = Absent
    BY DEF Absent, Steady
  <2>2. store' = store /\ proc' = proc
    BY DEF Steady
  <2> HIDE DEF Absent
  <2> QED  BY <2>1, <2>2 DEF Base, LockHeld, Is
<1>4. CopySound'
  <2>1. metadata(store)' = metadata(store) /\ Manifest(store)' = Manifest(store)
    BY DEF Steady, metadata, Manifest, plan, Accepted
  <2>2. frozen' = frozen /\ proc' = proc /\ harm' = harm
    BY DEF Steady
  <2> HIDE DEF metadata, Manifest
  <2> QED  BY <2>1, <2>2 DEF Base, CopySound, Is
<1>5. Base'
  BY <1>1, <1>2, <1>3, <1>4 DEF Base
<1>6. \A chain \in Chains : Len(catalog.rows[chain]) \in Nat /\ Len(catalog'.rows[chain]) \in Nat
  BY DEF Kept, RowsPossible
<1>7. ProcsRight(c)'
  <2>1. kind' = kind /\ proc' = proc /\ Untouched' = Untouched
    BY DEF Steady, Untouched
  <2>2. ASSUME NEW q \in Procs
        PROVE  Process(kind, c, proc[q]) /\ (Untouched => Behind(catalog'.rows, kind, proc[q]))
    <3>1. Process(kind, c, proc[q]) /\ (Untouched => Behind(catalog.rows, kind, proc[q]))
      BY DEF Kept, ProcsRight
    <3>2. Untouched => Behind(catalog'.rows, kind, proc[q])
      BY <3>1, <1>6, BehindStays
    <3> QED  BY <3>1, <3>2
  <2> QED  BY <2>1, <2>2 DEF ProcsRight
<1>8. Given(c)' /\ FilesRight(c)'
  BY DEF Kept, Given, FilesRight, Steady
<1> QED  BY <1>5, <1>7, <1>8 DEF Kept

LEMMA ManualRegisterStep ==
  ASSUME NEW c \in Contents, Base, Kept(c), kind # "acquisition", ManualRegister
  PROVE  Base' /\ Kept(c)'
<1>1. register /\ Steady /\ UNCHANGED <<files, proc, reads, refused, harm, faults>>
  BY DEF ManualRegister, Steady
<1>2. harm' = harm
  BY <1>1
<1> QED  BY <1>1, <1>2, RegisterFacts, CatalogStep

LEMMA ManualRunStep ==
  ASSUME NEW c \in Contents, Base, Kept(c), kind # "acquisition", NEW p \in Procs, ManualRun(p)
  PROVE  Base' /\ Kept(c)'
<1>0. EndDay \in Nat /\ BatchDays \in Nat \ {0} /\ Mine \subseteq Strategies
  BY ValidationAssumption
<1>1. Steady /\ Still /\ kind = "manual"
  BY DEF ManualRun, Steady, Still
<1>2. PICK chain \in Mine \X Range(Pairs), start \in 0..(EndDay - 1), days \in 1..BatchDays :
        start + days <= EndDay /\ RunStart(p, chain, start, start + days)
  BY DEF ManualRun
<1>3. chain \in Chains
  BY <1>0 DEF Chains
<1> DEFINE until == start + days
<1>4. start \in Nat /\ until \in Nat /\ start < until /\ until <= EndDay /\ RunStart(p, chain, start, until)
  BY <1>0, <1>2
<1> HIDE DEF until
<1>5. kind = "worker" => /\ proc[p].pc = "turn"
                         /\ \E s \in Range(Batches[proc[p].batch]) :
                              chain = <<s, Pairs[proc[p].pair]>> /\ start = proc[p].cursors[s]
  BY <1>1
<1> QED  BY <1>1, <1>3, <1>4, <1>5, RunStartStep

LEMMA ManualReportStep ==
  ASSUME NEW c \in Contents, Base, Kept(c), kind # "acquisition", NEW p \in Procs, ManualReport(p)
  PROVE  Base' /\ Kept(c)'
<1>0. Mine \subseteq Strategies
  BY ValidationAssumption
<1>a. PICK s \in Mine : \E k \in Views(s) : Export(p, s, Population(k[2]), <<k>>, "publish")
  BY DEF ManualReport
<1>1. PICK k \in Views(s) : Export(p, s, Population(k[2]), <<k>>, "publish")
  BY <1>a
<1>2. Steady /\ Still /\ kind = "manual"
  BY <1>1 DEF ManualReport, Export, ExportOn, Steady, Still
<1>3. s \in Strategies
  BY <1>0
<1> DEFINE pairs == Population(k[2])
           keys == <<k>>
<1>4. pairs \in Seq(Range(Pairs)) /\ pairs # <<>>
  BY <1>3, ViewsFacts
<1>5. keys \in Seq(Views(s)) /\ \A j \in DOMAIN keys : keys[j] = k
  OBVIOUS
<1>6. \A j \in DOMAIN keys : Range(Population(keys[j][2])) \subseteq Range(pairs)
  BY <1>5
<1>7. Export(p, s, pairs, keys, "publish")
  BY <1>1
<1> HIDE DEF pairs, keys
<1>8. kind = "worker" => /\ proc[p].pc = "export" /\ Range(keys) = Views(s)
                         /\ s = Batches[proc[p].batch][proc[p].turn]
  BY <1>2
<1> QED  BY <1>2, <1>3, <1>4, <1>5, <1>6, <1>7, <1>8, ExportStep

LEMMA ManualDoneStep ==
  ASSUME NEW c \in Contents, Base, Kept(c), kind # "acquisition", NEW p \in Procs, ManualDone(p)
  PROVE  Base' /\ Kept(c)'
<1>1. Steady /\ Still /\ reads' = reads /\ refused' = refused /\ Become(p, Idle)
  BY DEF ManualDone, Steady, Still
<1>2. IsProc(Idle) /\ Process(kind, c, Idle) /\ Behind(catalog.rows, kind, Idle) /\ Following(kind, Idle.pc)
  BY IdleProcess, IdleIsProc DEF Base, Placed
<1> QED  BY <1>1, <1>2, StillStep

LEMMA SubmitStep ==
  ASSUME NEW c \in Contents, Base, Kept(c), kind # "acquisition", Submit
  PROVE  Base' /\ Kept(c)'
<1>0. EndDay \in Nat /\ Mine \subseteq Strategies
  BY ValidationAssumption
<1>1. Steady /\ UNCHANGED <<files, proc, reads, refused, harm, faults>>
  BY DEF Submit, Steady
<1>2. PICK chain \in Mine \X Range(Pairs), day \in 0..(EndDay - 1), forged \in BOOLEAN :
        checkpoint(chain, day, forged)
  BY DEF Submit
<1> DEFINE data == Loaded(DataFile)
           v == verify_chain(data, <<>>, chain, day)
           expected == replay_checkpoint(DataFor(chain, data), chain, day, v.pred)
<1>3. v.bad = "none" /\ _write_replayed(expected)
  BY <1>2 DEF checkpoint
<1>4. chain \in Chains /\ day \in 0..EndDay /\ day \in Nat
  BY <1>0 DEF Chains
<1>5. data \in {None, c} /\ ProofsRight(c, <<>>)
  <2>1. data \in {None, c}
    BY LoadedIs DEF Kept, Given
  <2> QED  BY <2>1 DEF ProofsRight
<1> HIDE DEF data
<1> DEFINE proofs == <<>>
<1>6. /\ v.pred = DigestsOf(c, chain)[day] /\ (NeedsData(chain) => data = c)
      /\ StoredRight(c, chain, day)
  <2>1. verify_chain(data, proofs, chain, day).bad = "none" /\ v = verify_chain(data, proofs, chain, day)
    BY <1>3
  <2>2. ProofsRight(c, proofs)
    BY <1>5
  <2> HIDE DEF proofs, v, expected
  <2>3. /\ verify_chain(data, proofs, chain, day).pred = DigestsOf(c, chain)[day]
        /\ (NeedsData(chain) => data = c) /\ StoredRight(c, chain, day)
    <3> USE ONLY <2>1, <2>2, <1>4, <1>5, c \in Contents
    <3> QED  BY ChainVerified, ZenonT(30)
  <2> QED  BY <2>1, <2>3
<1>7. expected = TrueBody(c, chain, day)
  BY <1>6 DEF TrueBody, DataFor
<1>8. Untouched => Reached(catalog.rows, chain, day)
  <2> HAVE Untouched
  <2>0. Len(catalog.rows[chain]) \in Nat
    BY <1>4 DEF Kept, RowsPossible
  <2>1. CASE day = 0
    BY <2>0, <2>1 DEF Reached
  <2>2. CASE day # 0
    <3>1. day - 1 \in Nat /\ day - 1 \in 0..(day - 1)
      BY <2>2, <1>4
    <3>2. day - 1 < Len(catalog.rows[chain])
      BY <3>1, <1>4, <1>6, HonestRows DEF Kept, StoredRight
    <3> QED  BY <3>2, <2>0, <1>4 DEF Reached
  <2> QED  BY <2>1, <2>2
<1>9. _write_replayed(TrueBody(c, chain, day)) /\ harm' = harm
  BY <1>1, <1>3, <1>7
<1>10. RowsPossible(c) /\ RowsHonest(c) /\ CatalogShape /\ catalog.regs \subseteq {"frozen", "edited"}
  BY DEF Kept, Base, Shapes, Placed
<1>11. /\ RowsPossible(c)' /\ RowsHonest(c)' /\ CatalogShape' /\ catalog'.regs = catalog.regs
       /\ Longer(catalog.rows, catalog'.rows)
  BY <1>4, <1>8, <1>9, <1>10, Written
<1> QED  BY <1>1, <1>10, <1>11, CatalogStep

LEMMA CrashStep ==
  ASSUME Base, NEW p \in Procs, Crash(p)
  PROVE  Base' /\ \A c \in Contents : kind # "acquisition" /\ Kept(c) => Kept(c)'
<1>1. Steady /\ Become(p, Idle) /\ catalog' = catalog /\ files' = files /\ reads' = reads
      /\ refused' = refused /\ harm' = harm /\ faults < Faults /\ faults' = faults + 1
  BY DEF Crash, Steady, Fault
<1>2. faults' \in 0..Faults
  <2>1. faults \in 0..Faults /\ Faults \in Nat
    BY ValidationAssumption DEF Base, Placed
  <2> QED  BY <2>1, <1>1
<1>3. /\ "sealed" \notin reads' /\ RefusalsAreExplained' /\ CatalogShape'
      /\ catalog'.regs \subseteq {"frozen", "edited"}
  BY <1>1 DEF Base, SealedStaysSealed, RefusalsAreExplained, Shapes, CatalogShape, Placed
<1>4. IsProc(Idle) /\ Following(kind, Idle.pc)
  BY IdleProcess, IdleIsProc DEF Base, Placed
<1>5. Base'
  BY <1>1, <1>2, <1>3, <1>4, BaseStep
<1>6. ASSUME NEW c \in Contents, kind # "acquisition", Kept(c)
      PROVE  Kept(c)'
  <2>1. Process(kind, c, Idle) /\ Behind(catalog'.rows, kind, Idle)
    BY IdleProcess
  <2>2. RowsPossible(c)' /\ RowsHonest(c)' /\ Longer(catalog.rows, catalog'.rows) /\ FilesRight(c)'
    <3>1. FilesRight(c)'
      BY <1>1, <1>6 DEF Kept, FilesRight
    <3> QED  BY <3>1, <1>1, <1>6, RowsSame
  <2> QED  BY <2>1, <2>2, <1>1, <1>2, <1>3, <1>4, <1>6, ProcStep
<1> QED  BY <1>5, <1>6

-----------------------------------------------------------------------------
(* The acquisition and the projection.                                        *)

LEMMA HeldFacts ==
  ASSUME CacheRight
  PROVE  /\ \A request : Held(request) = {d \in store.chunks : d.request = request}
         /\ Pending = Absent
<1>1. ASSUME NEW request
      PROVE  Held(request) = {d \in store.chunks : d.request = request}
  <2> DEFINE own == {d.reg : d \in {e \in store.chunks : e.request = request}}
  <2>1. identity(request) = IF own = {} THEN plan ELSE CHOOSE reg \in own : TRUE
    BY DEF identity
  <2>2. Held(request) = {d \in store.chunks : d.request = request /\ d.reg = identity(request)}
    BY DEF Held
  <2>3. ASSUME NEW d \in store.chunks, d.request = request
        PROVE  d.reg = identity(request)
    <3>1. d.reg \in own /\ \A r \in own : r = d.reg
      BY <2>3 DEF CacheRight, OneChunkPerRequest
    <3> HIDE DEF own
    <3> QED  BY <2>1, <3>1
  <2> QED  BY <2>2, <2>3
<1>2. Pending = {i \in DOMAIN Requests : Held(Requests[i]) = {}}
  BY DEF Pending
<1> QED  BY <1>1, <1>2 DEF Absent

\* A step of a process that acquires or projects.
LEMMA CacheStep ==
  ASSUME Base, kind = "acquisition", UNCHANGED <<kind, sources, frozen, catalog, files, harm, faults>>,
         NEW p \in Procs, NEW r, IsProc(r), Become(p, r), r.pc \in {"idle", "acquire", "insert", "project"},
         FileShape', transfer'.state \in {"none", "partial", "complete"},
         CacheRight', LockHeld', CopySound', SealedStaysSealed', RefusalsAreExplained'
  PROVE  Base'
<1>1. ProcShape' /\ proc'[p] = r /\ \A q \in Procs : q # p => proc'[q] = proc[q]
  BY BecomeFacts DEF Base, Shapes
<1>2. Shapes'
  BY <1>1 DEF Base, Shapes, CatalogShape
<1>3. Placed'
  <2>1. \A q \in Procs : proc'[q].pc \in {"idle", "acquire", "insert", "project"}
    BY <1>1 DEF Base, Placed
  <2> QED  BY <2>1 DEF Base, Placed
<1> QED  BY <1>2, <1>3 DEF Base

\* A step that leaves the cache and the projection as they are.
LEMMA CacheStays ==
  ASSUME Base, kind = "acquisition",
         UNCHANGED <<kind, sources, store, frozen, transfer, catalog, files, reads, harm, faults>>,
         NEW p \in Procs, NEW r, IsProc(r), Become(p, r), r.pc \in {"idle", "acquire", "insert"},
         r.pc # "idle" => /\ Is(p, "acquire") \/ Is(p, "insert")
                          /\ r.reg = proc[p].reg
                          /\ r.pc = "insert" => Absent # {} /\ r.got \in Contents \cup {1},
         RefusalsAreExplained'
  PROVE  Base'
<1>1. proc'[p] = r /\ \A q \in Procs : q # p => proc'[q] = proc[q]
  BY BecomeFacts DEF Base, Shapes
<1>2. FileShape' /\ CacheRight' /\ SealedStaysSealed' /\ transfer'.state \in {"none", "partial", "complete"}
  BY DEF Base, Shapes, FileShape, CacheRight, OneChunkPerRequest, Intact, SealedStaysSealed, Placed
<1>3. LockHeld'
  <2>1. Absent' = Absent
    BY DEF Absent
  <2> HIDE DEF Absent
  <2> QED  BY <1>1, <2>1 DEF Base, LockHeld, Is
<1>4. CopySound'
  <2>1. metadata(store)' = metadata(store) /\ Manifest(store)' = Manifest(store)
    BY DEF metadata, Manifest, plan, Accepted
  <2> HIDE DEF metadata, Manifest
  <2> QED  BY <1>1, <2>1 DEF Base, CopySound, Is
<1> QED  BY <1>2, <1>3, <1>4, CacheStep

\* A process that ends without touching the cache.
LEMMA CacheRefused ==
  ASSUME Base, kind = "acquisition", NEW p \in Procs, NEW reason, Refuse(p, reason), Excused(reason),
         UNCHANGED <<kind, sources, store, frozen, transfer, catalog, files, reads, harm, faults>>
  PROVE  Base'
<1>1. Become(p, Idle) /\ RefusalsAreExplained'
  BY RefuseFacts DEF Base
<1> QED  BY <1>1, IdleIsProc, CacheStays

LEMMA AcquireOpenStep ==
  ASSUME Base, NEW p \in Procs, AcquireOpen(p)
  PROVE  Base' /\ kind = "acquisition" /\ kind' = kind
<1>1. /\ Is(p, "idle") /\ kind = "acquisition"
      /\ UNCHANGED <<kind, sources, frozen, transfer, catalog, files, reads, harm, faults>>
  BY DEF AcquireOpen
<1>2. CASE Locked
  <2>1. Refuse(p, "locked") /\ UNCHANGED store
    BY <1>2 DEF AcquireOpen
  <2>2. Excused("locked")
    BY DEF Excused, Waits
  <2> QED  BY <2>1, <2>2, <1>1, CacheRefused
<1>3. CASE ~Locked /\ Drifted
  <2>1. Refuse(p, "acquisition_registration_drift") /\ UNCHANGED store
    BY <1>3 DEF AcquireOpen
  <2>2. "sources" \in harm
    BY <1>3 DEF Drifted, Accepted, plan, predecessor_plan, Base, Placed, CacheRight
  <2>3. Excused("acquisition_registration_drift")
    BY <2>2, CausesAre DEF Excused
  <2> QED  BY <2>1, <2>3, <1>1, CacheRefused
<1>4. ~LineageCorrupt
  BY DEF LineageCorrupt, Base, CacheRight, OneChunkPerRequest
<1>5. CASE ~Locked /\ ~Drifted
  <2> DEFINE r == [Idle EXCEPT !.pc = "acquire", !.reg = plan]
  <2>1. store' = [store EXCEPT !.regs = @ \cup {plan}] /\ Become(p, r) /\ refused' = refused
    BY <1>4, <1>5 DEF AcquireOpen
  <2>2. IsProc(r) /\ r.pc = "acquire" /\ r.reg = plan
    BY IdleIsProc, IdleRecords
  <2> HIDE DEF r
  <2>3. proc'[p] = r /\ \A q \in Procs : q # p => proc'[q] = proc[q]
    BY <2>1, <2>2, BecomeFacts DEF Base, Shapes
  <2>4. /\ store'.regs = store.regs \cup {sources} /\ store'.chunks = store.chunks
        /\ store' = [era |-> store'.era, regs |-> store'.regs, chunks |-> store'.chunks]
    BY <2>1 DEF Base, Shapes, FileShape, plan
  <2>5. FileShape' /\ SealedStaysSealed' /\ RefusalsAreExplained'
        /\ transfer'.state \in {"none", "partial", "complete"}
    BY <2>1, <2>4, <1>1 DEF Base, Shapes, FileShape, SealedStaysSealed, RefusalsAreExplained, Placed
  <2>6. CacheRight'
    <3>1. sources \in {"frozen", "edited"} /\ (sources = "edited" => "sources" \in harm)
      BY DEF Base, Placed
    <3>2. OneChunkPerRequest'
      BY <2>4 DEF Base, CacheRight, OneChunkPerRequest
    <3> QED  BY <3>1, <3>2, <2>4, <1>1 DEF Base, CacheRight, Intact
  <2>7. LockHeld'
    <3>1. Absent' = Absent
      BY <2>4 DEF Absent
    <3>2. \A q \in Procs : ~(proc[q].pc \in {"acquire", "insert"})
      BY <1>5 DEF Locked
    <3>3. \A q \in Procs : proc'[q].pc \in {"acquire", "insert"} => q = p
      BY <3>2, <2>3
    <3>4. proc'[p].pc = "acquire" /\ proc'[p].reg \in store'.regs
      BY <2>2, <2>3, <2>4 DEF plan
    <3> HIDE DEF Absent
    <3> QED  BY <3>3, <3>4 DEF LockHeld, Is
  <2>8. CopySound'
    <3> SUFFICES ASSUME NEW q \in Procs, Is(q, "project")', ({"store", "sources"} \cap harm = {})'
                 PROVE  (metadata(store) /\ frozen # NotFrozen /\ Manifest(store) = frozen)'
      BY DEF CopySound
    <3>1. q # p /\ Is(q, "project") /\ {"store", "sources"} \cap harm = {}
      BY <2>2, <2>3, <1>1 DEF Is
    <3>2. metadata(store) /\ frozen # NotFrozen /\ Manifest(store) = frozen
      BY <3>1 DEF Base, CopySound
    <3>3. Manifest(store)' = Manifest(store)
      BY <2>4 DEF Manifest
    <3>4. metadata(store)'
      BY <2>4, <3>2, <1>1 DEF metadata, plan, Accepted
    <3> QED  BY <3>2, <3>3, <3>4, <1>1
  <2> QED  BY <2>1, <2>2, <2>5, <2>6, <2>7, <2>8, <1>1, CacheStep
<1> QED  BY <1>1, <1>2, <1>3, <1>5

LEMMA AcquireFetchStep ==
  ASSUME Base, NEW p \in Procs, AcquireFetch(p)
  PROVE  Base' /\ kind = "acquisition" /\ kind' = kind
<1> DEFINE q == proc[p]
<1>1. /\ Is(p, "acquire") /\ q.pc = "acquire"
      /\ UNCHANGED <<kind, sources, store, frozen, transfer, catalog, files, reads, harm, faults>>
  BY DEF AcquireFetch, Is
<1>2. kind = "acquisition" /\ IsProc(q) /\ CacheRight
  BY <1>1 DEF Base, Placed, Shapes, ProcShape
<1>3. CASE Blocking # {}
  <2>1. Refuse(p, "acquisition_chunk_corrupt")
    BY <1>3 DEF AcquireFetch
  <2>2. \E d \in store.chunks : ~Intact(d)
    BY <1>3 DEF Blocking, Held
  <2>3. Excused("acquisition_chunk_corrupt")
    BY <2>2, <1>2, CausesAre DEF Excused, CacheRight
  <2> QED  BY <2>1, <2>3, <1>1, <1>2, CacheRefused
<1>4. CASE Blocking = {} /\ (Pending = {} \/ q.count >= Limit)
  <2>1. Become(p, Idle) /\ refused' = refused
    BY <1>4 DEF AcquireFetch
  <2>2. RefusalsAreExplained'
    BY <2>1, <1>1 DEF Base, RefusalsAreExplained
  <2> QED  BY <2>1, <2>2, <1>1, <1>2, IdleIsProc, CacheStays
<1>5. CASE Blocking = {} /\ ~(Pending = {} \/ q.count >= Limit)
  <2>1. Absent # {}
    BY <1>2, <1>5, HeldFacts
  <2>2. \/ \E content \in fetch(NextRequest) : Become(p, Fetched(q, content)) /\ refused' = refused
        \/ Refuse(p, "provider_auth")
        \/ Refuse(p, "provider_failed")
        \/ Become(p, Retried(q)) /\ refused' = refused
    BY <1>5 DEF AcquireFetch, Fetched, Retried
  <2> HIDE DEF q
  <2>3. ASSUME NEW content \in fetch(NextRequest), Become(p, Fetched(q, content)), refused' = refused
        PROVE  Base'
    <3> DEFINE r == Fetched(q, content)
    <3>1. content \in Contents \cup {1}
      BY DEF fetch
    <3>2. IsProc(r) /\ r.pc = "insert" /\ r.got = content /\ Alike(r, q, {"pc", "got"})
      BY <1>2, AcquireRecords
    <3>3. Become(p, r)
      BY <2>3
    <3> HIDE DEF r
    <3>4. r.reg = proc[p].reg
      BY <3>2 DEF Alike, Fields, q
    <3>5. RefusalsAreExplained'
      BY <2>3, <1>1 DEF Base, RefusalsAreExplained
    <3>6. r.pc \in {"idle", "acquire", "insert"}
          /\ (r.pc # "idle" => /\ Is(p, "acquire") \/ Is(p, "insert")
                               /\ r.reg = proc[p].reg
                               /\ r.pc = "insert" => Absent # {} /\ r.got \in Contents \cup {1})
      BY <3>1, <3>2, <3>4, <2>1, <1>1
    <3> QED  BY <3>2, <3>3, <3>5, <3>6, <1>1, <1>2, CacheStays
  <2>4. CASE Refuse(p, "provider_auth") \/ Refuse(p, "provider_failed")
    <3>1. Excused("provider_auth") /\ Excused("provider_failed")
      BY DEF Excused, Waits
    <3> QED  BY <2>4, <3>1, <1>1, <1>2, CacheRefused
  <2>5. CASE Become(p, Retried(q)) /\ refused' = refused
    <3> DEFINE r == Retried(q)
    <3>1. IsProc(r) /\ Alike(r, q, {"tries"})
      BY <1>2, AcquireRecords
    <3>2. Become(p, r)
      BY <2>5
    <3> HIDE DEF r
    <3>3. r.pc = "acquire" /\ r.reg = proc[p].reg
      BY <3>1, <1>1 DEF Alike, Fields, q
    <3>4. RefusalsAreExplained'
      BY <2>5, <1>1 DEF Base, RefusalsAreExplained
    <3>5. r.pc \in {"idle", "acquire", "insert"}
          /\ (r.pc # "idle" => /\ Is(p, "acquire") \/ Is(p, "insert")
                               /\ r.reg = proc[p].reg
                               /\ r.pc = "insert" => Absent # {} /\ r.got \in Contents \cup {1})
      BY <3>3, <1>1
    <3> QED  BY <3>1, <3>2, <3>4, <3>5, <1>1, <1>2, CacheStays
  <2> QED  BY <2>2, <2>3, <2>4, <2>5, <1>1, <1>2
<1> QED  BY <1>1, <1>2, <1>3, <1>4, <1>5

LEMMA AcquireInsertStep ==
  ASSUME Base, NEW p \in Procs, AcquireInsert(p)
  PROVE  Base' /\ kind = "acquisition" /\ kind' = kind
<1> DEFINE q == proc[p]
           r == Inserted(q)
           new == Chunk(NextRequest, q.reg, q.got)
<1>1. /\ Is(p, "insert") /\ q.pc = "insert" /\ Become(p, r) /\ store' = [store EXCEPT !.chunks = @ \cup {new}]
      /\ UNCHANGED <<kind, sources, frozen, transfer, catalog, files, reads, refused, harm, faults>>
  BY DEF AcquireInsert, Is, Inserted
<1>2. kind = "acquisition" /\ IsProc(q) /\ CacheRight
  BY <1>1 DEF Base, Placed, Shapes, ProcShape
<1>3. Absent # {} /\ q.reg \in store.regs /\ q.got \in Contents \cup {1}
      /\ \A o \in Procs : Is(o, "acquire") \/ Is(o, "insert") => o = p
  BY <1>1 DEF Base, LockHeld
<1>4. NextRequest \in Range(Requests) /\ \A d \in store.chunks : d.request # NextRequest
  <2>1. NextRequest = Requests[Min(Absent)]
    BY <1>2, HeldFacts DEF NextRequest
  <2>2. Absent \subseteq Nat /\ Absent \subseteq DOMAIN Requests
    <3>1. DOMAIN Requests \subseteq Nat
      BY ValidationAssumption
    <3> QED  BY <3>1 DEF Absent
  <2>3. Min(Absent) \in Absent
    BY <2>2, <1>3, MinIsLeast
  <2> QED  BY <2>1, <2>2, <2>3 DEF Absent, Range
<1>5. /\ new = [request |-> NextRequest, reg |-> q.reg, content |-> q.got, blob |-> q.got, era |-> store.era]
      /\ IsChunk(new) /\ Intact(new) /\ new.request = NextRequest /\ new.reg = q.reg /\ new.blob = q.got
  BY DEF Chunk, IsChunk, Intact
<1>6. /\ IsProc(r) /\ r.pc = "acquire" /\ Alike(r, q, {"pc", "tries", "count", "got"})
  BY <1>2, AcquireRecords
<1> HIDE DEF r, new, q
<1>7. r.reg = q.reg
  BY <1>6 DEF Alike, Fields
<1>8. proc'[p] = r /\ \A o \in Procs : o # p => proc'[o] = proc[o]
  BY <1>1, <1>6, BecomeFacts DEF Base, Shapes
<1>9. /\ store'.regs = store.regs /\ store'.chunks = store.chunks \cup {new}
      /\ store' = [era |-> store'.era, regs |-> store'.regs, chunks |-> store'.chunks]
  BY <1>1 DEF Base, Shapes, FileShape
<1>10. FileShape' /\ SealedStaysSealed' /\ RefusalsAreExplained'
       /\ transfer'.state \in {"none", "partial", "complete"}
  BY <1>1, <1>9 DEF Base, Shapes, FileShape, SealedStaysSealed, RefusalsAreExplained, Placed
<1>11. CacheRight'
  <2>1. OneChunkPerRequest'
    <3>1. \A d, e \in store'.chunks : d.request = e.request => d = e
      BY <1>2, <1>4, <1>5, <1>9 DEF CacheRight, OneChunkPerRequest
    <3> QED  BY <3>1 DEF OneChunkPerRequest
  <2>2. \A d \in store'.chunks :
          /\ IsChunk(d) /\ d.request \in Range(Requests) /\ d.reg \in store'.regs
          /\ d.blob \in Contents \cup {1, 2}
          /\ "store" \notin harm => Intact(d)
    <3> TAKE d \in store'.chunks
    <3>1. CASE d = new
      BY <3>1, <1>3, <1>4, <1>5, <1>9
    <3>2. CASE d # new
      BY <3>2, <1>2, <1>9 DEF CacheRight
    <3> QED  BY <3>1, <3>2
  <2>3. \A d : Intact(d)' <=> Intact(d)
    BY DEF Intact
  <2> QED  BY <2>1, <2>2, <2>3, <1>1, <1>2, <1>9 DEF CacheRight
<1>12. LockHeld'
  <2>1. \A o \in Procs : proc'[o].pc \in {"acquire", "insert"} => o = p
    BY <1>3, <1>8 DEF Is
  <2>2. proc'[p].pc = "acquire" /\ proc'[p].reg \in store'.regs
    BY <1>3, <1>6, <1>7, <1>8, <1>9
  <2> QED  BY <2>1, <2>2 DEF LockHeld, Is
<1>13. CopySound'
  <2> SUFFICES ASSUME NEW o \in Procs, Is(o, "project")', ({"store", "sources"} \cap harm = {})'
               PROVE  FALSE
    BY DEF CopySound
  <2>1. Is(o, "project") /\ {"store", "sources"} \cap harm = {}
    BY <1>1, <1>6, <1>8 DEF Is
  <2>2. metadata(store)
    BY <2>1 DEF Base, CopySound
  <2>3. NextRequest \in {d.request : d \in store.chunks}
    BY <2>2, <1>4 DEF metadata
  <2> QED  BY <2>3, <1>4
<1> QED  BY <1>1, <1>2, <1>6, <1>10, <1>11, <1>12, <1>13, CacheStep

LEMMA ProjectOpenStep ==
  ASSUME Base, NEW p \in Procs, ProjectOpen(p)
  PROVE  Base' /\ kind = "acquisition" /\ kind' = kind
<1>1. /\ Is(p, "idle") /\ kind = "acquisition"
      /\ UNCHANGED <<kind, sources, store, frozen, catalog, files, reads, harm, faults>>
  BY DEF ProjectOpen
<1>2. CASE ~audit_cache(store) \/ transfer.state # "none"
  <2>1. transfer' = transfer /\ (Refuse(p, "frozen_coverage") \/ Refuse(p, "projection_exists"))
    BY <1>2 DEF ProjectOpen
  <2>2. Excused("frozen_coverage") /\ Excused("projection_exists")
    BY DEF Excused, Waits
  <2> QED  BY <2>1, <2>2, <1>1, CacheRefused
<1>3. CASE audit_cache(store) /\ transfer.state = "none"
  <2> DEFINE r == [Idle EXCEPT !.pc = "project"]
  <2>1. transfer' = [transfer EXCEPT !.state = "partial"] /\ Become(p, r) /\ refused' = refused
    BY <1>3 DEF ProjectOpen
  <2>2. IsProc(r) /\ r.pc = "project"
    BY IdleIsProc, IdleRecords
  <2> HIDE DEF r
  <2>3. proc'[p] = r /\ \A o \in Procs : o # p => proc'[o] = proc[o]
    BY <2>1, <2>2, BecomeFacts DEF Base, Shapes
  <2>4. transfer'.state = "partial" /\ FileShape'
    BY <2>1, <1>1 DEF Base, Shapes, FileShape
  <2>5. SealedStaysSealed' /\ RefusalsAreExplained'
    BY <2>1, <2>4, <1>1 DEF Base, SealedStaysSealed, RefusalsAreExplained
  <2>6. CacheRight'
    BY <1>1 DEF Base, CacheRight, OneChunkPerRequest, Intact
  <2>7. LockHeld'
    <3>1. Absent' = Absent
      BY <1>1 DEF Absent
    <3> HIDE DEF Absent
    <3> QED  BY <3>1, <2>2, <2>3, <1>1 DEF Base, LockHeld, Is
  <2>8. CopySound'
    <3>1. metadata(store)' = metadata(store) /\ Manifest(store)' = Manifest(store)
      BY <1>1 DEF metadata, Manifest, plan, Accepted
    <3>2. metadata(store) /\ frozen # NotFrozen /\ Manifest(store) = frozen
      BY <1>3 DEF audit_cache
    <3> HIDE DEF metadata, Manifest
    <3> QED  BY <3>1, <3>2, <1>1 DEF CopySound
  <2> QED  BY <2>1, <2>2, <2>4, <2>5, <2>6, <2>7, <2>8, <1>1, CacheStep
<1> QED  BY <1>1, <1>2, <1>3

LEMMA ProjectCopyStep ==
  ASSUME Base, NEW p \in Procs, ProjectCopy(p)
  PROVE  Base' /\ kind = "acquisition" /\ kind' = kind
<1> DEFINE copied == load_development(store)
           whole == metadata(store) /\ Manifest(store) = frozen /\ \A d \in copied : Intact(d)
<1>1. /\ Is(p, "project") /\ reads' = reads \cup {Period[d.request] : d \in copied} /\ Become(p, Idle)
      /\ UNCHANGED <<kind, sources, store, frozen, catalog, files, harm, faults>>
      /\ IF whole
         THEN /\ transfer' = [transfer EXCEPT !.state = "complete", !.file = Projected(store),
                                              !.binding = Projected(store)]
              /\ UNCHANGED refused
         ELSE /\ transfer' = [transfer EXCEPT !.state = "none"]
              /\ refused' = refused \cup {"projection_refused"}
  BY DEF ProjectCopy
<1>2. kind = "acquisition" /\ CacheRight
  BY <1>1 DEF Base, Placed, Is
<1>3. "sealed" \notin reads'
  BY <1>1 DEF Base, SealedStaysSealed, load_development
<1>4. proc'[p] = Idle /\ \A o \in Procs : o # p => proc'[o] = proc[o]
  BY <1>1, IdleIsProc, BecomeFacts DEF Base, Shapes
<1>5. CacheRight'
  BY <1>1, <1>2 DEF CacheRight, OneChunkPerRequest, Intact
<1>6. LockHeld'
  <2>1. Absent' = Absent
    BY <1>1 DEF Absent
  <2> HIDE DEF Absent
  <2>2. \A o \in Procs : proc'[o].pc \in {"acquire", "insert"} => proc'[o] = proc[o]
    BY <1>4, IdleIsProc
  <2>3. LockHeld
    BY DEF Base
  <2> QED  BY <2>1, <2>2, <2>3, <1>1 DEF LockHeld, Is
<1>7. CopySound'
  <2>1. metadata(store)' = metadata(store) /\ Manifest(store)' = Manifest(store)
    BY <1>1 DEF metadata, Manifest, plan, Accepted
  <2> HIDE DEF metadata, Manifest
  <2> QED  BY <2>1, <1>1, <1>4, IdleIsProc DEF Base, CopySound, Is
<1>8. CASE whole
  <2>1. /\ transfer' = [transfer EXCEPT !.state = "complete", !.file = Projected(store),
                                        !.binding = Projected(store)]
        /\ refused' = refused
    BY <1>1, <1>8
  <2> HIDE DEF whole, copied
  <2>2. transfer'.state = "complete" /\ transfer'.binding = Projected(store) /\ FileShape'
    BY <2>1, <1>1 DEF Base, Shapes, FileShape
  <2>3. Projected(store).chunks = {Sealed(d) : d \in store.chunks}
    BY DEF Base, Shapes, FileShape, Projected
  <2>4. \A d \in store.chunks : /\ Sealed(d).request = d.request
                                /\ Period[d.request] = "sealed" => Sealed(d).blob = None
    <3> TAKE d \in store.chunks
    <3>1. IsChunk(d)
      BY <1>2 DEF CacheRight
    <3> QED  BY <3>1 DEF Sealed, IsChunk
  <2>5. SealedStaysSealed'
    BY <2>2, <2>3, <2>4, <1>3 DEF SealedStaysSealed
  <2>6. RefusalsAreExplained'
    BY <2>1, <1>1 DEF Base, RefusalsAreExplained
  <2> QED  BY <2>2, <2>5, <2>6, <1>1, <1>2, <1>5, <1>6, <1>7, IdleIsProc, CacheStep
<1>9. CASE ~whole
  <2>1. transfer' = [transfer EXCEPT !.state = "none"] /\ refused' = refused \cup {"projection_refused"}
    BY <1>1, <1>9
  <2>2. {"store", "sources"} \cap harm # {}
    <3> SUFFICES ASSUME {"store", "sources"} \cap harm = {} PROVE FALSE
      OBVIOUS
    <3>1. metadata(store) /\ Manifest(store) = frozen
      BY <1>1 DEF Base, CopySound
    <3>2. \A d \in copied : Intact(d)
      BY <1>2 DEF CacheRight, load_development
    <3> QED  BY <3>1, <3>2, <1>9
  <2> HIDE DEF whole, copied
  <2>3. transfer'.state = "none" /\ FileShape'
    BY <2>1, <1>1 DEF Base, Shapes, FileShape
  <2>4. SealedStaysSealed'
    BY <2>3, <1>3 DEF SealedStaysSealed
  <2>5. RefusalsAreExplained'
    BY <2>1, <2>2, <1>1, CausesAre DEF Base, RefusalsAreExplained
  <2> QED  BY <2>3, <2>4, <2>5, <1>1, <1>2, <1>5, <1>6, <1>7, IdleIsProc, CacheStep
<1> QED  BY <1>1, <1>2, <1>8, <1>9

-----------------------------------------------------------------------------
(* The owner and the faults.                                                  *)

LEMMA FaultFacts ==
  ASSUME Base, NEW what, Fault(what)
  PROVE  faults' \in 0..Faults /\ harm' = harm \cup what
<1>1. faults \in 0..Faults /\ Faults \in Nat
  BY ValidationAssumption DEF Base, Placed
<1> QED  BY <1>1 DEF Fault

\* What no process has a part in, with more harm than before at most.
LEMMA OwnerBase ==
  ASSUME Base, UNCHANGED <<kind, files, proc, reads, refused>>, harm \subseteq harm', faults' \in 0..Faults,
         CatalogShape', FileShape', catalog'.regs = catalog.regs,
         kind = "acquisition" => catalog' = catalog,
         sources' \in {"frozen", "edited"}, sources' = "edited" => "sources" \in harm',
         transfer'.state \in {"none", "partial", "complete"},
         transfer'.state = "complete" => transfer.state = "complete" /\ transfer'.binding = transfer.binding,
         CacheRight', LockHeld', CopySound'
  PROVE  Base'
<1>1. Shapes'
  BY DEF Base, Shapes, ProcShape
<1>2. Placed'
  BY DEF Base, Placed
<1>3. SealedStaysSealed' /\ RefusalsAreExplained'
  BY DEF Base, SealedStaysSealed, RefusalsAreExplained
<1> QED  BY <1>1, <1>2, <1>3 DEF Base

LEMMA OwnerKept ==
  ASSUME NEW c, Kept(c), UNCHANGED <<kind, frozen, catalog, files, proc>>,
         "catalog" \in harm' <=> "catalog" \in harm,
         "store" \notin harm' => /\ "store" \notin harm /\ store' = store
                                 /\ transfer'.file = transfer.file
  PROVE  Kept(c)'
<1>1. Given(c)' /\ FilesRight(c)'
  BY DEF Kept, Given, FilesRight
<1>2. Untouched' = Untouched
  BY DEF Untouched
<1>3. RowsPossible(c)' /\ RowsHonest(c)' /\ ProcsRight(c)'
  BY <1>2 DEF Kept, RowsPossible, RowsHonest, ProcsRight
<1> QED  BY <1>1, <1>3 DEF Kept

LEMMA LockStays ==
  ASSUME Base, proc' = proc, store' = store
  PROVE  LockHeld'
<1>1. Absent' = Absent
  BY DEF Absent
<1> HIDE DEF Absent
<1> QED  BY <1>1 DEF Base, LockHeld, Is

LEMMA QuietFacts ==
  ASSUME Quiet, proc' = proc
  PROVE  LockHeld' /\ CopySound'
BY DEF Quiet, LockHeld, CopySound, Is

LEMMA FreezeStep ==
  ASSUME Inv, Freeze
  PROVE  Inv'
<1>1. /\ frozen = NotFrozen /\ metadata(store) /\ frozen' = Manifest(store)
      /\ UNCHANGED <<kind, sources, store, transfer, catalog, files, proc, reads, refused, harm, faults>>
  BY DEF Freeze
<1>2. Base
  BY DEF Inv
<1>3. kind = "acquisition"
  <2> SUFFICES ASSUME NEW c \in Contents, Kept(c) PROVE FALSE
    BY DEF Inv
  <2> QED  BY <1>1, ContentIsGiven DEF Kept, Given
<1>4. CatalogShape' /\ FileShape' /\ CacheRight'
  BY <1>1, <1>2 DEF Base, Shapes, CatalogShape, FileShape, CacheRight, OneChunkPerRequest, Intact
<1>5. LockHeld'
  BY <1>1, <1>2, LockStays
<1>6. CopySound'
  <2> SUFFICES ASSUME NEW p \in Procs, Is(p, "project")', ({"store", "sources"} \cap harm = {})'
               PROVE  FALSE
    BY DEF CopySound
  <2>1. Is(p, "project") /\ {"store", "sources"} \cap harm = {}
    BY <1>1 DEF Is
  <2> QED  BY <2>1, <1>1, <1>2 DEF Base, CopySound
<1>7. Base'
  BY <1>1, <1>2, <1>4, <1>5, <1>6, OwnerBase DEF Base, Placed
<1> QED  BY <1>1, <1>3, <1>7 DEF Inv

LEMMA RemovePartialStep ==
  ASSUME Inv, RemovePartial
  PROVE  Inv'
<1>1. /\ transfer.state = "partial" /\ transfer' = [transfer EXCEPT !.state = "none"]
      /\ UNCHANGED <<kind, sources, store, frozen, catalog, files, proc, reads, refused, harm, faults>>
  BY DEF RemovePartial
<1>2. Base
  BY DEF Inv
<1>3. transfer'.state = "none" /\ transfer'.file = transfer.file /\ FileShape'
  BY <1>1, <1>2 DEF Base, Shapes, FileShape
<1>4. CatalogShape' /\ CacheRight'
  BY <1>1, <1>2 DEF Base, Shapes, CatalogShape, CacheRight, OneChunkPerRequest, Intact
<1>5. LockHeld'
  BY <1>1, <1>2, LockStays
<1>6. CopySound'
  <2>1. metadata(store)' = metadata(store) /\ Manifest(store)' = Manifest(store)
    BY <1>1 DEF metadata, Manifest, plan, Accepted
  <2> HIDE DEF metadata, Manifest
  <2> QED  BY <2>1, <1>1, <1>2 DEF Base, CopySound, Is
<1>7. Base'
  BY <1>1, <1>2, <1>3, <1>4, <1>5, <1>6, OwnerBase DEF Base, Placed
<1>8. \A c \in Contents : Kept(c) => Kept(c)'
  BY <1>1, <1>3, OwnerKept
<1> QED  BY <1>1, <1>7, <1>8 DEF Inv

LEMMA LoseStoreStep ==
  ASSUME Inv, LoseStore
  PROVE  Inv'
<1>1. /\ Quiet /\ Fault({"store"}) /\ store' = [regs |-> {}, chunks |-> {}, era |-> store.era + 1]
      /\ UNCHANGED <<kind, sources, frozen, transfer, catalog, files, proc, reads, refused>>
  BY DEF LoseStore
<1>2. Base
  BY DEF Inv
<1>3. faults' \in 0..Faults /\ harm' = harm \cup {"store"}
  BY <1>1, <1>2, FaultFacts
<1>4. store'.regs = {} /\ store'.chunks = {} /\ FileShape' /\ CatalogShape'
  BY <1>1, <1>2 DEF Base, Shapes, FileShape, CatalogShape
<1>5. CacheRight'
  BY <1>4 DEF CacheRight, OneChunkPerRequest
<1>6. LockHeld' /\ CopySound'
  BY <1>1, QuietFacts
<1>7. Base'
  BY <1>1, <1>2, <1>3, <1>4, <1>5, <1>6, OwnerBase DEF Base, Placed
<1>8. \A c \in Contents : Kept(c) => Kept(c)'
  BY <1>1, <1>3, OwnerKept
<1> QED  BY <1>1, <1>7, <1>8 DEF Inv

LEMMA EditSourcesStep ==
  ASSUME Inv, EditSources
  PROVE  Inv'
<1>1. /\ Fault({"sources"}) /\ sources' = "edited"
      /\ UNCHANGED <<kind, store, frozen, transfer, catalog, files, proc, reads, refused>>
  BY DEF EditSources
<1>2. Base
  BY DEF Inv
<1>3. faults' \in 0..Faults /\ harm' = harm \cup {"sources"}
  BY <1>1, <1>2, FaultFacts
<1>4. FileShape' /\ CatalogShape'
  BY <1>1, <1>2 DEF Base, Shapes, FileShape, CatalogShape
<1>5. CacheRight'
  BY <1>1, <1>2, <1>3 DEF Base, CacheRight, OneChunkPerRequest, Intact
<1>6. LockHeld' /\ CopySound'
  BY <1>1, <1>2, <1>3, LockStays DEF CopySound
<1>7. Base'
  BY <1>1, <1>2, <1>3, <1>4, <1>5, <1>6, OwnerBase DEF Base, Placed
<1>8. \A c \in Contents : Kept(c) => Kept(c)'
  BY <1>1, <1>3, OwnerKept
<1> QED  BY <1>1, <1>7, <1>8 DEF Inv

LEMMA RestoreSourcesStep ==
  ASSUME Inv, RestoreSources
  PROVE  Inv'
<1>1. /\ sources = "edited" /\ sources' = "frozen"
      /\ UNCHANGED <<kind, store, frozen, transfer, catalog, files, proc, reads, refused, harm, faults>>
  BY DEF RestoreSources
<1>2. Base
  BY DEF Inv
<1>3. faults' \in 0..Faults /\ "sources" \in harm'
  BY <1>1, <1>2 DEF Base, Placed
<1>4. FileShape' /\ CatalogShape' /\ CacheRight'
  BY <1>1, <1>2 DEF Base, Shapes, FileShape, CatalogShape, CacheRight, OneChunkPerRequest, Intact
<1>5. LockHeld' /\ CopySound'
  BY <1>1, <1>2, <1>3, LockStays DEF CopySound
<1>6. Base'
  BY <1>1, <1>2, <1>3, <1>4, <1>5, OwnerBase DEF Base, Placed
<1>7. \A c \in Contents : Kept(c) => Kept(c)'
  BY <1>1, <1>3, OwnerKept
<1> QED  BY <1>1, <1>6, <1>7 DEF Inv

LEMMA AlterBlobStep ==
  ASSUME Inv, AlterBlob
  PROVE  Inv'
<1>1. /\ Quiet /\ Fault({"store"})
      /\ UNCHANGED <<kind, sources, frozen, catalog, files, proc, reads, refused>>
      /\ \/ \E d \in store.chunks : store' = Spoil(store, d) /\ UNCHANGED transfer
         \/ \E d \in transfer.file.chunks : /\ transfer' = [transfer EXCEPT !.file = Spoil(@, d)]
                                            /\ UNCHANGED store
  BY DEF AlterBlob
<1>2. Base
  BY DEF Inv
<1>3. faults' \in 0..Faults /\ harm' = harm \cup {"store"}
  BY <1>1, <1>2, FaultFacts
<1>4. CatalogShape'
  BY <1>1, <1>2 DEF Base, Shapes, CatalogShape
<1>5. FileShape' /\ CacheRight' /\ transfer'.state = transfer.state /\ transfer'.binding = transfer.binding
  <2>1. CASE \E d \in store.chunks : store' = Spoil(store, d) /\ UNCHANGED transfer
    <3>1. PICK d \in store.chunks : store' = Spoil(store, d) /\ transfer' = transfer
      BY <2>1
    <3> DEFINE e == [d EXCEPT !.blob = IF @ = 1 THEN 2 ELSE 1]
    <3>2. IsChunk(e) /\ e.request = d.request /\ e.reg = d.reg /\ e.blob \in {1, 2}
      <4>1. IsChunk(d)
        BY <1>2 DEF Base, CacheRight
      <4> QED  BY <4>1 DEF IsChunk
    <3>3. store' = [store EXCEPT !.chunks = (@ \ {d}) \cup {e}]
      BY <3>1 DEF Spoil
    <3> HIDE DEF e
    <3>4. /\ store'.regs = store.regs /\ store'.chunks = (store.chunks \ {d}) \cup {e}
          /\ store' = [era |-> store'.era, regs |-> store'.regs, chunks |-> store'.chunks]
      BY <3>3, <1>2 DEF Base, Shapes, FileShape
    <3>5. FileShape'
      BY <3>1, <3>4, <1>2 DEF Base, Shapes, FileShape
    <3>6. OneChunkPerRequest'
      <4>1. \A x, y \in store.chunks : x.request = y.request => x = y
        BY <1>2 DEF Base, CacheRight, OneChunkPerRequest
      <4>2. \A x \in store'.chunks : x = e \/ (x \in store.chunks /\ x.request # e.request)
        BY <3>2, <3>4, <4>1
      <4> QED  BY <3>4, <4>1, <4>2 DEF OneChunkPerRequest
    <3>7. CacheRight'
      BY <3>2, <3>4, <3>6, <1>2, <1>3 DEF Base, CacheRight
    <3> QED  BY <3>1, <3>5, <3>7
  <2>2. CASE \E d \in transfer.file.chunks : /\ transfer' = [transfer EXCEPT !.file = Spoil(@, d)]
                                             /\ UNCHANGED store
    <3>1. /\ FileShape' /\ transfer'.state = transfer.state /\ transfer'.binding = transfer.binding
          /\ store' = store
      BY <2>2, <1>2 DEF Base, Shapes, FileShape
    <3>2. CacheRight'
      BY <3>1, <1>2, <1>3 DEF Base, CacheRight, OneChunkPerRequest, Intact
    <3> QED  BY <3>1, <3>2
  <2> QED  BY <1>1, <2>1, <2>2
<1>6. LockHeld' /\ CopySound'
  BY <1>1, QuietFacts
<1>7. Base'
  BY <1>1, <1>2, <1>3, <1>4, <1>5, <1>6, OwnerBase DEF Base, Placed
<1>8. \A c \in Contents : Kept(c) => Kept(c)'
  BY <1>1, <1>3, OwnerKept
<1> QED  BY <1>1, <1>7, <1>8 DEF Inv

LEMMA RemoveAtFacts ==
  ASSUME NEW S, NEW s \in Seq(S), NEW i \in DOMAIN s
  PROVE  /\ RemoveAt(s, i) \in Seq(S) /\ Len(RemoveAt(s, i)) = Len(s) - 1
         /\ \A j \in 1..(Len(s) - 1) : RemoveAt(s, i)[j] = IF j < i THEN s[j] ELSE s[j + 1]
<1> DEFINE a == SubSeq(s, 1, i - 1)
           b == SubSeq(s, i + 1, Len(s))
<1>1. RemoveAt(s, i) = a \o b
  BY DEF RemoveAt
<1>2. Len(s) \in Nat /\ i \in 1..Len(s)
  OBVIOUS
<1>3. a \in Seq(S) /\ Len(a) = i - 1 /\ \A j \in 1..(i - 1) : a[j] = s[j]
  BY <1>2
<1>4. b \in Seq(S) /\ Len(b) = Len(s) - i /\ \A j \in 1..(Len(s) - i) : b[j] = s[j + i]
  BY <1>2
<1> HIDE DEF a, b
<1>5. a \o b \in Seq(S) /\ Len(a \o b) = Len(s) - 1
  BY <1>2, <1>3, <1>4
<1>6. ASSUME NEW j \in 1..(Len(s) - 1)
      PROVE  (a \o b)[j] = IF j < i THEN s[j] ELSE s[j + 1]
  <2>1. CASE j < i
    BY <2>1, <1>2, <1>3, <1>4
  <2>2. CASE ~(j < i)
    <3>1. (a \o b)[j] = b[j - (i - 1)]
      BY <2>2, <1>2, <1>3, <1>4
    <3>2. j - (i - 1) \in 1..(Len(s) - i) /\ (j - (i - 1)) + i = j + 1
      BY <2>2, <1>2
    <3> QED  BY <2>2, <3>1, <3>2, <1>4
  <2> QED  BY <2>1, <2>2
<1> QED  BY <1>1, <1>5, <1>6

LEMMA ForgedPossible ==
  ASSUME NEW c, NEW chain, NEW b \in Possible(c, chain)
  PROVE  Forged(b) \in Possible(c, chain) /\ Forged(b).day = b.day
<1> DEFINE days == {TrueBody(c, chain, d) : d \in 0..(EndDay - 1)}
<1>1. Possible(c, chain) = days \cup {Forged(x) : x \in days}
  BY DEF Possible
<1>2. \A d : /\ Forged(Forged(TrueBody(c, chain, d))) = Forged(TrueBody(c, chain, d))
             /\ TrueBody(c, chain, d).day = d /\ Forged(TrueBody(c, chain, d)).day = d
  BY TrueBodyFacts
<1> QED  BY <1>1, <1>2

\* An altered chain is made of days of the candles, some of them forged.
LEMMA AlteredRows ==
  ASSUME NEW c, NEW chain, NEW rows \in Seq(Possible(c, chain)),
         \A i, j \in DOMAIN rows : rows[i].day = rows[j].day => i = j,
         NEW n \in DOMAIN rows, NEW new,
         new = [rows EXCEPT ![n] = Forged(@)] \/ new = RemoveAt(rows, n)
  PROVE  /\ new \in Seq(Possible(c, chain))
         /\ \A i, j \in DOMAIN new : new[i].day = new[j].day => i = j
<1>1. DOMAIN rows = 1..Len(rows) /\ Len(rows) \in Nat /\ \A i \in 1..Len(rows) : rows[i] \in Possible(c, chain)
  OBVIOUS
<1>2. Forged(rows[n]) \in Possible(c, chain) /\ Forged(rows[n]).day = rows[n].day
  BY <1>1, ForgedPossible
<1>3. CASE new = [rows EXCEPT ![n] = Forged(@)]
  <2> HIDE DEF Possible, Forged
  <2>1. /\ new \in Seq(Possible(c, chain)) /\ DOMAIN new = DOMAIN rows
        /\ new[n] = Forged(rows[n]) /\ \A i \in DOMAIN rows : i # n => new[i] = rows[i]
    BY <1>1, <1>2, <1>3
  <2>2. \A i \in DOMAIN rows : new[i].day = rows[i].day
    BY <2>1, <1>2
  <2> QED  BY <2>1, <2>2
<1>4. CASE new = RemoveAt(rows, n)
  <2> HIDE DEF Possible
  <2>1. /\ new \in Seq(Possible(c, chain)) /\ Len(new) = Len(rows) - 1
        /\ \A j \in 1..(Len(rows) - 1) : new[j] = IF j < n THEN rows[j] ELSE rows[j + 1]
    BY <1>4, RemoveAtFacts
  <2>2. DOMAIN new = 1..(Len(rows) - 1)
    BY <2>1
  <2>3. ASSUME NEW i \in DOMAIN new, NEW j \in DOMAIN new, new[i].day = new[j].day
        PROVE  i = j
    <3> DEFINE k == IF i < n THEN i ELSE i + 1
               m == IF j < n THEN j ELSE j + 1
    <3>1. k \in DOMAIN rows /\ m \in DOMAIN rows /\ new[i] = rows[k] /\ new[j] = rows[m]
      BY <2>1, <2>2, <1>1
    <3>2. k = m
      BY <3>1, <2>3
    <3>3. i \in 1..(Len(rows) - 1) /\ j \in 1..(Len(rows) - 1) /\ n \in 1..Len(rows) /\ Len(rows) \in Nat
      BY <2>2, <1>1
    <3>4. \A l \in Nat : \A x, y \in 1..(l - 1), z \in 1..l :
            (IF x < z THEN x ELSE x + 1) = (IF y < z THEN y ELSE y + 1) => x = y
      OBVIOUS
    <3> QED  BY ONLY <3>2, <3>3, <3>4
  <2> QED  BY <2>1, <2>3
<1> QED  BY <1>3, <1>4

LEMMA AlterCatalogStep ==
  ASSUME Inv, AlterCatalog
  PROVE  Inv'
<1>1. /\ Quiet /\ Fault({"catalog"})
      /\ UNCHANGED <<kind, sources, store, frozen, transfer, files, proc, reads, refused>>
  BY DEF AlterCatalog
<1>a. PICK chain \in Chains : \E i \in DOMAIN catalog.rows[chain] :
        \/ catalog' = [catalog EXCEPT !.rows[chain][i] = Forged(@)]
        \/ catalog' = [catalog EXCEPT !.rows[chain] = RemoveAt(@, i)]
  BY DEF AlterCatalog
<1>b. PICK n \in DOMAIN catalog.rows[chain] :
        \/ catalog' = [catalog EXCEPT !.rows[chain][n] = Forged(@)]
        \/ catalog' = [catalog EXCEPT !.rows[chain] = RemoveAt(@, n)]
  BY <1>a
<1>2. Base
  BY DEF Inv
<1>3. faults' \in 0..Faults /\ harm' = harm \cup {"catalog"}
  BY <1>1, <1>2, FaultFacts
<1> DEFINE rows == catalog.rows[chain]
           forged == [rows EXCEPT ![n] = Forged(@)]
           short == RemoveAt(rows, n)
<1>4. catalog' = [catalog EXCEPT !.rows[chain] = forged] \/ catalog' = [catalog EXCEPT !.rows[chain] = short]
  BY <1>b
<1> HIDE DEF forged, short
<1>5. PICK new : (new = forged \/ new = short) /\ catalog' = [catalog EXCEPT !.rows[chain] = new]
  BY <1>4
<1>6. /\ catalog'.rows = [catalog.rows EXCEPT ![chain] = new]
      /\ catalog'.regs = catalog.regs /\ catalog' = [regs |-> catalog'.regs, rows |-> catalog'.rows]
  BY <1>2, <1>5 DEF Base, Shapes, CatalogShape
<1>7. /\ catalog'.rows[chain] = new /\ CatalogShape'
      /\ \A ch \in Chains : ch # chain => catalog'.rows[ch] = catalog.rows[ch]
  BY <1>2, <1>6 DEF Base, Shapes, CatalogShape
<1>8. FileShape' /\ CacheRight'
  BY <1>1, <1>2, <1>3 DEF Base, Shapes, FileShape, CacheRight, OneChunkPerRequest, Intact
<1>9. LockHeld' /\ CopySound'
  BY <1>1, QuietFacts
<1>10. kind # "acquisition"
  <2> SUFFICES ASSUME kind = "acquisition" PROVE FALSE
    OBVIOUS
  <2>1. rows = <<>>
    BY <1>2 DEF Base, Placed
  <2> QED  BY <1>b, <2>1
<1>11. sources' \in {"frozen", "edited"} /\ (sources' = "edited" => "sources" \in harm')
       /\ transfer'.state \in {"none", "partial", "complete"}
  BY <1>1, <1>2, <1>3 DEF Base, Placed
<1>12. Base'
  BY <1>1, <1>2, <1>3, <1>6, <1>7, <1>8, <1>9, <1>10, <1>11, OwnerBase
<1>13. ASSUME NEW c \in Contents, Kept(c)
       PROVE  Kept(c)'
  <2>1. /\ rows \in Seq(Possible(c, chain))
        /\ \A i, j \in DOMAIN rows : rows[i].day = rows[j].day => i = j
    BY <1>13 DEF Kept, RowsPossible
  <2> HIDE DEF rows
  <2>2. n \in DOMAIN rows /\ (new = [rows EXCEPT ![n] = Forged(@)] \/ new = RemoveAt(rows, n))
    BY <1>5 DEF forged, short, rows
  <2>3. /\ new \in Seq(Possible(c, chain))
        /\ \A i, j \in DOMAIN new : new[i].day = new[j].day => i = j
    BY <2>1, <2>2, AlteredRows
  <2>4. RowsPossible(c)'
    <3>1. \A ch \in Chains :
             /\ catalog'.rows[ch] \in Seq(Possible(c, ch))
             /\ \A i, j \in DOMAIN catalog'.rows[ch] :
                  catalog'.rows[ch][i].day = catalog'.rows[ch][j].day => i = j
      <4> TAKE ch \in Chains
      <4>1. CASE ch = chain
        BY <4>1, <2>3, <1>7
      <4>2. CASE ch # chain
        BY <4>2, <1>7, <1>13 DEF Kept, RowsPossible
      <4> QED  BY <4>1, <4>2
    <3> QED  BY <3>1 DEF RowsPossible
  <2>5. ~Untouched'
    BY <1>3 DEF Untouched
  <2>6. RowsHonest(c)' /\ ProcsRight(c)'
    BY <2>5, <1>1, <1>13 DEF Kept, RowsHonest, ProcsRight
  <2>7. Given(c)' /\ FilesRight(c)'
    BY <1>1, <1>3, <1>13 DEF Kept, Given, FilesRight
  <2> QED  BY <2>4, <2>6, <2>7 DEF Kept
<1> QED  BY <1>1, <1>12, <1>13 DEF Inv

-----------------------------------------------------------------------------
(* The initial states, and every step.                                        *)

LEMMA IdleStart ==
  ASSUME Init
  PROVE  /\ \A p \in Procs : proc[p] = Idle
         /\ ProcShape /\ CatalogShape /\ \A chain \in Chains : catalog.rows[chain] = <<>>
         /\ LockHeld /\ CopySound /\ RefusalsAreExplained /\ catalog.regs = {}
<1>1. proc = [p \in Procs |-> Idle] /\ catalog = [regs |-> {}, rows |-> [c \in Chains |-> <<>>]] /\ refused = {}
  BY DEF Init
<1>2. \A p \in Procs : proc[p] = Idle
  BY <1>1
<1>3. IsProc(Idle) /\ Idle.pc = "idle"
  BY IdleIsProc
<1> HIDE DEF Idle
<1>4. ProcShape
  BY <1>1, <1>3 DEF ProcShape
<1>5. CatalogShape /\ catalog.regs = {} /\ \A chain \in Chains : catalog.rows[chain] = <<>>
  BY <1>1 DEF CatalogShape
<1>6. LockHeld /\ CopySound
  BY <1>2, <1>3 DEF LockHeld, CopySound, Is
<1>7. RefusalsAreExplained
  BY <1>1 DEF RefusalsAreExplained
<1> QED  BY <1>2, <1>4, <1>5, <1>6, <1>7

LEMMA PlacedAtStart ==
  ASSUME Init
  PROVE  Placed
<1>1. /\ kind \in {"acquisition", "worker", "manual"} /\ sources = "frozen" /\ faults = 0 /\ files = {}
      /\ transfer.state \in {"none", "complete"}
  BY DEF Init
<1>2. catalog.regs = {} /\ \A chain \in Chains : catalog.rows[chain] = <<>>
  BY IdleStart
<1>3. \A p \in Procs : proc[p].pc = "idle"
  BY IdleStart, IdleIsProc
<1>4. Faults \in Nat
  BY ValidationAssumption
<1>5. faults \in 0..Faults
  BY <1>1, <1>4
<1> QED  BY <1>1, <1>2, <1>3, <1>5 DEF Placed

LEMMA AcquisitionStarts ==
  ASSUME Init, kind = "acquisition"
  PROVE  Inv
<1>1. PICK n \in 0..(Len(Requests) - 1) :
        /\ store = Resumed(n) /\ frozen = NotFrozen
        /\ transfer = [state |-> "none", file |-> NoFile, binding |-> NoFile]
  BY DEF Init
<1>2. reads = {} /\ harm = {}
  BY DEF Init
<1> DEFINE chunk(r) == [request |-> r, reg |-> "v2", content |-> 1, blob |-> 1, era |-> 0]
<1>3. /\ store.chunks = {chunk(Requests[i]) : i \in 1..n} /\ store.regs = IF n = 0 THEN {} ELSE {"v2"}
      /\ store = [era |-> store.era, regs |-> store.regs, chunks |-> store.chunks]
  BY <1>1 DEF Resumed, predecessor_plan
<1>4. \A r : IsChunk(chunk(r)) /\ chunk(r).request = r /\ chunk(r).reg = "v2" /\ chunk(r).blob = 1
             /\ Intact(chunk(r))
  BY DEF IsChunk, Intact
<1> HIDE DEF chunk
<1>5. \A i \in 1..n : Requests[i] \in Range(Requests)
  <2>1. Requests \in Seq(Range(Requests))
    BY ValidationAssumption
  <2>2. Len(Requests) \in Nat /\ DOMAIN Requests = 1..Len(Requests)
    BY <2>1
  <2>3. \A i \in 1..n : i \in DOMAIN Requests
    BY <2>2
  <2> QED  BY <2>3 DEF Range
<1>6. \A i \in 1..n : n # 0
  OBVIOUS
<1>7. CacheRight
  BY <1>3, <1>4, <1>5, <1>6 DEF CacheRight, OneChunkPerRequest
<1>8. FileShape /\ SealedStaysSealed
  BY <1>1, <1>2, <1>3 DEF FileShape, SealedStaysSealed
<1> QED  BY <1>7, <1>8, IdleStart, PlacedAtStart DEF Inv, Base, Shapes

LEMMA CatalogStarts ==
  ASSUME Init, kind # "acquisition"
  PROVE  Inv
<1>1. PICK c \in Acquired[kind] :
        /\ store = Complete(c) /\ frozen = Manifest(Complete(c))
        /\ transfer = [state |-> "complete", file |-> Projected(Complete(c)),
                       binding |-> Projected(Complete(c))]
  BY DEF Init
<1>2. kind \in {"acquisition", "worker", "manual"} /\ reads = {} /\ files = {}
  BY DEF Init
<1>3. c \in Contents
  BY <1>1, <1>2, ValidationAssumption
<1>4. /\ store.regs = {"frozen"} /\ store.chunks = {WholeChunk(c, r) : r \in Range(Requests)}
      /\ transfer.file = Projected(Complete(c)) /\ transfer.binding = Projected(Complete(c))
      /\ transfer.binding.chunks = {Sealed(WholeChunk(c, r)) : r \in Range(Requests)}
  BY <1>1, CompleteFacts
<1>5. FileShape
  BY <1>1 DEF FileShape, Complete
<1>6. \A r : WholeChunk(c, r).blob \in Contents \cup {1, 2}
  BY <1>3 DEF WholeChunk
<1>7. CacheRight
  <2>1. \A r : /\ WholeChunk(c, r).request = r /\ WholeChunk(c, r).reg = "frozen"
               /\ IsChunk(WholeChunk(c, r)) /\ Intact(WholeChunk(c, r))
    BY CompleteFacts
  <2> HIDE DEF WholeChunk, IsChunk, Intact
  <2> QED  BY <2>1, <1>4, <1>6 DEF CacheRight, OneChunkPerRequest
<1>8. SealedStaysSealed
  <2>1. ASSUME NEW r
        PROVE  /\ Sealed(WholeChunk(c, r)).request = r
               /\ Period[r] = "sealed" => Sealed(WholeChunk(c, r)).blob = None
    BY DEF WholeChunk, Sealed
  <2> QED  BY <2>1, <1>2, <1>4 DEF SealedStaysSealed
<1>9. Base
  BY <1>5, <1>7, <1>8, IdleStart, PlacedAtStart DEF Base, Shapes
<1>10. Given(c) /\ FilesRight(c)
  BY <1>1, <1>2, <1>4 DEF Given, FilesRight
<1>11. RowsPossible(c) /\ RowsHonest(c)
  <2>1. \A chain \in Chains : catalog.rows[chain] = <<>>
    BY IdleStart
  <2>2. EndDay \in Nat
    BY ValidationAssumption
  <2>3. RowsPossible(c)
    <3>1. \A S : <<>> \in Seq(S) /\ DOMAIN <<>> = {}
      OBVIOUS
    <3>2. \A chain \in Chains : \A i \in DOMAIN catalog.rows[chain] : FALSE
      BY <2>1, <3>1
    <3>3. \A chain \in Chains : catalog.rows[chain] \in Seq(Possible(c, chain))
      BY <2>1, <3>1
    <3> QED  BY <3>2, <3>3 DEF RowsPossible
  <2>4. RowsHonest(c)
    BY <2>1, <2>2 DEF RowsHonest
  <2> QED  BY <2>3, <2>4
<1>12. ProcsRight(c)
  <2>1. \A p \in Procs : proc[p] = Idle
    BY IdleStart
  <2>2. Process(kind, c, Idle) /\ Behind(catalog.rows, kind, Idle)
    BY IdleProcess
  <2> QED  BY <2>1, <2>2 DEF ProcsRight
<1>13. Kept(c)
  BY <1>10, <1>11, <1>12 DEF Kept
<1> QED  BY <1>3, <1>9, <1>13 DEF Inv

LEMMA InvStarts ==
  ASSUME Init
  PROVE  Inv
BY AcquisitionStarts, CatalogStarts

\* The kind of what is followed never changes.
LEMMA KindStays ==
  ASSUME [Next]_vars
  PROVE  kind' = kind
<1>1. CASE UNCHANGED vars
  BY <1>1 DEF vars
<1>2. CASE \E p \in Procs : AcquireOpen(p) \/ AcquireFetch(p) \/ AcquireInsert(p) \/ ProjectOpen(p) \/ ProjectCopy(p)
  BY <1>2 DEF AcquireOpen, AcquireFetch, AcquireInsert, ProjectOpen, ProjectCopy
<1>3. CASE \E p \in Procs : Worker(p)
  BY <1>3 DEF Worker, WorkerOpen, WorkerBegin, WorkerRun, WorkerPairDone, RunDay, export_population, Export, ExportOn,
              _publish_report, MarkCompleted
<1>4. CASE \E p \in Procs : ManualRun(p) \/ ManualReport(p) \/ ManualDone(p) \/ Crash(p)
  BY <1>4 DEF ManualRun, ManualReport, Export, ExportOn, ManualDone, Crash
<1>5. CASE Freeze \/ RemovePartial \/ ManualRegister \/ Submit
  BY <1>5 DEF Freeze, RemovePartial, ManualRegister, Submit
<1>6. CASE LoseStore \/ AlterBlob \/ AlterCatalog \/ EditSources \/ RestoreSources
  BY <1>6 DEF LoseStore, AlterBlob, AlterCatalog, EditSources, RestoreSources
<1> QED  BY <1>1, <1>2, <1>3, <1>4, <1>5, <1>6 DEF Next

\* A process at its work is that of a catalog, unless it acquires or projects.
LEMMA WorkIsOfCatalog ==
  ASSUME Base, NEW p \in Procs, proc[p].pc \in {"begin", "turn", "run", "export", "publish"}
  PROVE  kind # "acquisition"
BY DEF Base, Placed

LEMMA WorkerStep ==
  ASSUME NEW c \in Contents, Base, Kept(c), kind # "acquisition", NEW p \in Procs, Worker(p)
  PROVE  Base' /\ Kept(c)'
<1>1. CASE WorkerOpen(p)
  BY <1>1, WorkerOpenStep
<1>2. CASE WorkerBegin(p)
  BY <1>2, WorkerBeginStep
<1>3. CASE WorkerRun(p)
  BY <1>3, WorkerRunStep
<1>4. CASE WorkerPairDone(p)
  BY <1>4, WorkerPairDoneStep
<1>5. CASE RunDay(p)
  BY <1>5, RunDayStep
<1>6. CASE export_population(p)
  BY <1>6, ExportPopulationStep
<1>7. CASE _publish_report(p)
  BY <1>7, PublishStep
<1>8. CASE MarkCompleted(p)
  BY <1>8, MarkCompletedStep
<1> QED  BY <1>1, <1>2, <1>3, <1>4, <1>5, <1>6, <1>7, <1>8 DEF Worker

\* The steps of a catalog: those of the workers and those of the owner.
CatalogWork(p) == Worker(p) \/ ManualRun(p) \/ ManualReport(p) \/ ManualDone(p)

LEMMA WorkInv ==
  ASSUME Inv, NEW p \in Procs, CatalogWork(p), kind' = kind
  PROVE  Inv'
<1>1. Base
  BY DEF Inv
<1>2. kind # "acquisition"
  <2>1. CASE kind \in {"worker", "manual"}
    BY <2>1
  <2>2. CASE proc[p].pc \in {"begin", "turn", "run", "export", "publish"}
    BY <2>2, <1>1, WorkIsOfCatalog
  <2>3. CASE Worker(p)
    <3>1. kind = "worker" \/ proc[p].pc \in {"begin", "turn", "run", "export", "publish"}
      BY <2>3 DEF Worker, WorkerOpen, WorkerBegin, WorkerRun, WorkerPairDone, RunDay, export_population,
                  _publish_report, MarkCompleted, Is
    <3> QED  BY <3>1, <2>1, <2>2
  <2>4. CASE ManualRun(p) \/ ManualReport(p) \/ ManualDone(p)
    BY <2>1, <2>4 DEF ManualRun, ManualReport, ManualDone
  <2> QED  BY <2>3, <2>4 DEF CatalogWork
<1>3. PICK c \in Contents : Kept(c)
  BY <1>2 DEF Inv
<1>4. Base' /\ Kept(c)'
  <2>1. CASE Worker(p)
    BY <2>1, <1>1, <1>2, <1>3, WorkerStep
  <2>2. CASE ManualRun(p)
    BY <2>2, <1>1, <1>2, <1>3, ManualRunStep
  <2>3. CASE ManualReport(p)
    BY <2>3, <1>1, <1>2, <1>3, ManualReportStep
  <2>4. CASE ManualDone(p)
    BY <2>4, <1>1, <1>2, <1>3, ManualDoneStep
  <2> QED  BY <2>1, <2>2, <2>3, <2>4 DEF CatalogWork
<1> QED  BY <1>4 DEF Inv

LEMMA StutterInv ==
  ASSUME Inv, UNCHANGED vars
  PROVE  Inv'
<1>1. Base
  BY DEF Inv
<1>2. Shapes' /\ Placed' /\ SealedStaysSealed' /\ RefusalsAreExplained'
  BY <1>1 DEF vars, Base, Shapes, ProcShape, CatalogShape, FileShape, Placed, SealedStaysSealed, RefusalsAreExplained
<1>3. CacheRight'
  BY <1>1 DEF vars, Base, CacheRight, OneChunkPerRequest, Intact
<1>4. LockHeld'
  BY <1>1 DEF vars, Base, LockHeld, Absent, Is
<1>5. CopySound'
  <2>1. metadata(store)' = metadata(store) /\ Manifest(store)' = Manifest(store)
    BY DEF vars, metadata, Manifest, plan, Accepted
  <2>2. frozen' = frozen /\ proc' = proc /\ harm' = harm
    BY DEF vars
  <2> HIDE DEF metadata, Manifest
  <2> QED  BY <1>1, <2>1, <2>2 DEF Base, CopySound, Is
<1>6. ASSUME NEW c \in Contents, Kept(c)
      PROVE  Kept(c)'
  <2>1. Given(c)' /\ FilesRight(c)'
    BY <1>6 DEF vars, Kept, Given, FilesRight
  <2>2. RowsPossible(c)' /\ RowsHonest(c)' /\ ProcsRight(c)'
    BY <1>6 DEF vars, Kept, RowsPossible, RowsHonest, ProcsRight, Untouched
  <2> QED  BY <2>1, <2>2 DEF Kept
<1>7. kind' = kind
  BY DEF vars
<1> QED  BY <1>2, <1>3, <1>4, <1>5, <1>6, <1>7 DEF Inv, Base

LEMMA CatalogInv ==
  ASSUME Inv, ManualRegister \/ Submit, kind' = kind
  PROVE  Inv'
<1>1. Base /\ kind # "acquisition"
  BY DEF Inv, ManualRegister, Submit
<1>2. PICK c \in Contents : Kept(c)
  BY <1>1 DEF Inv
<1>3. CASE ManualRegister
  <2>1. Base' /\ Kept(c)'
    BY <1>1, <1>2, <1>3, ManualRegisterStep
  <2> QED  BY <2>1 DEF Inv
<1>4. CASE Submit
  <2>1. Base' /\ Kept(c)'
    BY <1>1, <1>2, <1>4, SubmitStep
  <2> QED  BY <2>1 DEF Inv
<1> QED  BY <1>3, <1>4

LEMMA InvStays ==
  ASSUME Inv, [Next]_vars
  PROVE  Inv'
<1>0. kind' = kind /\ Base
  BY KindStays DEF Inv
<1>1. CASE UNCHANGED vars
  BY <1>1, StutterInv
<1>2. ASSUME NEW p \in Procs,
             AcquireOpen(p) \/ AcquireFetch(p) \/ AcquireInsert(p) \/ ProjectOpen(p) \/ ProjectCopy(p)
      PROVE  Inv'
  <2>1. Base' /\ kind = "acquisition"
    <3>1. CASE AcquireOpen(p)
      BY <3>1, <1>0, AcquireOpenStep
    <3>2. CASE AcquireFetch(p)
      BY <3>2, <1>0, AcquireFetchStep
    <3>3. CASE AcquireInsert(p)
      BY <3>3, <1>0, AcquireInsertStep
    <3>4. CASE ProjectOpen(p)
      BY <3>4, <1>0, ProjectOpenStep
    <3>5. CASE ProjectCopy(p)
      BY <3>5, <1>0, ProjectCopyStep
    <3> QED  BY <1>2, <3>1, <3>2, <3>3, <3>4, <3>5
  <2> QED  BY <2>1, <1>0 DEF Inv
<1>3. ASSUME NEW p \in Procs, CatalogWork(p)
      PROVE  Inv'
  BY <1>3, <1>0, WorkInv
<1>4. ASSUME NEW p \in Procs, Crash(p)
      PROVE  Inv'
  BY <1>4, <1>0, CrashStep DEF Inv
<1>5. CASE ManualRegister \/ Submit
  BY <1>5, <1>0, CatalogInv
<1>6. CASE Freeze \/ RemovePartial
  BY <1>6, FreezeStep, RemovePartialStep
<1>7. CASE LoseStore \/ AlterBlob \/ AlterCatalog \/ EditSources \/ RestoreSources
  BY <1>7, LoseStoreStep, AlterBlobStep, AlterCatalogStep, EditSourcesStep, RestoreSourcesStep
<1> QED  BY <1>1, <1>2, <1>3, <1>4, <1>5, <1>6, <1>7 DEF Next, CatalogWork

LEMMA Reachable ==
  Spec => []Inv
<1>1. Init => Inv
  BY InvStarts
<1>2. Inv /\ [Next]_vars => Inv'
  BY InvStays
<1> QED  BY <1>1, <1>2, PTL DEF Spec

-----------------------------------------------------------------------------
(* What follows of every reachable state.                                     *)

LEMMA RunsAreTyped ==
  ASSUME Inv, NEW p \in Procs, proc[p].pc = "run"
  PROVE  /\ proc[p].day < proc[p].until /\ proc[p].until <= EndDay
         /\ proc[p].day > 0 => proc[p].proofs[<<proc[p].chain, proc[p].day - 1>>] = proc[p].pred
<1>1. kind # "acquisition"
  BY WorkIsOfCatalog DEF Inv
<1>2. PICK c \in Contents : Kept(c)
  BY <1>1 DEF Inv
<1> DEFINE q == proc[p]
<1>3. Running(c, q) /\ ProofsRight(c, q.proofs)
  BY <1>2 DEF Kept, ProcsRight, Process, Sound
<1> HIDE DEF q
<1>4. q.pc = "run"
  BY DEF q
<1>5. /\ q.chain \in Chains /\ q.day \in Nat /\ q.until \in Nat /\ q.day < q.until /\ q.until <= EndDay
      /\ q.pred = DigestsOf(c, q.chain)[q.day]
      /\ q.day > 0 => <<q.chain, q.day - 1>> \in DOMAIN q.proofs
  BY <1>3, <1>4 DEF Running
<1>6. ASSUME q.day > 0
      PROVE  q.proofs[<<q.chain, q.day - 1>>] = q.pred
  <2>1. EndDay \in Nat
    BY ValidationAssumption
  <2> DEFINE d == q.day - 1
  <2>2. d \in 0..(EndDay - 1) /\ d + 1 = q.day
    BY <1>5, <1>6, <2>1
  <2>3. <<q.chain, d>> \in DOMAIN q.proofs
    BY <1>5, <1>6
  <2> HIDE DEF d
  <2>4. q.proofs[<<q.chain, d>>] = DigestsOf(c, q.chain)[d + 1]
    BY <1>3, <1>5, <2>2, <2>3 DEF ProofsRight
  <2> QED  BY <1>5, <2>2, <2>4 DEF d
<1> QED  BY <1>5, <1>6 DEF q

LEMMA TypesFollow ==
  ASSUME Inv
  PROVE  TypeOK
<1>1. \A chain \in Chains : \A i, j \in DOMAIN catalog.rows[chain] :
        catalog.rows[chain][i].day = catalog.rows[chain][j].day => i = j
  <2>1. CASE kind = "acquisition"
    <3>1. \A chain \in Chains : catalog.rows[chain] = <<>>
      BY <2>1 DEF Inv, Base, Placed
    <3>2. DOMAIN <<>> = {}
      OBVIOUS
    <3>3. \A chain \in Chains : \A i \in DOMAIN catalog.rows[chain] : FALSE
      BY <3>1, <3>2
    <3> QED  BY <3>3
  <2>2. CASE kind # "acquisition"
    <3>1. PICK c \in Contents : Kept(c)
      BY <2>2 DEF Inv
    <3> QED  BY <3>1 DEF Kept, RowsPossible
  <2> QED  BY <2>1, <2>2
<1>2. Base
  BY DEF Inv
<1>3. /\ kind \in {"acquisition", "worker", "manual"} /\ sources \in {"frozen", "edited"}
      /\ transfer.state \in {"none", "partial", "complete"} /\ catalog.regs \subseteq {"frozen", "edited"}
      /\ faults \in 0..Faults
  BY <1>2 DEF Base, Placed
<1>4. /\ store.regs \subseteq {"v2", "frozen", "edited"}
      /\ \A d \in store.chunks : d.request \in Range(Requests) /\ d.blob \in Contents \cup {1, 2}
  BY <1>2 DEF Base, CacheRight
<1>5. \A p \in Procs : proc[p].pc = "run" =>
        /\ proc[p].day < proc[p].until /\ proc[p].until <= EndDay
        /\ proc[p].day > 0 => proc[p].proofs[<<proc[p].chain, proc[p].day - 1>>] = proc[p].pred
  BY RunsAreTyped
<1> QED  BY <1>1, <1>3, <1>4, <1>5 DEF TypeOK

LEMMA PublishedFollows ==
  ASSUME Inv
  PROVE  PublishedMatches
<1>1. SUFFICES ASSUME NEW f \in files, f.key[2] # "completed"
               PROVE  f.bindings = Expected[FrozenContent][f.key]
  BY DEF PublishedMatches
<1>2. kind # "acquisition"
  BY DEF Inv, Base, Placed
<1>3. PICK c \in Contents : Kept(c)
  BY <1>2 DEF Inv
<1>4. IsReport(c, f) \/ IsMark(c, f)
  BY <1>3 DEF Kept, FilesRight
<1>5. FrozenContent = c
  BY <1>3, ContentIsGiven DEF Kept, Given
<1>6. ~IsMark(c, f)
  BY <1>1 DEF IsMark
<1>7. PICK k \in Keys, suffix \in {"json", "txt"} : f = File(Report(c, k), suffix)
  BY <1>4, <1>6 DEF IsReport
<1>8. f.key = k /\ f.bindings = Expected[c][k]
  BY <1>7 DEF File, Report
<1> QED  BY <1>5, <1>8

-----------------------------------------------------------------------------
(* Marks and the reports they complete.                                       *)

BothForms(r, S) == {File(r, "json"), File(r, "txt")} \subseteq S

\* What a process counts as published is linked in both forms, and so is what
\* a mark names.
Linked ==
  /\ \A p \in Procs : \A r \in proc[p].published : BothForms(r, files)
  /\ \A f \in files : f.key[2] = "completed" => \A r \in f.reports : BothForms(r, files)

\* A process counts no further report as published.
Shrinks(p) == \E r : Become(p, r) /\ r.published \subseteq proc[p].published

LEMMA ShrinkingKeepsLinks ==
  ASSUME ProcShape, Linked, NEW p \in Procs, Shrinks(p), files' = files
  PROVE  Linked'
<1>1. PICK r : Become(p, r) /\ r.published \subseteq proc[p].published
  BY DEF Shrinks
<1>2. DOMAIN proc = Procs
  BY DEF ProcShape
<1>3. \A q \in Procs : proc'[q] = IF q = p THEN r ELSE proc[q]
  BY <1>1, <1>2 DEF Become
<1>4. \A q \in Procs : proc'[q].published \subseteq proc[q].published
  BY <1>1, <1>3
<1> QED  BY <1>4 DEF Linked

LEMMA EndShrinks ==
  ASSUME NEW p, Become(p, Idle)
  PROVE  Shrinks(p)
BY IdleIsProc DEF Shrinks

LEMMA AcquisitionShrinks ==
  ASSUME ProcShape, NEW p \in Procs,
         AcquireOpen(p) \/ AcquireFetch(p) \/ AcquireInsert(p) \/ ProjectOpen(p) \/ ProjectCopy(p)
  PROVE  Shrinks(p) /\ files' = files
<1> DEFINE q == proc[p]
<1>1. "published" \in Fields /\ {"pc", "got", "tries", "count"} \cap {"published"} = {}
  BY DEF Fields
<1>2. IsProc(q)
  BY DEF ProcShape
<1>3. /\ [Idle EXCEPT !.pc = "acquire", !.reg = plan].published = {}
      /\ [Idle EXCEPT !.pc = "project"].published = {}
  BY DEF Idle
<1>4. ASSUME NEW a
      PROVE  /\ Fetched(q, a).published = q.published /\ Retried(q).published = q.published
             /\ Inserted(q).published = q.published
  <2> HIDE DEF q
  <2>1. /\ Alike(Fetched(q, a), q, {"pc", "got"}) /\ Alike(Retried(q), q, {"tries"})
        /\ Alike(Inserted(q), q, {"pc", "tries", "count", "got"})
    BY <1>2, AcquireRecords
  <2> QED  BY <2>1, <1>1 DEF Alike
<1>5. CASE AcquireOpen(p)
  <2>1. Become(p, Idle) \/ Become(p, [Idle EXCEPT !.pc = "acquire", !.reg = plan])
    BY <1>5 DEF AcquireOpen, Refuse
  <2>2. files' = files
    BY <1>5 DEF AcquireOpen
  <2> QED  BY <2>1, <2>2, <1>3, EndShrinks DEF Shrinks
<1>6. CASE AcquireFetch(p)
  <2>1. Become(p, Idle) \/ (\E a : Become(p, Fetched(q, a))) \/ Become(p, Retried(q))
    BY <1>6 DEF AcquireFetch, Refuse, Fetched, Retried
  <2>2. files' = files
    BY <1>6 DEF AcquireFetch
  <2> QED  BY <2>1, <2>2, <1>4, EndShrinks DEF Shrinks
<1>7. CASE AcquireInsert(p)
  <2>1. Become(p, Inserted(q)) /\ files' = files
    BY <1>7 DEF AcquireInsert, Inserted
  <2> QED  BY <2>1, <1>4 DEF Shrinks
<1>8. CASE ProjectOpen(p)
  <2>1. Become(p, Idle) \/ Become(p, [Idle EXCEPT !.pc = "project"])
    BY <1>8 DEF ProjectOpen, Refuse
  <2>2. files' = files
    BY <1>8 DEF ProjectOpen
  <2> QED  BY <2>1, <2>2, <1>3, EndShrinks DEF Shrinks
<1>9. CASE ProjectCopy(p)
  BY <1>9, EndShrinks DEF ProjectCopy
<1> QED  BY <1>5, <1>6, <1>7, <1>8, <1>9

\* A window begins and a population is exported without publishing.
LEMMA WindowShrinks ==
  ASSUME ProcShape, NEW p \in Procs, NEW chain, NEW start, NEW until, RunStart(p, chain, start, until)
  PROVE  Shrinks(p)
<1> DEFINE q == proc[p]
           v == verify_chain(Data(p), q.proofs, chain, start)
           turn == IF kind = "worker" THEN NextTurn(p) ELSE q.turn
           data == IF NeedsData(chain) THEN Data(p) ELSE q.data
           r == Started(q, chain, start, until, v.pred, v.proofs, turn, data)
<1>1. IsProc(q) /\ "published" \in Fields
      /\ "published" \notin {"pc", "chain", "day", "until", "pred", "proofs", "turn", "data"}
  BY DEF ProcShape, Fields
<1>2. Become(p, Idle) \/ Become(p, r)
  <2> HIDE DEF v, NextTurn, Data, NeedsData
  <2>1. v = verify_chain(Data(p), proc[p].proofs, chain, start)
    BY DEF v
  <2> QED  BY <2>1 DEF RunStart, StartOn, Refuse, Started
<1>3. r.published = q.published
  <2> HIDE DEF q, v, turn, data
  <2>1. Alike(r, q, {"pc", "chain", "day", "until", "pred", "proofs", "turn", "data"})
    BY <1>1, RunRecords
  <2> HIDE DEF r
  <2> QED  BY <2>1, <1>1 DEF Alike
<1> HIDE DEF r
<1> QED  BY <1>2, <1>3, EndShrinks DEF Shrinks

LEMMA DayShrinks ==
  ASSUME ProcShape, NEW p \in Procs, RunDay(p)
  PROVE  Shrinks(p)
<1> DEFINE q == proc[p]
           chain == q.chain
           b == replay_checkpoint(DataFor(chain, q.data), chain, q.day, q.pred)
           proofs == With(q.proofs, [k \in {<<chain, b.day>>} |-> Digest(b)])
           n == [q EXCEPT !.day = @ + 1, !.pred = Digest(b),
                          !.proofs = With(@, [k \in {<<chain, b.day>>} |-> Digest(b)])]
           back == [Returned(p, n.until) EXCEPT !.proofs = IF kind = "worker" THEN n.proofs ELSE @]
           r == IF n.day < n.until THEN n ELSE back
<1>1. Become(p, Idle) \/ Become(p, r)
  <2>1. IF WriteOutcome(b) # "none" THEN Refuse(p, WriteOutcome(b)) /\ UNCHANGED catalog
        ELSE _write_replayed(b) /\ Become(p, r) /\ UNCHANGED refused
    BY DEF RunDay
  <2> HIDE DEF r
  <2> QED  BY <2>1 DEF Refuse
<1>2. IsProc(q) /\ "published" \in Fields
      /\ "published" \notin {"day", "pred", "proofs", "pc", "turn", "chain", "until", "cursors"}
  BY DEF ProcShape, Fields
<1>3. n = Advanced(q, q.day + 1, Digest(b), proofs)
  BY DEF Advanced
<1>4. Returned(p, n.until) = IF kind = "worker" THEN TurnedOver(q, n.until) ELSE Idle
  <2> DEFINE until == n.until
  <2> HIDE DEF until
  <2>1. Returned(p, until) = IF kind = "worker" THEN TurnedOver(q, until) ELSE Idle
    BY DEF Returned, TurnedOver
  <2> QED  BY <2>1 DEF until
<1> DEFINE until == n.until
           last == n.proofs
           o == TurnedOver(q, until)
<1>5. back = IF kind = "worker" THEN [o EXCEPT !.proofs = last] ELSE [Idle EXCEPT !.proofs = Idle.proofs]
  <2> DEFINE returned == Returned(p, n.until)
  <2>1. back = [returned EXCEPT !.proofs = IF kind = "worker" THEN last ELSE returned.proofs]
    OBVIOUS
  <2>2. returned = IF kind = "worker" THEN o ELSE Idle
    BY <1>4
  <2> HIDE DEF returned, back, o, last
  <2>3. CASE kind = "worker"
    BY <2>1, <2>2, <2>3
  <2>4. CASE kind # "worker"
    BY <2>1, <2>2, <2>4
  <2> QED  BY <2>3, <2>4
<1> HIDE DEF b, proofs, n, back, until, last, q
<1>6. n.published = q.published
  <2>1. Alike(n, q, {"day", "pred", "proofs"})
    BY <1>2, <1>3, RunRecords
  <2> QED  BY <2>1, <1>2 DEF Alike
<1>7. back.published \subseteq q.published
  <2>1. CASE kind = "worker"
    <3>1. IsProc(o) /\ Alike(o, q, {"pc", "turn", "chain", "day", "until", "pred", "cursors"})
      BY <1>2, TurnedRecord
    <3> HIDE DEF o
    <3>2. Alike([o EXCEPT !.proofs = last], o, {"proofs"})
      BY <3>1, ProofsRecord
    <3>3. back.published = o.published /\ o.published = q.published
      BY <2>1, <3>1, <3>2, <1>2, <1>5 DEF Alike
    <3> QED  BY <3>3
  <2>2. CASE kind # "worker"
    <3>1. [Idle EXCEPT !.proofs = Idle.proofs].published = {}
      BY DEF Idle
    <3> QED  BY <2>2, <3>1, <1>5
  <2> QED  BY <2>1, <2>2
<1>8. r.published \subseteq q.published
  BY <1>6, <1>7
<1> HIDE DEF r
<1> QED  BY <1>1, <1>8, EndShrinks DEF Shrinks, q

LEMMA ExportShrinks ==
  ASSUME ProcShape, NEW p \in Procs, NEW s, NEW pairs, NEW keys, Export(p, s, pairs, keys, "publish")
  PROVE  Shrinks(p)
<1> DEFINE q == proc[p]
           v == _verified_reports(p, s, pairs)
           todo == Bound(keys, v.terminal)
           data == IF NeedsData(<<s>>) THEN Data(p) ELSE q.data
           r == Exported(q, todo, v.proofs, data)
<1>1. IsProc(q) /\ "published" \in Fields /\ "published" \notin {"pc", "todo", "proofs", "data"}
  BY DEF ProcShape, Fields
<1>2. IF v.bad # "none" THEN Refuse(p, v.bad) ELSE Become(p, r) /\ UNCHANGED refused
  BY DEF Export, ExportOn, Exported
<1>3. r.published = q.published
  <2> HIDE DEF q, v, todo, data
  <2>1. Alike(r, q, {"pc", "todo", "proofs", "data"})
    BY <1>1, ExportRecord
  <2> HIDE DEF r
  <2> QED  BY <2>1, <1>1 DEF Alike
<1> HIDE DEF r, v
<1>4. Become(p, Idle) \/ Become(p, r)
  BY <1>2 DEF Refuse
<1> QED  BY <1>3, <1>4, EndShrinks DEF Shrinks

LEMMA StageShrinks ==
  ASSUME ProcShape, NEW p \in Procs, WorkerOpen(p) \/ WorkerBegin(p) \/ WorkerPairDone(p)
  PROVE  Shrinks(p)
<1> DEFINE q == proc[p]
<1>1. IsProc(q) /\ "published" \in Fields /\ "published" \notin {"pc", "turn", "cursors", "pair"}
  BY DEF ProcShape, Fields
<1>2. ASSUME NEW o, IsProc(o)
      PROVE  AtPair(o).published = o.published
  <2> DEFINE cursors == [s \in Range(Batches[o.batch]) |-> Cursor(<<s, Pairs[o.pair]>>)]
  <2>1. AtPair(o) = At(o, cursors)
    BY DEF AtPair, At
  <2> HIDE DEF cursors
  <2>2. Alike(At(o, cursors), o, {"pc", "turn", "cursors"})
    BY <1>2, AtRecord
  <2> QED  BY <2>1, <2>2, <1>1 DEF Alike
<1>3. CASE WorkerOpen(p)
  <2>1. Become(p, Idle) \/ Become(p, [Idle EXCEPT !.pc = "begin"])
    BY <1>3 DEF WorkerOpen, Refuse
  <2>2. [Idle EXCEPT !.pc = "begin"].published = {}
    BY DEF Idle
  <2> QED  BY <2>1, <2>2, EndShrinks DEF Shrinks
<1>4. CASE WorkerBegin(p)
  <2>1. Become(p, AtPair(q))
    BY <1>4 DEF WorkerBegin
  <2> QED  BY <2>1, <1>1, <1>2 DEF Shrinks
<1>5. CASE WorkerPairDone(p)
  <2> DEFINE o == [q EXCEPT !.pair = @ + 1]
             e == [q EXCEPT !.pc = "export", !.turn = 1, !.cursors = <<>>]
  <2>1. Become(p, AtPair(o)) \/ Become(p, e)
    BY <1>5 DEF WorkerPairDone
  <2>2. IsProc(o) /\ Alike(o, q, {"pair"}) /\ Alike(e, q, {"pc", "turn", "cursors"})
    BY <1>1, PairDoneRecords
  <2> HIDE DEF o, e, AtPair
  <2>3. AtPair(o).published = q.published /\ e.published = q.published
    BY <2>2, <1>1, <1>2 DEF Alike
  <2> QED  BY <2>1, <2>3 DEF Shrinks
<1> QED  BY <1>3, <1>4, <1>5

LEMMA LinksOfPublishing ==
  ASSUME Inv, Linked, NEW p \in Procs, _publish_report(p)
  PROVE  Linked'
<1> DEFINE q == proc[p]
           report == Head(q.todo)
           r == ReportDone(q, report)
           both == {File(report, "json"), File(report, "txt")}
<1>1. ProcShape /\ q.pc = "publish" /\ q.todo # <<>>
  BY DEF Inv, Base, Shapes, _publish_report, Is
<1>2. kind # "acquisition"
  BY <1>1, WorkIsOfCatalog DEF Inv
<1>3. PICK c \in Contents : Kept(c)
  BY <1>2 DEF Inv
<1>4. q.todo \in Seq({Report(c, k) : k \in Keys})
  BY <1>1, <1>3 DEF Kept, ProcsRight, Process, Publishing
<1>5. report.key[2] # "completed"
  <2>1. report \in {Report(c, k) : k \in Keys}
    <3> DEFINE R == {Report(c, k) : k \in Keys}
               todo == q.todo
    <3>1. todo \in Seq(R) /\ todo # <<>>
      BY <1>1, <1>4
    <3> HIDE DEF R, todo
    <3>2. Head(todo) \in R
      BY <3>1
    <3> QED  BY <3>2 DEF R, todo
  <2>2. PICK k \in Keys : report = Report(c, k)
    BY <2>1
  <2>3. PICK s \in Strategies : k \in Views(s)
    BY DEF Keys
  <2>4. k[2] # "completed"
    BY <2>3, ViewsFacts
  <2> QED  BY <2>2, <2>4 DEF Report
<1>6. \A f \in both : f.key[2] # "completed"
  BY <1>5 DEF File
<1>7. \/ files' = files \cup both /\ Become(p, r)
      \/ files' = files \cup {File(report, "json")} /\ Become(p, Idle)
  BY DEF _publish_report, ReportDone
<1>8. IsProc(q) /\ r.published = q.published \cup {report}
  <2>1. IsProc(q)
    BY <1>1 DEF ProcShape
  <2> HIDE DEF q
  <2> QED  BY <2>1, ReportRecord
<1> HIDE DEF q, r, report
<1>9. files \subseteq files' /\ \A f \in files' : f \in files \/ f \in both
  BY <1>7
<1>10. \A t : BothForms(t, files) => BothForms(t, files')
  BY <1>9 DEF BothForms
<1>11. \A f \in files' : f.key[2] = "completed" => \A t \in f.reports : BothForms(t, files')
  BY <1>6, <1>9, <1>10 DEF Linked
<1>12. \A o \in Procs : \A t \in proc'[o].published : BothForms(t, files')
  <2>1. \A o \in Procs : \A t \in proc[o].published : BothForms(t, files')
    BY <1>10 DEF Linked
  <2>2. CASE files' = files \cup both /\ Become(p, r)
    <3>1. BothForms(report, files')
      BY <2>2 DEF BothForms
    <3>2. \A o \in Procs : proc'[o] = IF o = p THEN r ELSE proc[o]
      BY <2>2, <1>1 DEF Become, ProcShape
    <3>3. \A t \in r.published : BothForms(t, files')
      BY <2>1, <3>1, <1>8 DEF q
    <3> QED  BY <2>1, <3>2, <3>3
  <2>3. CASE Become(p, Idle)
    <3>1. Idle.published = {}
      BY IdleIsProc
    <3> HIDE DEF Idle
    <3>2. \A o \in Procs : proc'[o] = IF o = p THEN Idle ELSE proc[o]
      BY <2>3, <1>1 DEF Become, ProcShape
    <3> QED  BY <2>1, <3>1, <3>2
  <2> QED  BY <1>7, <2>2, <2>3
<1> QED  BY <1>11, <1>12 DEF Linked

LEMMA MovedShrinks ==
  ASSUME NEW q, IsProc(q)
  PROVE  Moved(q).published = {}
<1> DEFINE b == [q EXCEPT !.published = {}]
           e == [b EXCEPT !.pc = "export", !.turn = @ + 1]
           n == [b EXCEPT !.pc = "begin", !.batch = @ + 1, !.pair = 1]
<1>1. Moved(q) = IF b.turn < Len(Batches[q.batch]) THEN e ELSE IF b.batch < Len(Batches) THEN n ELSE Idle
  BY DEF Moved
<1>2. IsProc(b) /\ b.published = {}
  BY MarkRecords
<1> HIDE DEF b
<1>3. Alike(e, b, {"pc", "turn"}) /\ Alike(n, b, {"pc", "batch", "pair"})
  BY <1>2, MarkRecords
<1> HIDE DEF e, n
<1>4. e.published = {} /\ n.published = {}
  BY <1>2, <1>3 DEF Alike, Fields
<1> QED  BY <1>1, <1>4, IdleIsProc

LEMMA LinksOfMarks ==
  ASSUME ProcShape, Linked, NEW p \in Procs, MarkCompleted(p)
  PROVE  Linked'
<1> DEFINE q == proc[p]
<1>1. IsProc(q)
  BY DEF ProcShape
<1>2. \/ Become(p, Idle) /\ files' = files
      \/ Become(p, Moved(q)) /\ files' = files \cup {Mark(p)}
  <2> DEFINE b == [q EXCEPT !.published = {}]
             move == Become(p, IF b.turn < Len(Batch(p)) THEN [b EXCEPT !.pc = "export", !.turn = @ + 1]
                               ELSE IF b.batch < Len(Batches) THEN [b EXCEPT !.pc = "begin", !.batch = @ + 1, !.pair = 1]
                               ELSE Idle)
             whole == Cardinality(proc[p].published) = Cardinality(Views(Mark(p).key[1]))
             clash == \E f \in files : f.key = Mark(p).key /\ f # Mark(p)
  <2>1. IF ~whole THEN Refuse(p, "worker_report_population_incomplete") /\ UNCHANGED files
        ELSE IF clash THEN Refuse(p, "immutable_report_conflict") /\ UNCHANGED files
        ELSE files' = files \cup {Mark(p)} /\ UNCHANGED refused /\ move
    <3> HIDE DEF Mark, Become, Refuse
    <3> QED  BY DEF MarkCompleted
  <2>2. move => Become(p, Moved(q))
    BY DEF Batch, Moved
  <2> HIDE DEF whole, clash, move
  <2> QED  BY <2>1, <2>2 DEF Refuse
<1>3. CASE Become(p, Idle) /\ files' = files
  <2>1. Shrinks(p)
    BY <1>3, EndShrinks
  <2> QED  BY <2>1, <1>3, ShrinkingKeepsLinks
<1>4. CASE Become(p, Moved(q)) /\ files' = files \cup {Mark(p)}
  <2>1. Moved(q).published = {}
    <3> HIDE DEF q
    <3> QED  BY <1>1, MovedShrinks
  <2>2. Mark(p).reports = q.published
    BY DEF Mark
  <2>3. \A o \in Procs : proc'[o].published \subseteq proc[o].published
    <3> DEFINE r == Moved(q)
    <3>1. r.published = {} /\ Become(p, r)
      BY <1>4, <2>1
    <3> HIDE DEF r
    <3>2. \A o \in Procs : proc'[o] = IF o = p THEN r ELSE proc[o]
      BY <3>1 DEF Become, ProcShape
    <3> QED  BY <3>1, <3>2
  <2> HIDE DEF Mark, q
  <2>4. \A t : BothForms(t, files) => BothForms(t, files')
    BY <1>4 DEF BothForms
  <2>5. \A t \in Mark(p).reports : BothForms(t, files')
    BY <2>2, <2>4 DEF Linked, q
  <2>6. \A f \in files' : f.key[2] = "completed" => \A t \in f.reports : BothForms(t, files')
    BY <1>4, <2>4, <2>5 DEF Linked
  <2>7. \A o \in Procs : \A t \in proc'[o].published : BothForms(t, files')
    BY <2>3, <2>4 DEF Linked
  <2> QED  BY <2>6, <2>7 DEF Linked
<1> QED  BY <1>2, <1>3, <1>4

LEMMA LinksStay ==
  ASSUME Inv, Linked, [Next]_vars
  PROVE  Linked'
<1>0. ProcShape
  BY DEF Inv, Base, Shapes
<1>1. CASE proc' = proc /\ files' = files
  BY <1>1 DEF Linked
<1>2. ASSUME NEW p \in Procs, Shrinks(p), files' = files
      PROVE  Linked'
  BY <1>0, <1>2, ShrinkingKeepsLinks
<1>3. CASE UNCHANGED vars
  BY <1>1, <1>3 DEF vars
<1>4. CASE Freeze \/ RemovePartial \/ ManualRegister \/ Submit
  <2>1. proc' = proc /\ files' = files
    BY <1>4 DEF Freeze, RemovePartial, ManualRegister, Submit
  <2> QED  BY <2>1, <1>1
<1>5. CASE LoseStore \/ AlterBlob \/ AlterCatalog \/ EditSources \/ RestoreSources
  <2>1. proc' = proc /\ files' = files
    BY <1>5 DEF LoseStore, AlterBlob, AlterCatalog, EditSources, RestoreSources
  <2> QED  BY <2>1, <1>1
<1>6. ASSUME NEW p \in Procs,
             AcquireOpen(p) \/ AcquireFetch(p) \/ AcquireInsert(p) \/ ProjectOpen(p) \/ ProjectCopy(p)
      PROVE  Linked'
  BY <1>0, <1>2, <1>6, AcquisitionShrinks
<1>7. ASSUME NEW p \in Procs, WorkerOpen(p) \/ WorkerBegin(p) \/ WorkerPairDone(p)
      PROVE  Linked'
  <2>1. files' = files
    BY <1>7 DEF WorkerOpen, WorkerBegin, WorkerPairDone
  <2> QED  BY <2>1, <1>0, <1>2, <1>7, StageShrinks
<1>8. ASSUME NEW p \in Procs, WorkerRun(p) \/ ManualRun(p)
      PROVE  Linked'
  <2>1. files' = files
    BY <1>8 DEF WorkerRun, ManualRun
  <2>2. \E chain, start, until : RunStart(p, chain, start, until)
    BY <1>8 DEF WorkerRun, ManualRun
  <2> QED  BY <2>1, <2>2, <1>0, <1>2, WindowShrinks
<1>9. ASSUME NEW p \in Procs, RunDay(p)
      PROVE  Linked'
  <2>1. files' = files
    BY <1>9 DEF RunDay
  <2> QED  BY <2>1, <1>0, <1>2, <1>9, DayShrinks
<1>10. ASSUME NEW p \in Procs, export_population(p) \/ ManualReport(p)
       PROVE  Linked'
  <2>1. \E s, pairs, keys : Export(p, s, pairs, keys, "publish")
    BY <1>10 DEF export_population, ManualReport
  <2>2. files' = files
    BY <2>1 DEF Export, ExportOn
  <2> QED  BY <2>1, <2>2, <1>0, <1>2, ExportShrinks
<1>11. ASSUME NEW p \in Procs, _publish_report(p) \/ MarkCompleted(p)
       PROVE  Linked'
  BY <1>0, <1>11, LinksOfPublishing, LinksOfMarks
<1>12. ASSUME NEW p \in Procs, ManualDone(p) \/ Crash(p)
       PROVE  Linked'
  <2>1. Become(p, Idle) /\ files' = files
    BY <1>12 DEF ManualDone, Crash
  <2> QED  BY <2>1, <1>2, EndShrinks
<1>13. ASSUME NEW p \in Procs, Worker(p)
       PROVE  Linked'
  BY <1>7, <1>8, <1>9, <1>10, <1>11, <1>13 DEF Worker
<1>14. ASSUME NEW p \in Procs, ManualRun(p) \/ ManualReport(p) \/ ManualDone(p) \/ Crash(p)
       PROVE  Linked'
  BY <1>8, <1>10, <1>12, <1>14
<1> QED  BY <1>3, <1>4, <1>5, <1>6, <1>13, <1>14 DEF Next

LEMMA MarksFollow ==
  ASSUME Inv, Linked, \A c \in Contents : \A s \in Strategies : Reconciled[c][s]
  PROVE  MarkedIsComplete
<1>1. SUFFICES ASSUME NEW m \in files, m.key[2] = "completed"
               PROVE  /\ \A k \in Views(m.key[1]) : Cardinality({f \in read_reports(m.key[1]) : f.key = k}) = 1
                      /\ \A r \in m.reports : {File(r, "json"), File(r, "txt")} \subseteq files
                      /\ Reconciled[FrozenContent][m.key[1]]
  BY DEF MarkedIsComplete
<1>2. kind # "acquisition"
  BY DEF Inv, Base, Placed
<1>3. PICK c \in Contents : Kept(c)
  BY <1>2 DEF Inv
<1>4. FrozenContent = c
  BY <1>3, ContentIsGiven DEF Kept, Given
<1>5. \A f \in files : IsReport(c, f) \/ IsMark(c, f)
  BY <1>3 DEF Kept, FilesRight
<1>6. \A f : IsReport(c, f) => f.key[2] # "completed"
  <2> SUFFICES ASSUME NEW k \in Keys, NEW suffix PROVE File(Report(c, k), suffix).key[2] # "completed"
    BY DEF IsReport
  <2>1. PICK s \in Strategies : k \in Views(s)
    BY DEF Keys
  <2>2. k[2] # "completed"
    BY <2>1, ViewsFacts
  <2> QED  BY <2>2 DEF File, Report
<1>7. PICK s \in Strategies :
        m = [key |-> <<s, "completed", NoBaseline>>, suffix |-> "json", reports |-> Reports(c, s)]
  BY <1>1, <1>5, <1>6 DEF IsMark
<1>8. m.key = <<s, "completed", NoBaseline>> /\ m.reports = Reports(c, s)
  BY <1>7
<1>9. m.key[1] = s
  BY <1>8
<1>10. \A r \in m.reports : BothForms(r, files)
  BY <1>1 DEF Linked
<1>11. ASSUME NEW k \in Views(s)
       PROVE  Cardinality({f \in read_reports(s) : f.key = k}) = 1
  <2> DEFINE one == File(Report(c, k), "json")
  <2>1. one \in files
    <3>1. Report(c, k) \in m.reports
      BY <1>8 DEF Reports
    <3> QED  BY <3>1, <1>10 DEF BothForms
  <2>2. one.key = k /\ one.suffix = "json"
    BY DEF File, Report
  <2>3. one \in read_reports(s)
    BY <2>1, <2>2 DEF read_reports
  <2>4. ASSUME NEW f \in read_reports(s), f.key = k
        PROVE  f = one
    <3>1. f \in files /\ f.suffix = "json"
      BY DEF read_reports
    <3>2. k[2] # "completed"
      BY ViewsFacts
    <3>3. ~IsMark(c, f)
      BY <2>4, <3>2 DEF IsMark
    <3>4. PICK l \in Keys, suffix \in {"json", "txt"} : f = File(Report(c, l), suffix)
      BY <1>5, <3>1, <3>3 DEF IsReport
    <3>5. f.key = l /\ f.suffix = suffix
      BY <3>4 DEF File, Report
    <3> QED  BY <2>4, <3>1, <3>4, <3>5
  <2> HIDE DEF one
  <2>5. {f \in read_reports(s) : f.key = k} = {one}
    BY <2>2, <2>3, <2>4
  <2> QED  BY <2>5, FS_Singleton
<1>12. Reconciled[c][s]
  BY <1>3
<1> QED  BY <1>4, <1>9, <1>10, <1>11, <1>12 DEF BothForms

\* A catalog that was not altered holds the first days of each chain.
LEMMA RowsAreFirstDays ==
  ASSUME Inv, Untouched, NEW chain \in Chains
  PROVE  \E c \in Contents : \E n \in 0..EndDay : catalog.rows[chain] = FirstDays(c, chain, n)
<1>0. EndDay \in Nat
  BY ValidationAssumption
<1>1. CASE kind = "acquisition"
  <2>1. PICK c \in Contents : TRUE
    BY ValidationAssumption
  <2>2. catalog.rows[chain] = <<>>
    BY <1>1 DEF Inv, Base, Placed
  <2>3. FirstDays(c, chain, 0) = <<>>
    BY DEF FirstDays
  <2> HIDE DEF FirstDays
  <2>4. 0 \in 0..EndDay
    BY <1>0
  <2> QED  BY <2>2, <2>3, <2>4
<1>2. CASE kind # "acquisition"
  <2>1. PICK c \in Contents : Kept(c)
    BY <1>2 DEF Inv
  <2> DEFINE rows == catalog.rows[chain]
             n == Len(rows)
  <2>2. rows \in Seq(Possible(c, chain))
    BY <2>1 DEF Kept, RowsPossible
  <2>3. n <= EndDay /\ \A i \in 1..n : rows[i] = TrueBody(c, chain, i - 1)
    BY <2>1 DEF Kept, RowsHonest
  <2>4. n \in Nat /\ rows = [i \in 1..n |-> rows[i]]
    <3> HIDE DEF rows
    <3> QED  BY <2>2
  <2> HIDE DEF rows, n
  <2>5. rows = [i \in 1..n |-> TrueBody(c, chain, i - 1)]
    <3> HIDE DEF TrueBody
    <3> QED  BY <2>3, <2>4
  <2>6. rows = FirstDays(c, chain, n)
    BY <2>5 DEF FirstDays, TrueBody
  <2>7. n \in 0..EndDay
    BY <1>0, <2>3, <2>4
  <2> QED  BY <2>6, <2>7 DEF rows
<1> QED  BY <1>1, <1>2

LEMMA CompletionFollows ==
  ASSUME Inv, Linked, EvidenceReconciles
  PROVE  CompletedReconciles
<1>1. \A c \in Contents : \A s \in Strategies : Reconciled[c][s]
  BY DEF EvidenceReconciles
<1>2. \A c \in Contents, chain \in Chains, n \in 0..EndDay :
        scan(FirstDays(c, chain, n)).ok /\ KeepApart(chain, FirstDays(c, chain, n))
  <2> HIDE DEF scan, KeepApart, FirstDays
  <2> QED  BY DEF EvidenceReconciles, Reconciles
<1>3. ScanAccepts /\ TradesNeverOverlap
  <2>1. ASSUME Untouched, NEW chain \in Chains
        PROVE  scan(catalog.rows[chain]).ok /\ KeepApart(chain, catalog.rows[chain])
    <3>1. PICK c \in Contents, n \in 0..EndDay : catalog.rows[chain] = FirstDays(c, chain, n)
      BY <2>1, RowsAreFirstDays
    <3> HIDE DEF scan, KeepApart, FirstDays
    <3> QED  BY <3>1, <1>2
  <2> QED  BY <2>1 DEF ScanAccepts, TradesNeverOverlap
<1>4. MarkedIsComplete
  BY <1>1, MarksFollow
<1> QED  BY <1>3, <1>4 DEF CompletedReconciles

-----------------------------------------------------------------------------
(* The theorems.                                                              *)

\* No chunk is acquired twice and no sealed candle is ever read, through
\* changes of the plan's name, deaths, losses and acquisitions repeated; the
\* catalog holds one row per chain and day and a worker's proofs are those of
\* the prefix it stands on (validation_acquisition.Store,
\* validation_worker.project_development, Catalog.__init__).
THEOREM AcquisitionIsKept == Spec => [](TypeOK /\ OneChunkPerRequest /\ SealedStaysSealed)
<1>1. Inv => TypeOK /\ OneChunkPerRequest /\ SealedStaysSealed
  BY TypesFollow DEF Inv, Base, CacheRight
<1> QED  BY <1>1, Reachable, PTL

\* A process gives up on a file only for what was done to the files: deaths,
\* resumptions and two workers at once never make the evidence unacceptable
\* to the processes that come after (validation_batch, validation_worker).
THEOREM RefusalsAreAlwaysExplained == Spec => []RefusalsAreExplained
<1>1. Inv => RefusalsAreExplained
  BY DEF Inv, Base
<1> QED  BY <1>1, Reachable, PTL

\* Given what TLC evaluates of the candles alone, that the days of a chain make
\* up its period and that forecasts carry across them, whatever is published
\* is the replay of the frozen candles from the first day: the division of the
\* work among days, windows, turns and processes, deaths and altered
\* checkpoints leave no trace (validation_reports._verified_reports).
THEOREM PublishedIsAlwaysReplayed ==
  ASSUME DaysMakeThePeriod, ForecastsAreCarried
  PROVE  Spec => []PublishedIsReplayed
<1>1. Inv => PublishedIsReplayed
  BY TypesFollow, PublishedFollows DEF PublishedIsReplayed, PublishedIsExpected, Inv, Base, CacheRight
<1> QED  BY <1>1, Reachable, PTL

\* Given what TLC evaluates of the candles alone, that the first days of each
\* chain and the reports of one pass reconcile, a mark stands only for reports
\* all of which are linked in both forms, one per key, and that the
\* reconciliation accepts, and it accepts every catalog not altered, whoever
\* wrote its rows and whenever they died (validation_worker.run_group,
\* validation_reconciliation).
THEOREM CompletionStandsUp ==
  ASSUME EvidenceReconciles
  PROVE  Spec => []CompletedReconciles
<1>1. Init => Linked
  <2>1. ASSUME Init PROVE Linked
    <3>1. files = {} /\ \A p \in Procs : proc[p] = Idle
      BY <2>1, IdleStart DEF Init
    <3> QED  BY <3>1, IdleIsProc DEF Linked
  <2> QED  BY <2>1
<1>2. Inv /\ Linked /\ [Next]_vars => Linked'
  BY LinksStay
<1>3. Inv /\ Linked => CompletedReconciles
  BY CompletionFollows
<1> QED  BY <1>1, <1>2, <1>3, Reachable, PTL DEF Spec
=============================================================================
