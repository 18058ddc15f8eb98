-------------------------- MODULE AcquisitionProofs --------------------------
(***************************************************************************)
(* Proofs about Acquisition, for any chunks and waves of the three         *)
(* datasets, any number of runners, any answers of the provider and any    *)
(* number of faults.                                                       *)
(***************************************************************************)
EXTENDS Acquisition, FiniteSetTheorems, SequenceTheorems, TLAPS

-----------------------------------------------------------------------------
(* Chunks, datasets and migrations.                                        *)

\* A chunk belongs to exactly the dataset that DatasetOf names.
LEMMA DatasetsOfChunks ==
  /\ \A c \in AllChunks : DatasetOf[c] \in Datasets /\ c \in Chunks[DatasetOf[c]]
  /\ \A d \in Datasets : \A c \in Chunks[d] : c \in AllChunks /\ DatasetOf[c] = d
<1>1. AllChunks = UNION {Chunks[d] : d \in Datasets}
  BY DEF AllChunks, Range, Chunks, Datasets
<1>2. ASSUME NEW c \in AllChunks PROVE DatasetOf[c] \in Datasets /\ c \in Chunks[DatasetOf[c]]
  <2>1. \E d \in Datasets : c \in Chunks[d]
    BY <1>1
  <2>2. DatasetOf[c] = CHOOSE d \in Datasets : c \in Chunks[d]
    BY DEF DatasetOf
  <2> QED  BY <2>1, <2>2
<1>3. ASSUME NEW d \in Datasets, NEW c \in Chunks[d] PROVE c \in AllChunks /\ DatasetOf[c] = d
  <2>1. c \in AllChunks
    BY <1>1
  <2>2. DatasetOf[c] \in Datasets /\ c \in Chunks[DatasetOf[c]]
    BY <1>2, <2>1
  <2> QED  BY <2>1, <2>2, ChunksAssumption
<1> QED  BY <1>2, <1>3

\* The chunks that the rules name, and which of them are under a contract.
LEMMA NamedChunks ==
  /\ "canary1" \in Chunks["v1"] /\ "canary2" \in Chunks["v2"]
  /\ Range(Rest1) \subseteq Chunks["v1"] /\ Range(Rest2) \subseteq Chunks["v2"]
  /\ Chunks["v1"] = {"canary1"} \cup Range(Rest1)
  /\ Chunks["v2"] = {"canary2"} \cup Range(Rest2)
  BY DEF Chunks

LEMMA ContractsOfChunks ==
  /\ ContractChunks \subseteq AllChunks
  /\ \A c \in AllChunks : c \in ContractChunks <=> Contract(c)
  /\ \A c \in Chunks["v0"] : c \in AllChunks /\ ~Contract(c) /\ DatasetOf[c] = "v0"
  /\ \A c \in Chunks["v1"] : c \in ContractChunks /\ DatasetOf[c] = "v1"
  /\ \A c \in Chunks["v2"] : c \in ContractChunks /\ DatasetOf[c] = "v2"
  /\ \A c \in ContractChunks : c \in Chunks["v1"] \/ c \in Chunks["v2"]
<1>1. \A d \in Datasets : \A c \in Chunks[d] : c \in AllChunks /\ DatasetOf[c] = d
  BY DatasetsOfChunks
<1>2. "v0" \in Datasets /\ "v1" \in Datasets /\ "v2" \in Datasets
  BY DEF Datasets
<1>3. \A c \in ContractChunks : c \in AllChunks /\ c \in Chunks[DatasetOf[c]] /\ DatasetOf[c] \in {"v1", "v2"}
  BY DatasetsOfChunks DEF ContractChunks, Contract, Contracts
<1> QED  BY <1>1, <1>2, <1>3 DEF ContractChunks, Contract, Contracts

\* The migrations are installed in order.
LEMMA GovIs ==
  ASSUME NEW i \in 1 .. Len(Migrations)
  PROVE  /\ i \in 1 .. 6
         /\ i = 1 => Migrations[i] = 20
         /\ i = 2 => Migrations[i] = 21
         /\ i = 3 => Migrations[i] = 22
         /\ i = 4 => Migrations[i] = 25
         /\ i = 5 => Migrations[i] = 26
         /\ i = 6 => Migrations[i] = 27
  BY DEF Migrations

-----------------------------------------------------------------------------
(* What the sets of attempts say, row by row.                              *)

Statuses == {"running", "succeeded", "failed"}
RowFacts ==
  /\ \A c \in AllChunks : att[c] \in Seq(Attempt) /\ Len(att[c]) \in Nat
  /\ \A c \in AllChunks : \A n \in 1 .. Len(att[c]) :
       att[c][n] \in Attempt /\ att[c][n].status \in Statuses
  /\ \A c \in AllChunks : att[c] = <<>> <=> Len(att[c]) = 0
  /\ \A s \in Statuses :
       /\ HasStatus(AllChunks, s) <=>
            \E c \in AllChunks : \E n \in 1 .. Len(att[c]) : att[c][n].status = s
       /\ HasStatus(ContractChunks, s) <=>
            \E c \in ContractChunks : \E n \in 1 .. Len(att[c]) : att[c][n].status = s
  /\ \A d \in Datasets, s \in Statuses :
       HasStatus(Chunks[d], s) <=> \E c \in Chunks[d] : \E n \in 1 .. Len(att[c]) : att[c][n].status = s
  /\ \A c \in AllChunks, s \in Statuses :
       HasStatus({c}, s) <=> \E n \in 1 .. Len(att[c]) : att[c][n].status = s
  /\ Attempts(ContractChunks) = {} <=> \A c \in ContractChunks : Len(att[c]) = 0
  /\ \A c \in AllChunks : Range(att[c]) = {att[c][n] : n \in 1 .. Len(att[c])}

\* The attempts of chunks by their numbers.
LEMMA AttemptRows == TypeOK => RowFacts
<1> SUFFICES ASSUME TypeOK PROVE RowFacts
  OBVIOUS
<1>1. \A c \in AllChunks : /\ att[c] \in Seq(Attempt) /\ Len(att[c]) \in Nat
                           /\ DOMAIN att[c] = 1 .. Len(att[c])
  BY DEF TypeOK
<1>2. \A c \in AllChunks : \A n \in 1 .. Len(att[c]) :
        att[c][n] \in Attempt /\ att[c][n].status \in Statuses
  <2> SUFFICES ASSUME NEW c \in AllChunks, NEW n \in 1 .. Len(att[c])
               PROVE  att[c][n] \in Attempt /\ att[c][n].status \in Statuses
    OBVIOUS
  <2>1. att[c][n] \in Attempt
    BY <1>1, ElementOfSeq
  <2> QED  BY <2>1 DEF Attempt, Statuses
<1>3. \A c \in AllChunks : Range(att[c]) = {att[c][n] : n \in 1 .. Len(att[c])}
  BY <1>1 DEF Range
<1>4. \A c \in AllChunks : att[c] = <<>> <=> Len(att[c]) = 0
  BY <1>1, EmptySeq
<1>5. \A c \in AllChunks : Range(att[c]) = {} <=> Len(att[c]) = 0
  <2> SUFFICES ASSUME NEW c \in AllChunks PROVE Range(att[c]) = {} <=> Len(att[c]) = 0
    OBVIOUS
  <2>1. Len(att[c]) # 0 => att[c][1] \in Range(att[c])
    <3>1. Len(att[c]) # 0 => 1 \in 1 .. Len(att[c])
      BY <1>1
    <3> QED  BY <3>1, <1>3
  <2>2. Len(att[c]) = 0 => 1 .. Len(att[c]) = {}
    BY <1>1
  <2> QED  BY <2>1, <2>2, <1>3
<1>6. Attempts(ContractChunks) = {} <=> \A c \in ContractChunks : Len(att[c]) = 0
  <2>1. Attempts(ContractChunks) = {} <=> \A c \in ContractChunks : Range(att[c]) = {}
    BY DEF Attempts
  <2> QED  BY <1>5, <2>1, ContractsOfChunks
<1>7. ASSUME NEW S, \A c \in S : c \in AllChunks, NEW s \in Statuses
      PROVE  HasStatus(S, s) <=> \E c \in S : \E n \in 1 .. Len(att[c]) : att[c][n].status = s
  <2>1. \A a : a \in Attempts(S) <=> \E c \in S : a \in Range(att[c])
    BY DEF Attempts
  <2>2. \A c \in S : \A a : a \in Range(att[c]) <=> \E n \in 1 .. Len(att[c]) : a = att[c][n]
    <3> SUFFICES ASSUME NEW c \in S, NEW a
                 PROVE  a \in Range(att[c]) <=> \E n \in 1 .. Len(att[c]) : a = att[c][n]
      OBVIOUS
    <3>1. Range(att[c]) = {att[c][n] : n \in 1 .. Len(att[c])}
      BY <1>3, <1>7
    <3> QED  BY <3>1
  <2>3. HasStatus(S, s) <=> \E a : a \in Attempts(S) /\ a.status = s
    BY DEF HasStatus
  <2>4. ASSUME NEW a \in Attempts(S), a.status = s
        PROVE  \E c \in S : \E n \in 1 .. Len(att[c]) : att[c][n].status = s
    <3>1. PICK c \in S : a \in Range(att[c])
      BY <2>1
    <3>2. PICK n \in 1 .. Len(att[c]) : a = att[c][n]
      BY <2>2, <3>1
    <3> QED  BY <2>4, <3>2
  <2>5. ASSUME NEW c \in S, NEW n \in 1 .. Len(att[c]), att[c][n].status = s
        PROVE  \E a : a \in Attempts(S) /\ a.status = s
    <3>1. att[c][n] \in Range(att[c])
      BY <2>2
    <3> QED  BY <2>1, <2>5, <3>1
  <2> QED  BY <2>3, <2>4, <2>5
<1>8. \A c \in AllChunks, s \in Statuses :
        HasStatus({c}, s) <=> \E n \in 1 .. Len(att[c]) : att[c][n].status = s
  <2> SUFFICES ASSUME NEW c \in AllChunks, NEW s \in Statuses
               PROVE  HasStatus({c}, s) <=> \E n \in 1 .. Len(att[c]) : att[c][n].status = s
    OBVIOUS
  <2>1. \A d \in {c} : d \in AllChunks
    OBVIOUS
  <2> DEFINE S == {c}
  <2>2. \A d \in S : d \in AllChunks
    BY <2>1
  <2>3. \A d : d \in S <=> d = c
    OBVIOUS
  <2> HIDE DEF S
  <2>4. HasStatus(S, s) <=> \E d \in S : \E n \in 1 .. Len(att[d]) : att[d][n].status = s
    BY <1>7, <2>2
  <2>5. HasStatus(S, s) <=> \E n \in 1 .. Len(att[c]) : att[c][n].status = s
    BY <2>3, <2>4
  <2> QED  BY <2>5 DEF S
<1>9. \A d \in Datasets, s \in Statuses :
        HasStatus(Chunks[d], s) <=> \E c \in Chunks[d] : \E n \in 1 .. Len(att[c]) : att[c][n].status = s
  BY <1>7, DatasetsOfChunks
<1>10. \A s \in Statuses :
         /\ HasStatus(AllChunks, s) <=>
              \E c \in AllChunks : \E n \in 1 .. Len(att[c]) : att[c][n].status = s
         /\ HasStatus(ContractChunks, s) <=>
              \E c \in ContractChunks : \E n \in 1 .. Len(att[c]) : att[c][n].status = s
  <2>1. /\ \A c \in AllChunks : c \in AllChunks
        /\ \A c \in ContractChunks : c \in AllChunks
    BY ContractsOfChunks
  <2> QED  BY <1>7, <2>1
<1> QED  BY <1>1, <1>2, <1>3, <1>4, <1>6, <1>8, <1>9, <1>10 DEF RowFacts

LEMMA AttemptRowsNext == TypeOK' => RowFacts'
  BY AttemptRows, PTL

\* A new attempt, and an outcome of one.
LEMMA Appended ==
  ASSUME att \in [AllChunks -> Seq(Attempt)], NEW c \in AllChunks, NEW row \in Attempt,
         att' = [att EXCEPT ![c] = Append(@, row)]
  PROVE  /\ att' \in [AllChunks -> Seq(Attempt)]
         /\ Len(att'[c]) = Len(att[c]) + 1
         /\ att'[c][Len(att[c]) + 1] = row
         /\ \A n \in 1 .. Len(att[c]) : att'[c][n] = att[c][n]
         /\ \A d \in AllChunks : d # c => att'[d] = att[d]
<1>1. att[c] \in Seq(Attempt)
  OBVIOUS
<1>2. att'[c] = Append(att[c], row)
  OBVIOUS
<1>3. /\ Append(att[c], row) \in Seq(Attempt)
      /\ Len(Append(att[c], row)) = Len(att[c]) + 1
      /\ Append(att[c], row)[Len(att[c]) + 1] = row
      /\ \A n \in 1 .. Len(att[c]) : Append(att[c], row)[n] = att[c][n]
  BY <1>1, AppendProperties
<1> QED  BY <1>2, <1>3

Events == SUBSET (RunEvents \cup AttemptEvents)
LEMMA Settled ==
  ASSUME att \in [AllChunks -> Seq(Attempt)], NEW c \in AllChunks,
         NEW n \in 1 .. Len(att[c]), NEW st \in Statuses, NEW cd \in Codes, NEW ev \in Events,
         Terminal(c, n, st, cd, ev)
  PROVE  /\ att' \in [AllChunks -> Seq(Attempt)]
         /\ Len(att'[c]) = Len(att[c])
         /\ att'[c][n].status = st /\ att'[c][n].events = ev
         /\ \A m \in 1 .. Len(att[c]) : m # n => att'[c][m] = att[c][m]
         /\ \A d \in AllChunks : d # c => att'[d] = att[d]
<1> DEFINE row == [status |-> st, code |-> cd, events |-> ev]
<1>1. att[c] \in Seq(Attempt)
  OBVIOUS
<1>2. row \in Attempt /\ row.status = st /\ row.events = ev
  BY DEF Attempt, Statuses, Events
<1> HIDE DEF row
<1>3. att' = [att EXCEPT ![c] = [@ EXCEPT ![n] = row]]
  BY DEF Terminal, row
<1>4. att'[c] = [att[c] EXCEPT ![n] = row]
  BY <1>3
<1>5. /\ [att[c] EXCEPT ![n] = row] \in Seq(Attempt)
      /\ Len([att[c] EXCEPT ![n] = row]) = Len(att[c])
      /\ [att[c] EXCEPT ![n] = row][n] = row
      /\ \A m \in 1 .. Len(att[c]) : m # n => [att[c] EXCEPT ![n] = row][m] = att[c][m]
  BY <1>1, <1>2, ExceptSeq
<1>6. /\ att'[c] \in Seq(Attempt) /\ Len(att'[c]) = Len(att[c])
      /\ att'[c][n] = row
      /\ \A m \in 1 .. Len(att[c]) : m # n => att'[c][m] = att[c][m]
  BY <1>4, <1>5
<1>7. /\ att' \in [AllChunks -> Seq(Attempt)]
      /\ \A d \in AllChunks : d # c => att'[d] = att[d]
  BY <1>3, <1>4, <1>6
<1> QED  BY <1>2, <1>6, <1>7

-----------------------------------------------------------------------------
(* Runners.                                                                *)

Working == {"fetching", "fetched"}
Resting == {"idle", "wave"}

\* A runner that has an attempt works on an attempt that exists.
AtWork(x, rows) == x.chunk \in AllChunks /\ x.attempt \in 1 .. Len(rows[x.chunk])
RunnersAtWork == \A r \in Runners : runner[r].pc \in Working => AtWork(runner[r], att)

\* The lock on a chunk keeps every other runner away from what one has checked,
\* until the attempt is inserted.
CheckedAreCurrent ==
  \A r \in Runners : runner[r].pc = "checked" =>
    /\ runner[r].chunk \in AllChunks
    /\ runner[r].attempt = Len(att[runner[r].chunk]) + 1
    /\ \A q \in Runners : q # r /\ runner[q].pc = "checked" => runner[q].chunk # runner[r].chunk

TypeInv == TypeOK /\ RunnersAtWork /\ CheckedAreCurrent

\* The records of runners.
LEMMA RunnerRecords ==
  /\ Idle \in Runner /\ Idle.pc = "idle"
  /\ \A todo \in SUBSET AllChunks : InWave(todo) \in Runner /\ InWave(todo).pc = "wave"
  /\ \A x \in Runner :
       /\ Fetching(x) \in Runner /\ Fetching(x).pc = "fetching"
       /\ Fetching(x).chunk = x.chunk /\ Fetching(x).attempt = x.attempt
  /\ \A x \in Runner, a \in Exceptions \cup Responses :
       /\ Fetched(x, a) \in Runner /\ Fetched(x, a).pc = "fetched"
       /\ Fetched(x, a).chunk = x.chunk /\ Fetched(x, a).attempt = x.attempt
  /\ \A c \in AllChunks, n \in Nat, todo \in SUBSET AllChunks :
       [pc |-> "checked", chunk |-> c, attempt |-> n, answer |-> "", todo |-> todo] \in Runner
<1>1. Idle \in Runner /\ Idle.pc = "idle"
  BY DEF Idle, Runner
<1>2. ASSUME NEW todo \in SUBSET AllChunks PROVE InWave(todo) \in Runner /\ InWave(todo).pc = "wave"
  BY DEF InWave, Runner
<1>3. ASSUME NEW x \in Runner
      PROVE  /\ Fetching(x) \in Runner /\ Fetching(x).pc = "fetching"
             /\ Fetching(x).chunk = x.chunk /\ Fetching(x).attempt = x.attempt
  <2>1. x.chunk \in AllChunks \cup {""} /\ x.attempt \in Nat /\ x.todo \in SUBSET AllChunks
    BY DEF Runner
  <2> QED  BY <2>1 DEF Fetching, Runner
<1>4. ASSUME NEW x \in Runner, NEW a \in Exceptions \cup Responses
      PROVE  /\ Fetched(x, a) \in Runner /\ Fetched(x, a).pc = "fetched"
             /\ Fetched(x, a).chunk = x.chunk /\ Fetched(x, a).attempt = x.attempt
  <2>1. x.chunk \in AllChunks \cup {""} /\ x.attempt \in Nat /\ x.todo \in SUBSET AllChunks
    BY DEF Runner
  <2> QED  BY <2>1 DEF Fetched, Runner
<1>5. ASSUME NEW c \in AllChunks, NEW n \in Nat, NEW todo \in SUBSET AllChunks
      PROVE  [pc |-> "checked", chunk |-> c, attempt |-> n, answer |-> "", todo |-> todo] \in Runner
  BY DEF Runner
<1> QED  BY <1>1, <1>2, <1>3, <1>4, <1>5

LEMMA SetRunner ==
  ASSUME runner \in [Runners -> Runner], NEW r \in Runners, NEW x \in Runner, Set(r, x)
  PROVE  /\ runner' \in [Runners -> Runner]
         /\ runner'[r] = x
         /\ \A q \in Runners : q # r => runner'[q] = runner[q]
  BY DEF Set

\* A wave consists of chunks.
LEMMA WavesOfChunks == \A todo \in Wave1 \cup Wave2 : todo \in SUBSET AllChunks
<1>1. ASSUME NEW s, s \in Seq(Range(s)), Range(s) \subseteq AllChunks, NEW todo \in Firsts(s)
      PROVE  todo \in SUBSET AllChunks
  <2>1. PICK n \in 1 .. Len(s) : todo = Pending(SubSeq(s, 1, n))
    BY <1>1 DEF Firsts
  <2>2. Len(s) \in Nat /\ \A i \in 1 .. Len(s) : s[i] \in Range(s)
    BY <1>1, ElementOfSeq
  <2>3. /\ n \in Nat /\ n <= Len(s) /\ 1 \in Nat
        /\ 1 .. n \subseteq 1 .. Len(s)
    BY <2>2
  <2>4. SubSeq(s, 1, n) = [i \in 1 .. n |-> s[i]]
    <3>1. SubSeq(s, 1, n) = [i \in 1 .. n - 1 + 1 |-> s[i + 1 - 1]]
      BY <1>1, <2>2, <2>3
    <3> QED  BY <2>3, <3>1
  <2>5. Range(SubSeq(s, 1, n)) \subseteq Range(s)
    BY <2>2, <2>3, <2>4 DEF Range
  <2> QED  BY <1>1, <2>1, <2>5 DEF Pending
<1>2. /\ Rest1 \in Seq(Range(Rest1)) /\ Range(Rest1) \subseteq AllChunks
      /\ Rest2 \in Seq(Range(Rest2)) /\ Range(Rest2) \subseteq AllChunks
  BY ChunksAssumption, NamedChunks, DatasetsOfChunks DEF Datasets
<1>3. Wave1 \subseteq Firsts(Rest1) /\ Wave2 \subseteq Firsts(Rest2)
  BY DEF Wave1, Wave2
<1> QED  BY <1>1, <1>2, <1>3

\* Runners stay what they were, rest, or work on attempts that exist.
LEMMA WorkersKeep ==
  ASSUME TypeInv, TypeOK',
         \A c \in AllChunks : Len(att'[c]) >= Len(att[c]),
         \A q \in Runners : \/ runner'[q] = runner[q]
                            \/ runner'[q].pc \in Resting
                            \/ runner'[q].pc \in Working /\ AtWork(runner'[q], att'),
         \A q \in Runners : runner'[q].pc = "checked" =>
           Len(att'[runner'[q].chunk]) = Len(att[runner'[q].chunk])
  PROVE  TypeInv'
<1>1. \A c \in AllChunks : Len(att[c]) \in Nat /\ Len(att'[c]) \in Nat
  BY AttemptRows, AttemptRowsNext DEF RowFacts, TypeInv
<1>2. RunnersAtWork'
  <2> SUFFICES ASSUME NEW r \in Runners, runner'[r].pc \in Working
               PROVE  AtWork(runner'[r], att')
    BY DEF RunnersAtWork
  <2>1. CASE runner'[r] = runner[r]
    <3>1. runner[r].chunk \in AllChunks /\ runner[r].attempt \in 1 .. Len(att[runner[r].chunk])
      BY <2>1 DEF TypeInv, RunnersAtWork, AtWork
    <3>2. runner[r].attempt \in 1 .. Len(att'[runner[r].chunk])
      BY <3>1, <1>1
    <3> QED  BY <2>1, <3>1, <3>2 DEF AtWork
  <2> QED  BY <2>1 DEF Working, Resting
<1>3. CheckedAreCurrent'
  <2>1. \A q \in Runners : runner'[q].pc = "checked" => runner'[q] = runner[q]
    BY DEF Working, Resting
  <2> QED  BY <2>1 DEF TypeInv, CheckedAreCurrent
<1> QED  BY <1>2, <1>3 DEF TypeInv

-----------------------------------------------------------------------------
(* The kinds of steps that change attempts and candles.                    *)

Others == UNCHANGED <<installed, planned, registered>>

\* An attempt is inserted.
Inserts(r) ==
  LET c == runner[r].chunk IN
  /\ r \in Runners /\ runner[r].pc = "checked"
  /\ AttemptAdmitted(c, runner[r].attempt)
  /\ att' = [att EXCEPT ![c] = Append(@, [status |-> "running", code |-> "", events |-> {}])]
  /\ UNCHANGED candles /\ Others

\* Running attempt n of chunk c fails, or succeeds with candles that were
\* expected.
StoredContent(c, k) == k = "exact" \/ (k = "drift" /\ ~Contract(c))
Fails(c, n) ==
  /\ c \in AllChunks /\ n \in 1 .. Len(att[c]) /\ att[c][n].status = "running"
  /\ \E code \in Codes : \E events \in {FailureEvents(c), StaleEvents(c)} :
       Terminal(c, n, "failed", code, events)
  /\ UNCHANGED candles /\ Others
Succeeds(c, n) ==
  /\ c \in AllChunks /\ n \in 1 .. Len(att[c]) /\ att[c][n].status = "running"
  /\ Terminal(c, n, "succeeded", "", SuccessEvents(c))
  /\ \E k \in Responses : /\ StoredContent(c, k)
                          /\ candles' = [candles EXCEPT ![c] = [attempt |-> n, content |-> k]]
  /\ Others

\* What these steps do to the rows.
LEMMA InsertsRows ==
  ASSUME TypeInv, NEW r, Inserts(r)
  PROVE  LET c == runner[r].chunk IN
         /\ c \in AllChunks
         /\ runner[r].attempt = Len(att[c]) + 1
         /\ att' \in [AllChunks -> Seq(Attempt)]
         /\ Len(att'[c]) = Len(att[c]) + 1
         /\ att'[c][Len(att[c]) + 1].status = "running"
         /\ att'[c][Len(att[c]) + 1].events = {}
         /\ \A n \in 1 .. Len(att[c]) : att'[c][n] = att[c][n]
         /\ \A d \in AllChunks : d # c => att'[d] = att[d]
<1> DEFINE row == [status |-> "running", code |-> "", events |-> {}]
<1>1. /\ runner[r].chunk \in AllChunks
      /\ runner[r].attempt = Len(att[runner[r].chunk]) + 1
  BY DEF TypeInv, CheckedAreCurrent, Inserts
<1>2. att \in [AllChunks -> Seq(Attempt)]
  BY DEF TypeInv, TypeOK
<1>3. row \in Attempt /\ row.status = "running" /\ row.events = {}
  BY DEF Attempt, Codes
<1>4. att' = [att EXCEPT ![runner[r].chunk] = Append(@, row)]
  BY DEF Inserts
<1> HIDE DEF row
<1>5. /\ att' \in [AllChunks -> Seq(Attempt)]
      /\ Len(att'[runner[r].chunk]) = Len(att[runner[r].chunk]) + 1
      /\ att'[runner[r].chunk][Len(att[runner[r].chunk]) + 1] = row
      /\ \A n \in 1 .. Len(att[runner[r].chunk]) : att'[runner[r].chunk][n] = att[runner[r].chunk][n]
      /\ \A d \in AllChunks : d # runner[r].chunk => att'[d] = att[d]
  BY <1>1, <1>2, <1>3, <1>4, Appended
<1> QED  BY <1>1, <1>3, <1>5

\* The events that are recorded.
LEMMA EventsRecorded ==
  \A c \in AllChunks :
    /\ SuccessEvents(c) \in Events /\ FailureEvents(c) \in Events /\ StaleEvents(c) \in Events
  BY DEF SuccessEvents, FailureEvents, StaleEvents, Succeeded, Events, RunEvents, AttemptEvents

LEMMA FailsRows ==
  ASSUME TypeInv, NEW c, NEW n, Fails(c, n)
  PROVE  /\ att' \in [AllChunks -> Seq(Attempt)]
         /\ Len(att'[c]) = Len(att[c])
         /\ att'[c][n].status = "failed"
         /\ att'[c][n].events \in {FailureEvents(c), StaleEvents(c)}
         /\ \A m \in 1 .. Len(att[c]) : m # n => att'[c][m] = att[c][m]
         /\ \A d \in AllChunks : d # c => att'[d] = att[d]
<1>1. c \in AllChunks /\ n \in 1 .. Len(att[c])
  BY DEF Fails
<1>2. PICK code \in Codes, events \in {FailureEvents(c), StaleEvents(c)} :
        Terminal(c, n, "failed", code, events)
  BY DEF Fails
<1>3. att \in [AllChunks -> Seq(Attempt)] /\ "failed" \in Statuses /\ events \in Events
  BY <1>1, EventsRecorded DEF TypeInv, TypeOK, Statuses
<1>4. /\ att' \in [AllChunks -> Seq(Attempt)]
      /\ Len(att'[c]) = Len(att[c])
      /\ att'[c][n].status = "failed" /\ att'[c][n].events = events
      /\ \A m \in 1 .. Len(att[c]) : m # n => att'[c][m] = att[c][m]
      /\ \A d \in AllChunks : d # c => att'[d] = att[d]
  BY <1>1, <1>2, <1>3, Settled
<1> QED  BY <1>4

LEMMA SucceedsRows ==
  ASSUME TypeInv, NEW c, NEW n, Succeeds(c, n)
  PROVE  /\ att' \in [AllChunks -> Seq(Attempt)]
         /\ Len(att'[c]) = Len(att[c])
         /\ att'[c][n].status = "succeeded"
         /\ att'[c][n].events = SuccessEvents(c)
         /\ \A m \in 1 .. Len(att[c]) : m # n => att'[c][m] = att[c][m]
         /\ \A d \in AllChunks : d # c => att'[d] = att[d]
         /\ candles' \in [AllChunks -> Candles]
         /\ candles'[c].attempt = n /\ StoredContent(c, candles'[c].content)
         /\ \A d \in AllChunks : d # c => candles'[d] = candles[d]
<1>1. c \in AllChunks /\ n \in 1 .. Len(att[c])
  BY DEF Succeeds
<1>2. Terminal(c, n, "succeeded", "", SuccessEvents(c))
  BY DEF Succeeds
<1>3. /\ att \in [AllChunks -> Seq(Attempt)] /\ candles \in [AllChunks -> Candles]
      /\ "succeeded" \in Statuses /\ "" \in Codes /\ SuccessEvents(c) \in Events
  BY <1>1, EventsRecorded DEF TypeInv, TypeOK, Statuses, Codes
<1>4. PICK k \in Responses : /\ StoredContent(c, k)
                             /\ candles' = [candles EXCEPT ![c] = [attempt |-> n, content |-> k]]
  BY DEF Succeeds
<1>5. Len(att[c]) \in Nat
  BY <1>1, AttemptRows DEF RowFacts, TypeInv
<1>6. [attempt |-> n, content |-> k] \in Candles
  <2>1. n \in Nat
    BY <1>1, <1>5
  <2>2. k \in Responses \cup {""}
    OBVIOUS
  <2> QED  BY <2>1, <2>2 DEF Candles
<1>7. /\ candles' \in [AllChunks -> Candles]
      /\ candles'[c] = [attempt |-> n, content |-> k]
      /\ \A d \in AllChunks : d # c => candles'[d] = candles[d]
  BY <1>1, <1>3, <1>4, <1>6
<1>8. candles'[c].attempt = n /\ StoredContent(c, candles'[c].content)
  <2>1. candles'[c].attempt = n /\ candles'[c].content = k
    BY <1>7
  <2> QED  BY <1>4, <2>1
<1>9. PICK st \in Statuses, cd \in Codes, ev \in Events :
        /\ st = "succeeded" /\ ev = SuccessEvents(c)
        /\ Terminal(c, n, st, cd, ev)
  BY <1>2, <1>3
<1>10. /\ att' \in [AllChunks -> Seq(Attempt)]
       /\ Len(att'[c]) = Len(att[c])
       /\ att'[c][n].status = st /\ att'[c][n].events = ev
       /\ \A m \in 1 .. Len(att[c]) : m # n => att'[c][m] = att[c][m]
       /\ \A d \in AllChunks : d # c => att'[d] = att[d]
  <2>1. att \in [AllChunks -> Seq(Attempt)] /\ Terminal(c, n, st, cd, ev)
    BY <1>3, <1>9
  <2> QED  BY <1>1, <2>1, Settled
<1> QED  BY <1>7, <1>8, <1>9, <1>10

\* A runner that has passed the checks since: for a chunk of its own, with the
\* service's consent, and no attempt was inserted.
CheckedFrame ==
  \A q \in Runners : runner'[q].pc = "checked" =>
    /\ Len(att'[runner'[q].chunk]) = Len(att[runner'[q].chunk])
    /\ runner'[q] = runner[q] \/ ServiceAdmits(runner'[q].chunk)

RowsStay == UNCHANGED <<att, candles>>
Kinds ==
  \/ RowsStay /\ Others
  \/ RowsStay /\ (PlanLegacy \/ PlanReplacement \/ PlanSuccessor)
  \/ RowsStay /\ \E d \in Datasets : Register(d)
  \/ RowsStay /\ (Migrate \/ Reverse)
  \/ \E r \in Runners : Inserts(r)
  \/ \E c \in AllChunks : \E n \in 1 .. Len(att[c]) : Fails(c, n) \/ Succeeds(c, n)

Orderly == TypeInv' /\ CheckedFrame /\ Kinds

\* Steps that leave the rows and the runners alone.
LEMMA PlanSteps ==
  ASSUME TypeInv, TypeOK', UNCHANGED <<att, candles, runner>>, Kinds
  PROVE  Orderly
<1>1. CheckedFrame
  BY DEF CheckedFrame
<1>2. \A c \in AllChunks : Len(att[c]) \in Nat
  BY AttemptRows DEF RowFacts, TypeInv
<1>3. \A c \in AllChunks : Len(att'[c]) >= Len(att[c])
  BY <1>2
<1>4. TypeInv'
  BY <1>3, WorkersKeep
<1> QED  BY <1>1, <1>4 DEF Orderly

\* A runner rests and the rows stay what they are.
LEMMA RestSteps ==
  ASSUME TypeInv, NEW r \in Runners, NEW x \in Runner, x.pc \in Resting, Set(r, x),
         RowsStay, Others, faults' \in 0 .. MaxFaults
  PROVE  Orderly
<1>1. x.pc # "checked"
  BY DEF Resting
<1>2. /\ runner' \in [Runners -> Runner] /\ runner'[r] = x
      /\ \A q \in Runners : q # r => runner'[q] = runner[q]
  BY SetRunner DEF TypeInv, TypeOK
<1>3. TypeOK'
  BY <1>2 DEF TypeInv, TypeOK, RowsStay, Others
<1>4. \A q \in Runners : runner'[q] = runner[q] \/ runner'[q].pc \in Resting
  BY <1>2
<1>5. \A q \in Runners : runner'[q].pc = "checked" => runner'[q] = runner[q]
  BY <1>1, <1>2
<1>6. CheckedFrame
  BY <1>5 DEF CheckedFrame, RowsStay
<1>7. \A c \in AllChunks : Len(att[c]) \in Nat
  BY AttemptRows DEF RowFacts, TypeInv
<1>8. /\ \A c \in AllChunks : Len(att'[c]) >= Len(att[c])
      /\ \A q \in Runners : runner'[q].pc = "checked" =>
           Len(att'[runner'[q].chunk]) = Len(att[runner'[q].chunk])
  BY <1>7 DEF RowsStay
<1>9. TypeInv'
  BY <1>3, <1>4, <1>8, WorkersKeep
<1>10. Kinds
  BY DEF Kinds
<1> QED  BY <1>6, <1>9, <1>10 DEF Orderly

\* A runner records an outcome, or an operator resolves an attempt as stale.
LEMMA OutcomeSteps ==
  ASSUME TypeInv, NEW c \in AllChunks, NEW n \in 1 .. Len(att[c]), Fails(c, n) \/ Succeeds(c, n),
         runner' \in [Runners -> Runner], faults' \in 0 .. MaxFaults,
         \A q \in Runners : runner'[q] = runner[q] \/ runner'[q].pc \in Resting
  PROVE  Orderly
<1>1. /\ att' \in [AllChunks -> Seq(Attempt)] /\ candles' \in [AllChunks -> Candles]
      /\ Len(att'[c]) = Len(att[c])
      /\ \A d \in AllChunks : d # c => att'[d] = att[d]
  <2>1. CASE Fails(c, n)
    <3>1. candles' = candles
      BY <2>1 DEF Fails
    <3> QED  BY <2>1, <3>1, FailsRows DEF TypeInv, TypeOK
  <2>2. CASE Succeeds(c, n)
    BY <2>2, SucceedsRows
  <2> QED  BY <2>1, <2>2
<1>2. Others
  BY DEF Fails, Succeeds
<1>3. TypeOK'
  BY <1>1, <1>2 DEF TypeInv, TypeOK, Others
<1>4. \A d \in AllChunks : Len(att[d]) \in Nat /\ Len(att'[d]) = Len(att[d])
  BY <1>1, AttemptRows DEF RowFacts, TypeInv
<1>5. \A q \in Runners : runner'[q].pc = "checked" => runner'[q] = runner[q]
  BY DEF Resting
<1>6. \A q \in Runners : runner'[q].pc = "checked" => runner'[q].chunk \in AllChunks
  BY <1>5 DEF TypeInv, CheckedAreCurrent
<1>7. CheckedFrame
  BY <1>4, <1>5, <1>6 DEF CheckedFrame
<1>8. /\ \A d \in AllChunks : Len(att'[d]) >= Len(att[d])
      /\ \A q \in Runners : runner'[q].pc = "checked" =>
           Len(att'[runner'[q].chunk]) = Len(att[runner'[q].chunk])
  BY <1>4, <1>6
<1>9. TypeInv'
  BY <1>3, <1>8, WorkersKeep
<1>10. Kinds
  BY DEF Kinds
<1> QED  BY <1>7, <1>9, <1>10 DEF Orderly

\* begin_historical_attempt passes its checks.
LEMMA CheckSteps ==
  ASSUME TypeInv, NEW r \in Runners, NEW c \in AllChunks, NEW todo \in SUBSET AllChunks,
         runner[r].pc \in Resting, Begin(r, c, todo)
  PROVE  Orderly
<1> DEFINE x == [pc |-> "checked", chunk |-> c, attempt |-> Len(att[c]) + 1,
                 answer |-> "", todo |-> todo]
<1>1. /\ \A d \in AllChunks : Len(att[d]) \in Nat
      /\ Len(att[c]) + 1 \in Nat
  <2>1. \A d \in AllChunks : Len(att[d]) \in Nat
    BY AttemptRows DEF RowFacts, TypeInv
  <2> QED  BY <2>1
<1>2. /\ x \in Runner /\ x.pc = "checked" /\ x.chunk = c /\ x.attempt = Len(att[c]) + 1
  BY <1>1, RunnerRecords
<1>3. Set(r, x)
  BY DEF Begin
<1>4. RowsStay /\ Others /\ faults' = faults /\ ServiceAdmits(c) /\ ~Locked(c)
  BY DEF Begin, RowsStay, Others
<1> HIDE DEF x
<1>5. /\ runner' \in [Runners -> Runner] /\ runner'[r] = x
      /\ \A q \in Runners : q # r => runner'[q] = runner[q]
  BY <1>2, <1>3, SetRunner DEF TypeInv, TypeOK
<1>6. TypeOK'
  BY <1>4, <1>5 DEF TypeInv, TypeOK, RowsStay, Others
<1>7. CheckedFrame
  <2>1. runner'[r].chunk = c
    BY <1>2, <1>5
  <2> QED  BY <1>4, <1>5, <2>1 DEF CheckedFrame, RowsStay
<1>8. RunnersAtWork'
  <2> SUFFICES ASSUME NEW q \in Runners, runner'[q].pc \in Working
               PROVE  AtWork(runner'[q], att')
    BY DEF RunnersAtWork
  <2>1. q # r
    BY <1>2, <1>5 DEF Working
  <2>2. runner'[q] = runner[q]
    BY <2>1, <1>5
  <2> QED  BY <1>4, <2>2 DEF TypeInv, RunnersAtWork, AtWork, RowsStay
<1>9. CheckedAreCurrent'
  <2>1. \A q \in Runners : runner[q].pc = "checked" => runner[q].chunk # c
    BY <1>4 DEF Locked
  <2>2. \A q \in Runners : q # r /\ runner'[q].pc = "checked" =>
          runner[q].pc = "checked" /\ runner'[q] = runner[q] /\ runner[q].chunk # c
    BY <1>5, <2>1
  <2>3. runner'[r].chunk = c /\ runner'[r].attempt = Len(att[c]) + 1
    BY <1>2, <1>5
  <2>4. att' = att
    BY <1>4 DEF RowsStay
  <2> SUFFICES ASSUME NEW q \in Runners, runner'[q].pc = "checked"
               PROVE  /\ runner'[q].chunk \in AllChunks
                      /\ runner'[q].attempt = Len(att'[runner'[q].chunk]) + 1
                      /\ \A s \in Runners : s # q /\ runner'[s].pc = "checked" =>
                           runner'[s].chunk # runner'[q].chunk
    BY DEF CheckedAreCurrent
  <2>5. CASE q = r
    BY <2>2, <2>3, <2>4, <2>5
  <2>6. CASE q # r
    <3>1. /\ runner[q].chunk \in AllChunks
          /\ runner[q].attempt = Len(att[runner[q].chunk]) + 1
          /\ \A s \in Runners : s # q /\ runner[s].pc = "checked" => runner[s].chunk # runner[q].chunk
      BY <2>2, <2>6 DEF TypeInv, CheckedAreCurrent
    <3>2. runner'[q] = runner[q] /\ runner[q].chunk # c
      BY <2>2, <2>6
    <3>3. \A s \in Runners : s # q /\ runner'[s].pc = "checked" => runner'[s].chunk # runner[q].chunk
      BY <2>2, <2>3, <3>1, <3>2
    <3> QED  BY <2>4, <3>1, <3>2, <3>3
  <2> QED  BY <2>5, <2>6
<1>10. Kinds
  BY <1>4 DEF Kinds
<1> QED  BY <1>6, <1>7, <1>8, <1>9, <1>10 DEF Orderly, TypeInv

\* The attempt is inserted by the one runner that has checked its chunk.
LEMMA InsertSteps ==
  ASSUME TypeInv, NEW r \in Runners, Inserts(r), Set(r, Fetching(runner[r])), faults' = faults
  PROVE  Orderly
<1> DEFINE c == runner[r].chunk
           x == Fetching(runner[r])
<1>1. /\ c \in AllChunks
      /\ runner[r].attempt = Len(att[c]) + 1
      /\ att' \in [AllChunks -> Seq(Attempt)]
      /\ Len(att'[c]) = Len(att[c]) + 1
      /\ \A d \in AllChunks : d # c => att'[d] = att[d]
  BY InsertsRows
<1>2. runner \in [Runners -> Runner]
  BY DEF TypeInv, TypeOK
<1>3. x \in Runner /\ x.pc = "fetching" /\ x.chunk = c /\ x.attempt = runner[r].attempt
  BY <1>2, RunnerRecords
<1>4. Set(r, x)
  OBVIOUS
<1> HIDE DEF x
<1>5. /\ runner' \in [Runners -> Runner] /\ runner'[r] = x
      /\ \A q \in Runners : q # r => runner'[q] = runner[q]
  BY <1>2, <1>3, <1>4, SetRunner
<1>6. Others /\ candles' = candles
  BY DEF Inserts
<1>7. TypeOK'
  BY <1>1, <1>5, <1>6 DEF TypeInv, TypeOK, Others
<1>8. \A d \in AllChunks : Len(att[d]) \in Nat
  BY AttemptRows DEF RowFacts, TypeInv
<1>9. runner'[r].pc = "fetching" /\ AtWork(runner'[r], att')
  <2>1. runner[r].attempt \in 1 .. Len(att'[c])
    BY <1>1, <1>8
  <2> QED  BY <1>1, <1>3, <1>5, <2>1 DEF AtWork
<1>10. \A q \in Runners : runner'[q].pc = "checked" =>
         /\ q # r /\ runner'[q] = runner[q]
         /\ runner'[q].chunk \in AllChunks /\ runner'[q].chunk # c
  <2> SUFFICES ASSUME NEW q \in Runners, runner'[q].pc = "checked"
               PROVE  /\ q # r /\ runner'[q] = runner[q]
                      /\ runner'[q].chunk \in AllChunks /\ runner'[q].chunk # c
    OBVIOUS
  <2>1. q # r
    BY <1>9
  <2>2. runner'[q] = runner[q]
    BY <1>5, <2>1
  <2>3. runner[r].pc = "checked"
    BY DEF Inserts
  <2> QED  BY <2>1, <2>2, <2>3 DEF TypeInv, CheckedAreCurrent
<1>11. \A q \in Runners : runner'[q].pc = "checked" =>
         Len(att'[runner'[q].chunk]) = Len(att[runner'[q].chunk])
  BY <1>1, <1>10
<1>12. CheckedFrame
  BY <1>10, <1>11 DEF CheckedFrame
<1>13. \A d \in AllChunks : Len(att'[d]) >= Len(att[d])
  BY <1>1, <1>8
<1>14. \A q \in Runners : \/ runner'[q] = runner[q]
                          \/ runner'[q].pc \in Working /\ AtWork(runner'[q], att')
  BY <1>5, <1>9 DEF Working
<1>15. TypeInv'
  BY <1>7, <1>11, <1>13, <1>14, WorkersKeep
<1>16. Kinds
  BY DEF Kinds
<1> QED  BY <1>12, <1>15, <1>16 DEF Orderly

\* The provider answers.
LEMMA FetchSteps ==
  ASSUME TypeInv, NEW r \in Runners, Fetch(r)
  PROVE  Orderly
<1>1. PICK a \in Answer[runner[r].chunk] : Set(r, Fetched(runner[r], a))
  BY DEF Fetch
<1>2. runner[r].chunk \in AllChunks /\ runner[r].attempt \in 1 .. Len(att[runner[r].chunk])
  BY DEF Fetch, TypeInv, RunnersAtWork, AtWork, Working
<1>3. a \in Exceptions \cup Responses
  BY <1>2, AnswerAssumption
<1> DEFINE x == Fetched(runner[r], a)
<1>4. runner \in [Runners -> Runner]
  BY DEF TypeInv, TypeOK
<1>5. /\ x \in Runner /\ x.pc = "fetched"
      /\ x.chunk = runner[r].chunk /\ x.attempt = runner[r].attempt
  BY <1>3, <1>4, RunnerRecords
<1>6. Set(r, x)
  BY <1>1
<1> HIDE DEF x
<1>7. /\ runner' \in [Runners -> Runner] /\ runner'[r] = x
      /\ \A q \in Runners : q # r => runner'[q] = runner[q]
  BY <1>4, <1>5, <1>6, SetRunner
<1>8. RowsStay /\ Others /\ faults' = faults
  BY DEF Fetch, RowsStay, Others
<1>9. TypeOK'
  BY <1>7, <1>8 DEF TypeInv, TypeOK, RowsStay, Others
<1>10. AtWork(runner'[r], att') /\ runner'[r].pc = "fetched"
  BY <1>2, <1>5, <1>7, <1>8 DEF AtWork, RowsStay
<1>11. \A q \in Runners : \/ runner'[q] = runner[q]
                          \/ runner'[q].pc \in Working /\ AtWork(runner'[q], att')
  BY <1>7, <1>10 DEF Working
<1>12. \A q \in Runners : runner'[q].pc = "checked" => runner'[q] = runner[q]
  BY <1>7, <1>10
<1>13. CheckedFrame
  BY <1>8, <1>12 DEF CheckedFrame, RowsStay
<1>14. \A c \in AllChunks : Len(att[c]) \in Nat
  BY AttemptRows DEF RowFacts, TypeInv
<1>15. /\ \A c \in AllChunks : Len(att'[c]) >= Len(att[c])
       /\ \A q \in Runners : runner'[q].pc = "checked" =>
            Len(att'[runner'[q].chunk]) = Len(att[runner'[q].chunk])
  BY <1>8, <1>14 DEF RowsStay
<1>16. TypeInv'
  BY <1>9, <1>11, <1>15, WorkersKeep
<1>17. Kinds
  BY <1>8 DEF Kinds
<1> QED  BY <1>13, <1>16, <1>17 DEF Orderly

\* How an answer is classified: what is stored was expected.
LEMMA AnswersClassified ==
  ASSUME NEW c \in AllChunks, NEW a \in Exceptions \cup Responses \cup {""}
  PROVE  /\ FailureCode(c, a) \in Codes
         /\ FailureCode(c, a) = "" /\ CandlesAdmitted(c, a) => a \in Responses /\ StoredContent(c, a)
<1>1. ResponseCode(c, a) \in Codes
  BY DEF ResponseCode, Codes
<1>2. FailureCode(c, a) \in Codes
  BY <1>1 DEF FailureCode, Codes
<1>3. ASSUME FailureCode(c, a) = "", CandlesAdmitted(c, a)
      PROVE  a \in Responses /\ StoredContent(c, a)
  <2>1. a \in {"exact", "missing", "drift"}
    BY <1>3 DEF CandlesAdmitted, LegacyCandles, CanaryCandles, ContractCandles
  <2>2. ResponseCode(c, a) = ""
    BY <1>3, <2>1 DEF FailureCode
  <2>3. a = "exact" \/ (a = "drift" /\ ~Contract(c))
    BY <2>1, <2>2 DEF ResponseCode
  <2> QED  BY <2>3 DEF StoredContent, Responses
<1> QED  BY <1>2, <1>3

LEMMA StepsAreOrderly ==
  ASSUME TypeInv, [Next]_vars
  PROVE  Orderly
<1> USE DEF TypeInv, TypeOK
<1>0. /\ planned \subseteq Datasets /\ registered \subseteq planned
      /\ installed \in 1 .. Len(Migrations)
      /\ faults \in 0 .. MaxFaults /\ MaxFaults \in Nat /\ Len(Migrations) = 6
      /\ \A r \in Runners : runner[r] \in Runner /\ runner[r].todo \in SUBSET AllChunks
      /\ Idle \in Runner /\ Idle.pc \in Resting
      /\ \A todo \in SUBSET AllChunks : InWave(todo) \in Runner /\ InWave(todo).pc \in Resting
      /\ {} \in SUBSET AllChunks
  <2>1. /\ planned \subseteq Datasets /\ registered \subseteq planned
        /\ installed \in 1 .. Len(Migrations)
        /\ faults \in 0 .. MaxFaults /\ MaxFaults \in Nat /\ Len(Migrations) = 6
    BY BoundsAssumption DEF Migrations
  <2>2. \A r \in Runners : runner[r] \in Runner /\ runner[r].todo \in SUBSET AllChunks
    BY DEF Runner
  <2>3. /\ Idle \in Runner /\ Idle.pc \in Resting
        /\ \A todo \in SUBSET AllChunks : InWave(todo) \in Runner /\ InWave(todo).pc \in Resting
    BY RunnerRecords DEF Resting
  <2> QED  BY <2>1, <2>2, <2>3
<1>1. CASE PlanLegacy \/ PlanReplacement \/ PlanSuccessor
  <2>1. PICK d \in Datasets : Materialize(d)
    BY <1>1 DEF PlanLegacy, PlanReplacement, PlanSuccessor, Datasets
  <2>2. TypeOK'
    BY <1>0, <2>1 DEF Materialize
  <2>3. Kinds
    BY <1>1, <2>1 DEF Materialize, Kinds, RowsStay
  <2> QED  BY <2>1, <2>2, <2>3, PlanSteps DEF Materialize
<1>2. ASSUME NEW d \in Datasets, Register(d) PROVE Orderly
  <2>1. TypeOK'
    BY <1>0, <1>2 DEF Register
  <2>2. Kinds
    BY <1>2 DEF Register, Kinds, RowsStay
  <2> QED  BY <1>2, <2>1, <2>2, PlanSteps DEF Register
<1>3. CASE Migrate
  <2>1. TypeOK'
    BY <1>0, <1>3 DEF Migrate
  <2>2. Kinds
    BY <1>3 DEF Migrate, Kinds, RowsStay
  <2> QED  BY <1>3, <2>1, <2>2, PlanSteps DEF Migrate
<1>4. CASE Reverse
  <2>1. TypeOK'
    BY <1>0, <1>4 DEF Reverse
  <2>2. Kinds
    BY <1>4 DEF Reverse, Kinds, RowsStay
  <2> QED  BY <1>4, <2>1, <2>2, PlanSteps DEF Reverse
<1>5. ASSUME NEW c \in AllChunks, ResolveStale(c) PROVE Orderly
  <2>1. PICK n \in 1 .. Len(att[c]) :
          /\ att[c][n].status = "running"
          /\ Terminal(c, n, "failed", "STALE_ATTEMPT_RESOLVED", StaleEvents(c))
    BY <1>5 DEF ResolveStale
  <2>2. Fails(c, n)
    BY <1>5, <2>1 DEF ResolveStale, Fails, Others, Codes
  <2>3. faults' \in 0 .. MaxFaults /\ runner' = runner
    BY <1>0, <1>5 DEF ResolveStale, Fault
  <2> QED  BY <2>2, <2>3, OutcomeSteps
<1>6. ASSUME NEW r \in Runners, NEW c \in AllChunks, AcquireChunk(r, c) PROVE Orderly
  BY <1>0, <1>6, CheckSteps DEF AcquireChunk, Resting
<1>7. ASSUME NEW r \in Runners, AcquireCanary(r) PROVE Orderly
  <2>1. "canary1" \in AllChunks
    BY NamedChunks, DatasetsOfChunks DEF Datasets
  <2> QED  BY <1>0, <1>7, <2>1, CheckSteps DEF AcquireCanary, Resting
<1>8. ASSUME NEW r \in Runners, StartWave(r) PROVE Orderly
  <2>1. PICK todo \in Wave1 \cup Wave2 : Set(r, InWave(todo))
    BY <1>8 DEF StartWave
  <2>2. todo \in SUBSET AllChunks
    BY WavesOfChunks
  <2>3. InWave(todo) \in Runner /\ InWave(todo).pc \in Resting
    BY <1>0, <2>2
  <2>4. RowsStay /\ Others /\ faults' \in 0 .. MaxFaults
    BY <1>0, <1>8 DEF StartWave, RowsStay, Others
  <2> QED  BY <2>1, <2>3, <2>4, RestSteps
<1>9. ASSUME NEW r \in Runners, WaveChunk(r) PROVE Orderly
  <2>1. PICK c \in runner[r].todo :
          \/ Begin(r, c, runner[r].todo \ {c})
          \/ /\ Set(r, InWave(runner[r].todo \ {c}))
             /\ UNCHANGED <<installed, planned, registered, att, candles, faults>>
    BY <1>9 DEF WaveChunk
  <2>2. c \in AllChunks /\ runner[r].todo \ {c} \in SUBSET AllChunks
    BY <1>0
  <2>3. CASE Begin(r, c, runner[r].todo \ {c})
    BY <1>9, <2>2, <2>3, CheckSteps DEF WaveChunk, Resting
  <2>4. CASE /\ Set(r, InWave(runner[r].todo \ {c}))
             /\ UNCHANGED <<installed, planned, registered, att, candles, faults>>
    <3>1. InWave(runner[r].todo \ {c}) \in Runner /\ InWave(runner[r].todo \ {c}).pc \in Resting
      BY <1>0, <2>2
    <3>2. RowsStay /\ Others /\ faults' \in 0 .. MaxFaults
      BY <1>0, <2>4 DEF RowsStay, Others
    <3> QED  BY <2>4, <3>1, <3>2, RestSteps
  <2> QED  BY <2>1, <2>3, <2>4
<1>10. ASSUME NEW r \in Runners, WaveEnds(r) PROVE Orderly
  BY <1>0, <1>10, RestSteps DEF WaveEnds, RowsStay, Others
<1>11. ASSUME NEW r \in Runners, InsertAttempt(r) PROVE Orderly
  <2>1. CASE AttemptAdmitted(runner[r].chunk, runner[r].attempt)
    <3>1. Inserts(r) /\ Set(r, Fetching(runner[r])) /\ faults' = faults
      BY <1>11, <2>1 DEF InsertAttempt, Inserts, Others
    <3> QED  BY <3>1, InsertSteps
  <2>2. CASE ~AttemptAdmitted(runner[r].chunk, runner[r].attempt)
    BY <1>0, <1>11, <2>2, RestSteps DEF InsertAttempt, RowsStay, Others
  <2> QED  BY <2>1, <2>2
<1>12. ASSUME NEW r \in Runners, Fetch(r) PROVE Orderly
  BY <1>12, FetchSteps
<1>13. ASSUME NEW r \in Runners, runner[r].pc = "fetched"
       PROVE  /\ runner[r].chunk \in AllChunks
              /\ runner[r].attempt \in 1 .. Len(att[runner[r].chunk])
              /\ runner[r].answer \in Exceptions \cup Responses \cup {""}
  BY <1>0, <1>13 DEF RunnersAtWork, AtWork, Working, Runner
<1>14. ASSUME NEW r \in Runners, NEW x \in Runner, x.pc \in Resting, Set(r, x)
       PROVE  /\ runner' \in [Runners -> Runner]
              /\ \A q \in Runners : runner'[q] = runner[q] \/ runner'[q].pc \in Resting
  BY <1>14, SetRunner
<1>15. ASSUME NEW r \in Runners, Store(r) PROVE Orderly
  <2>1. runner[r].pc = "fetched"
    BY <1>15 DEF Store
  <2>2. runner[r].answer \in Responses /\ StoredContent(runner[r].chunk, runner[r].answer)
    BY <1>13, <1>15, <2>1, AnswersClassified DEF Store
  <2>3. Succeeds(runner[r].chunk, runner[r].attempt)
    BY <1>13, <1>15, <2>1, <2>2 DEF Store, Succeeds, Transition, MyRun, Others
  <2>4. faults' \in 0 .. MaxFaults
    BY <1>0, <1>15 DEF Store
  <2>5. PICK x \in Runner : x.pc \in Resting /\ Set(r, x)
    <3>1. CASE runner[r].todo = {}
      BY <1>0, <1>15, <3>1 DEF Store
    <3>2. CASE runner[r].todo # {}
      BY <1>0, <1>15, <3>2 DEF Store
    <3> QED  BY <3>1, <3>2
  <2>6. /\ runner' \in [Runners -> Runner]
        /\ \A q \in Runners : runner'[q] = runner[q] \/ runner'[q].pc \in Resting
    BY <1>14, <2>5
  <2> QED  BY <1>13, <2>1, <2>3, <2>4, <2>6, OutcomeSteps
<1>16. ASSUME NEW r \in Runners, runner[r].pc = "fetched", MyRun(r).status = "running",
              NEW code \in Codes,
              Terminal(runner[r].chunk, runner[r].attempt, "failed", code, FailureEvents(runner[r].chunk)),
              Set(r, Idle), faults' \in 0 .. MaxFaults, UNCHANGED candles, Others
       PROVE  Orderly
  <2>1. Fails(runner[r].chunk, runner[r].attempt)
    BY <1>13, <1>16 DEF Fails, MyRun
  <2>2. /\ runner' \in [Runners -> Runner]
        /\ \A q \in Runners : runner'[q] = runner[q] \/ runner'[q].pc \in Resting
    BY <1>0, <1>14, <1>16
  <2> QED  BY <1>13, <1>16, <2>1, <2>2, OutcomeSteps
<1>17. ASSUME NEW r \in Runners, StoreFails(r) PROVE Orderly
  <2>1. faults' \in 0 .. MaxFaults
    <3>1. faults' = faults \/ Fault
      BY <1>17 DEF StoreFails
    <3> QED  BY <1>0, <3>1 DEF Fault
  <2>2. "PERSISTENCE_FAILED" \in Codes
    BY DEF Codes
  <2> QED  BY <1>16, <1>17, <2>1, <2>2 DEF StoreFails, Others
<1>18. ASSUME NEW r \in Runners, RecordFailure(r) PROVE Orderly
  <2>1. runner[r].pc = "fetched" /\ faults' \in 0 .. MaxFaults
    BY <1>0, <1>18 DEF RecordFailure
  <2>2. FailureCode(runner[r].chunk, runner[r].answer) \in Codes
    BY <1>13, <2>1, AnswersClassified
  <2> QED  BY <1>16, <1>18, <2>1, <2>2 DEF RecordFailure, Others
<1>19. ASSUME NEW r \in Runners, LateOutcome(r) PROVE Orderly
  BY <1>0, <1>19, RestSteps DEF LateOutcome, RowsStay, Others
<1>20. ASSUME NEW r \in Runners, Crash(r) PROVE Orderly
  <2>1. faults' \in 0 .. MaxFaults
    BY <1>0, <1>20 DEF Crash, Fault
  <2> QED  BY <1>0, <1>20, <2>1, RestSteps DEF Crash, RowsStay, Others
<1>21. CASE UNCHANGED vars
  <2>1. TypeOK' /\ UNCHANGED <<att, candles, runner>> /\ Kinds
    BY <1>21 DEF vars, Kinds, RowsStay, Others
  <2> QED  BY <2>1, PlanSteps
<1> QED
  BY <1>1, <1>2, <1>3, <1>4, <1>5, <1>6, <1>7, <1>8, <1>9, <1>10, <1>11, <1>12,
     <1>15, <1>17, <1>18, <1>19, <1>20, <1>21 DEF Next

LEMMA TypeInvInit == Init => TypeInv
<1> SUFFICES ASSUME Init PROVE TypeInv
  OBVIOUS
<1>1. Idle \in Runner /\ Idle.pc = "idle"
  BY RunnerRecords
<1>2. \A r \in Runners : runner[r] = Idle
  BY DEF Init
<1>3. RunnersAtWork /\ CheckedAreCurrent
  BY <1>1, <1>2 DEF RunnersAtWork, CheckedAreCurrent, Working
<1>4. att \in [AllChunks -> Seq(Attempt)]
  <2>1. << >> \in Seq(Attempt)
    BY EmptySeq
  <2> QED  BY <2>1 DEF Init
<1>5. candles \in [AllChunks -> Candles]
  <2>1. NoCandles \in Candles
    BY DEF NoCandles, Candles
  <2> QED  BY <2>1 DEF Init
<1>6. /\ runner \in [Runners -> Runner] /\ installed \in 1 .. Len(Migrations)
      /\ faults \in 0 .. MaxFaults
  BY <1>1, BoundsAssumption DEF Init, Migrations
<1> QED  BY <1>3, <1>4, <1>5, <1>6 DEF TypeInv, TypeOK, Init

\* Rows keep their types, runners work on attempts that exist, and a chunk's
\* lock keeps what its runner has checked.
THEOREM TypeCorrect == Spec => []TypeInv
<1>1. TypeInv /\ [Next]_vars => TypeInv'
  BY StepsAreOrderly DEF Orderly
<1> QED  BY <1>1, TypeInvInit, PTL DEF Spec

-----------------------------------------------------------------------------
(* The rows of a chunk: every attempt but the last failed, a chunk under a *)
(* contract has at most one, its candles are the result of the attempt     *)
(* that succeeded, and its events are those of its outcome.                *)

EarlierFailed ==
  \A c \in AllChunks : \A n \in 1 .. Len(att[c]) : n < Len(att[c]) => att[c][n].status = "failed"
OnceUnderContract == \A c \in ContractChunks : Len(att[c]) <= 1
CandlesAreWhole ==
  \A c \in AllChunks :
    /\ candles[c].attempt = 0 => candles[c] = NoCandles
    /\ candles[c].attempt # 0 => StoredContent(c, candles[c].content)
EarnedRows ==
  \A c \in AllChunks :
    /\ candles[c].attempt \in 0 .. Len(att[c])
    /\ \A n \in 1 .. Len(att[c]) : att[c][n].status = "succeeded" <=> n = candles[c].attempt
EventRows ==
  \A c \in AllChunks : \A n \in 1 .. Len(att[c]) :
    /\ att[c][n].status = "running" => att[c][n].events = {}
    /\ att[c][n].status = "succeeded" => att[c][n].events = SuccessEvents(c)
    /\ att[c][n].status = "failed" => att[c][n].events \in {FailureEvents(c), StaleEvents(c)}
RowInv == EarlierFailed /\ OnceUnderContract /\ CandlesAreWhole /\ EarnedRows /\ EventRows

\* What a runner is about to insert comes after attempts that failed.
Over(c) == \A n \in 1 .. Len(att[c]) : att[c][n].status = "failed"
CheckedAreOver == \A r \in Runners : runner[r].pc = "checked" => Over(runner[r].chunk)

\* A running attempt is the last of its chunk, which has no candles yet.
LEMMA RunningIsLast ==
  ASSUME TypeInv, RowInv, NEW c \in AllChunks, NEW n \in 1 .. Len(att[c]),
         att[c][n].status = "running"
  PROVE  /\ n = Len(att[c]) /\ candles[c].attempt = 0 /\ candles[c] = NoCandles
         /\ \A m \in 1 .. Len(att[c]) : m # n => att[c][m].status = "failed"
<1>1. Len(att[c]) \in Nat
  BY AttemptRows DEF RowFacts, TypeInv
<1>2. n = Len(att[c])
  BY <1>1 DEF RowInv, EarlierFailed
<1>3. \A m \in 1 .. Len(att[c]) : m # n => att[c][m].status = "failed"
  BY <1>1, <1>2 DEF RowInv, EarlierFailed
<1>4. candles[c].attempt \in 0 .. Len(att[c])
  BY DEF RowInv, EarnedRows
<1>5. candles[c].attempt # 0 => att[c][candles[c].attempt].status = "succeeded"
  BY <1>1, <1>4 DEF RowInv, EarnedRows
<1>6. candles[c].attempt = 0
  BY <1>1, <1>3, <1>4, <1>5
<1>7. candles[c] = NoCandles
  BY <1>6 DEF RowInv, CandlesAreWhole
<1> QED  BY <1>2, <1>3, <1>6, <1>7

LEMMA RowsAfterInsert ==
  ASSUME TypeInv, RowInv, CheckedAreOver, NEW r, Inserts(r)
  PROVE  RowInv'
<1> DEFINE c == runner[r].chunk
<1>1. /\ c \in AllChunks /\ runner[r].attempt = Len(att[c]) + 1
      /\ Len(att'[c]) = Len(att[c]) + 1
      /\ att'[c][Len(att[c]) + 1].status = "running"
      /\ att'[c][Len(att[c]) + 1].events = {}
      /\ \A n \in 1 .. Len(att[c]) : att'[c][n] = att[c][n]
      /\ \A d \in AllChunks : d # c => att'[d] = att[d]
  BY InsertsRows
<1>2. candles' = candles
  BY DEF Inserts
<1>3. Len(att[c]) \in Nat
  BY <1>1, AttemptRows DEF RowFacts, TypeInv
<1>4. \A n \in 1 .. Len(att[c]) : att[c][n].status = "failed"
  BY DEF Inserts, CheckedAreOver, Over
<1>5. candles[c].attempt = 0
  <2>1. candles[c].attempt \in 0 .. Len(att[c])
    BY <1>1 DEF RowInv, EarnedRows
  <2>2. candles[c].attempt \in 1 .. Len(att[c]) => att[c][candles[c].attempt].status = "succeeded"
    BY <1>1 DEF RowInv, EarnedRows
  <2> QED  BY <1>3, <1>4, <2>1, <2>2
<1>6. c \in ContractChunks => Len(att'[c]) = 1
  <2> SUFFICES ASSUME c \in ContractChunks PROVE Len(att'[c]) = 1
    OBVIOUS
  <2>1. Contract(c)
    BY DEF ContractChunks
  <2>2. AttemptAdmitted(c, runner[r].attempt)
    BY DEF Inserts
  <2>3. runner[r].attempt = 1
    BY <2>1, <2>2 DEF AttemptAdmitted, CanaryActivated, FullActivated
  <2> QED  BY <1>1, <2>3
<1> HIDE DEF c
<1>7. EarlierFailed'
  <2> SUFFICES ASSUME NEW d \in AllChunks, NEW n \in 1 .. Len(att'[d]), n < Len(att'[d])
               PROVE  att'[d][n].status = "failed"
    BY DEF EarlierFailed
  <2>1. CASE d = c
    <3>1. n \in 1 .. Len(att[c])
      BY <1>1, <1>3, <2>1
    <3> QED  BY <1>1, <1>4, <2>1, <3>1
  <2>2. CASE d # c
    BY <1>1, <2>2 DEF RowInv, EarlierFailed
  <2> QED  BY <2>1, <2>2
<1>8. OnceUnderContract'
  <2> SUFFICES ASSUME NEW d \in ContractChunks PROVE Len(att'[d]) <= 1
    BY DEF OnceUnderContract, ContractChunks, Contract
  <2>1. CASE d = c
    <3>1. Len(att'[d]) = 1
      BY <1>6, <2>1
    <3> QED  BY <3>1
  <2>2. CASE d # c
    BY <1>1, <2>2, ContractsOfChunks DEF RowInv, OnceUnderContract
  <2> QED  BY <2>1, <2>2
<1>9. CandlesAreWhole'
  BY <1>2 DEF RowInv, CandlesAreWhole
<1>10. EarnedRows'
  <2> SUFFICES ASSUME NEW d \in AllChunks
               PROVE  /\ candles'[d].attempt \in 0 .. Len(att'[d])
                      /\ \A n \in 1 .. Len(att'[d]) :
                           att'[d][n].status = "succeeded" <=> n = candles'[d].attempt
    BY DEF EarnedRows
  <2>1. CASE d = c
    <3>1. candles'[c].attempt = 0
      BY <1>2, <1>5
    <3>2. \A n \in 1 .. Len(att'[c]) : att'[c][n].status # "succeeded"
      <4> SUFFICES ASSUME NEW n \in 1 .. Len(att'[c]) PROVE att'[c][n].status # "succeeded"
        OBVIOUS
      <4>1. CASE n = Len(att[c]) + 1
        BY <1>1, <4>1
      <4>2. CASE n # Len(att[c]) + 1
        <5>1. n \in 1 .. Len(att[c])
          BY <1>1, <1>3, <4>2
        <5> QED  BY <1>1, <1>4, <5>1
      <4> QED  BY <4>1, <4>2
    <3> QED  BY <1>1, <1>3, <2>1, <3>1, <3>2
  <2>2. CASE d # c
    BY <1>1, <1>2, <2>2 DEF RowInv, EarnedRows
  <2> QED  BY <2>1, <2>2
<1>11. EventRows'
  <2> SUFFICES ASSUME NEW d \in AllChunks, NEW n \in 1 .. Len(att'[d])
               PROVE  /\ att'[d][n].status = "running" => att'[d][n].events = {}
                      /\ att'[d][n].status = "succeeded" => att'[d][n].events = SuccessEvents(d)
                      /\ att'[d][n].status = "failed" =>
                           att'[d][n].events \in {FailureEvents(d), StaleEvents(d)}
    BY DEF EventRows, SuccessEvents, FailureEvents, StaleEvents, Succeeded, Contract
  <2>1. CASE d = c /\ n = Len(att[c]) + 1
    BY <1>1, <2>1
  <2>2. CASE ~(d = c /\ n = Len(att[c]) + 1)
    <3>1. n \in 1 .. Len(att[d]) /\ att'[d][n] = att[d][n]
      BY <1>1, <1>3, <2>2
    <3> QED  BY <3>1 DEF RowInv, EventRows
  <2> QED  BY <2>1, <2>2
<1> QED  BY <1>7, <1>8, <1>9, <1>10, <1>11 DEF RowInv

LEMMA RowsAfterFailure ==
  ASSUME TypeInv, RowInv, NEW c, NEW n, Fails(c, n)
  PROVE  RowInv'
<1>1. /\ Len(att'[c]) = Len(att[c])
      /\ att'[c][n].status = "failed"
      /\ att'[c][n].events \in {FailureEvents(c), StaleEvents(c)}
      /\ \A m \in 1 .. Len(att[c]) : m # n => att'[c][m] = att[c][m]
      /\ \A d \in AllChunks : d # c => att'[d] = att[d]
  BY FailsRows
<1>2. /\ c \in AllChunks /\ n \in 1 .. Len(att[c]) /\ att[c][n].status = "running"
      /\ candles' = candles
  BY DEF Fails
<1>3. EarlierFailed'
  BY <1>1, <1>2 DEF RowInv, EarlierFailed
<1>4. \A d \in AllChunks : Len(att'[d]) = Len(att[d])
  BY <1>1
<1>5. OnceUnderContract'
  BY <1>4, ContractsOfChunks DEF RowInv, OnceUnderContract, ContractChunks, Contract
<1>6. EarnedRows'
  <2> SUFFICES ASSUME NEW d \in AllChunks
               PROVE  /\ candles'[d].attempt \in 0 .. Len(att'[d])
                      /\ \A m \in 1 .. Len(att'[d]) :
                           att'[d][m].status = "succeeded" <=> m = candles'[d].attempt
    BY DEF EarnedRows
  <2>1. /\ candles[d].attempt \in 0 .. Len(att[d])
        /\ \A m \in 1 .. Len(att[d]) : att[d][m].status = "succeeded" <=> m = candles[d].attempt
    BY DEF RowInv, EarnedRows
  <2>2. CASE d = c
    BY <1>1, <1>2, <2>1, <2>2
  <2>3. CASE d # c
    BY <1>1, <1>2, <2>1, <2>3
  <2> QED  BY <2>2, <2>3
<1>7. CandlesAreWhole'
  BY <1>2 DEF RowInv, CandlesAreWhole
<1>8. EventRows'
  <2> SUFFICES ASSUME NEW d \in AllChunks, NEW m \in 1 .. Len(att'[d])
               PROVE  /\ att'[d][m].status = "running" => att'[d][m].events = {}
                      /\ att'[d][m].status = "succeeded" => att'[d][m].events = SuccessEvents(d)
                      /\ att'[d][m].status = "failed" =>
                           att'[d][m].events \in {FailureEvents(d), StaleEvents(d)}
    BY DEF EventRows, SuccessEvents, FailureEvents, StaleEvents, Succeeded, Contract
  <2>1. CASE d = c /\ m = n
    BY <1>1, <2>1
  <2>2. CASE ~(d = c /\ m = n)
    <3>1. m \in 1 .. Len(att[d]) /\ att'[d][m] = att[d][m]
      BY <1>1, <1>4, <2>2
    <3> QED  BY <3>1 DEF RowInv, EventRows
  <2> QED  BY <2>1, <2>2
<1> QED  BY <1>3, <1>5, <1>6, <1>7, <1>8 DEF RowInv

LEMMA RowsAfterSuccess ==
  ASSUME TypeInv, RowInv, NEW c, NEW n, Succeeds(c, n)
  PROVE  RowInv'
<1>1. /\ Len(att'[c]) = Len(att[c])
      /\ att'[c][n].status = "succeeded"
      /\ att'[c][n].events = SuccessEvents(c)
      /\ \A m \in 1 .. Len(att[c]) : m # n => att'[c][m] = att[c][m]
      /\ \A d \in AllChunks : d # c => att'[d] = att[d]
      /\ candles'[c].attempt = n /\ StoredContent(c, candles'[c].content)
      /\ \A d \in AllChunks : d # c => candles'[d] = candles[d]
  BY SucceedsRows
<1>2. c \in AllChunks /\ n \in 1 .. Len(att[c]) /\ att[c][n].status = "running"
  BY DEF Succeeds
<1>3. /\ n = Len(att[c])
      /\ \A m \in 1 .. Len(att[c]) : m # n => att[c][m].status = "failed"
  BY <1>2, RunningIsLast
<1>4. Len(att[c]) \in Nat
  BY <1>2, AttemptRows DEF RowFacts, TypeInv
<1>5. EarlierFailed'
  <2> SUFFICES ASSUME NEW d \in AllChunks, NEW m \in 1 .. Len(att'[d]), m < Len(att'[d])
               PROVE  att'[d][m].status = "failed"
    BY DEF EarlierFailed
  <2>1. CASE d = c
    BY <1>1, <1>3, <1>4, <2>1
  <2>2. CASE d # c
    BY <1>1, <2>2 DEF RowInv, EarlierFailed
  <2> QED  BY <2>1, <2>2
<1>6. \A d \in AllChunks : Len(att'[d]) = Len(att[d])
  BY <1>1
<1>7. OnceUnderContract'
  BY <1>6, ContractsOfChunks DEF RowInv, OnceUnderContract, ContractChunks, Contract
<1>8. EarnedRows'
  <2> SUFFICES ASSUME NEW d \in AllChunks
               PROVE  /\ candles'[d].attempt \in 0 .. Len(att'[d])
                      /\ \A m \in 1 .. Len(att'[d]) :
                           att'[d][m].status = "succeeded" <=> m = candles'[d].attempt
    BY DEF EarnedRows
  <2>1. CASE d = c
    <3>1. candles'[d].attempt = n /\ n \in 0 .. Len(att'[d])
      BY <1>1, <1>2, <1>4, <2>1
    <3>2. \A m \in 1 .. Len(att[c]) : att'[c][m].status = "succeeded" <=> m = n
      BY <1>1, <1>2, <1>3
    <3> QED  BY <1>1, <2>1, <3>1, <3>2
  <2>2. CASE d # c
    BY <1>1, <2>2 DEF RowInv, EarnedRows
  <2> QED  BY <2>1, <2>2
<1>9. n # 0
  <2>1. PICK k \in Int : k = Len(att[c])
    BY <1>4
  <2>2. n \in 1 .. k
    BY <1>2, <2>1
  <2> QED  BY <2>2
<1>10. CandlesAreWhole'
  <2> SUFFICES ASSUME NEW d \in AllChunks
               PROVE  /\ candles'[d].attempt = 0 => candles'[d] = NoCandles
                      /\ candles'[d].attempt # 0 => StoredContent(d, candles'[d].content)
    BY DEF CandlesAreWhole, StoredContent, Contract
  <2>1. CASE d = c
    BY <1>1, <1>9, <2>1
  <2>2. CASE d # c
    BY <1>1, <2>2 DEF RowInv, CandlesAreWhole
  <2> QED  BY <2>1, <2>2
<1>11. EventRows'
  <2> SUFFICES ASSUME NEW d \in AllChunks, NEW m \in 1 .. Len(att'[d])
               PROVE  /\ att'[d][m].status = "running" => att'[d][m].events = {}
                      /\ att'[d][m].status = "succeeded" => att'[d][m].events = SuccessEvents(d)
                      /\ att'[d][m].status = "failed" =>
                           att'[d][m].events \in {FailureEvents(d), StaleEvents(d)}
    BY DEF EventRows, SuccessEvents, FailureEvents, StaleEvents, Succeeded, Contract
  <2>1. CASE d = c /\ m = n
    BY <1>1, <2>1
  <2>2. CASE ~(d = c /\ m = n)
    <3>1. m \in 1 .. Len(att[d]) /\ att'[d][m] = att[d][m]
      BY <1>1, <1>6, <2>2
    <3> QED  BY <3>1 DEF RowInv, EventRows
  <2> QED  BY <2>1, <2>2
<1> QED  BY <1>5, <1>7, <1>8, <1>10, <1>11 DEF RowInv

\* What a step of each kind does to the rows.
LEMMA KindsOfSteps ==
  ASSUME Kinds
  PROVE  \/ RowsStay
         \/ \E r \in Runners : Inserts(r)
         \/ \E c \in AllChunks : \E n \in 1 .. Len(att[c]) : Fails(c, n) \/ Succeeds(c, n)
  BY DEF Kinds

LEMMA RowsAfterOthers ==
  ASSUME RowInv, RowsStay
  PROVE  RowInv'
  BY DEF RowInv, RowsStay, EarlierFailed, OnceUnderContract, CandlesAreWhole, EarnedRows, EventRows,
         ContractChunks, Contract, StoredContent, SuccessEvents, FailureEvents, StaleEvents, Succeeded

LEMMA RowsNext ==
  ASSUME TypeInv, RowInv, CheckedAreOver, Kinds
  PROVE  RowInv'
  BY KindsOfSteps, RowsAfterInsert, RowsAfterFailure, RowsAfterSuccess, RowsAfterOthers

\* What is over stays so until the next attempt is inserted.
LEMMA OverStays ==
  ASSUME TypeInv, Kinds, NEW c \in AllChunks, Over(c), Len(att'[c]) = Len(att[c])
  PROVE  Over(c)'
<1>1. CASE RowsStay
  BY <1>1 DEF Over, RowsStay
<1>2. ASSUME NEW r \in Runners, Inserts(r) PROVE Over(c)'
  <2>1. /\ Len(att'[runner[r].chunk]) = Len(att[runner[r].chunk]) + 1
        /\ \A d \in AllChunks : d # runner[r].chunk => att'[d] = att[d]
    BY <1>2, InsertsRows
  <2>2. Len(att[c]) \in Nat
    BY AttemptRows DEF RowFacts, TypeInv
  <2>3. att'[c] = att[c]
    BY <2>1, <2>2
  <2> QED  BY <2>3 DEF Over
<1>3. ASSUME NEW d \in AllChunks, NEW n \in 1 .. Len(att[d]), Fails(d, n) \/ Succeeds(d, n)
      PROVE  Over(c)'
  <2>1. \A e \in AllChunks : e # d => att'[e] = att[e]
    BY <1>3, FailsRows, SucceedsRows
  <2>2. att[d][n].status = "running"
    BY <1>3 DEF Fails, Succeeds
  <2>3. c # d
    BY <2>2 DEF Over
  <2>4. att'[c] = att[c]
    BY <2>1, <2>3
  <2> QED  BY <2>4 DEF Over
<1> QED  BY <1>1, <1>2, <1>3, KindsOfSteps

LEMMA CheckedNext ==
  ASSUME TypeInv, CheckedAreOver, Orderly
  PROVE  CheckedAreOver'
<1> SUFFICES ASSUME NEW r \in Runners, runner'[r].pc = "checked"
             PROVE  \A n \in 1 .. Len(att'[runner'[r].chunk]) :
                      att'[runner'[r].chunk][n].status = "failed"
  BY DEF CheckedAreOver, Over
<1>1. PICK c \in AllChunks : c = runner'[r].chunk
  BY DEF Orderly, TypeInv, CheckedAreCurrent
<1>2. /\ Len(att'[c]) = Len(att[c])
      /\ runner'[r] = runner[r] \/ ServiceAdmits(c)
  BY <1>1 DEF Orderly, CheckedFrame
<1>3. Over(c)
  <2>1. CASE runner'[r] = runner[r]
    BY <1>1, <2>1 DEF CheckedAreOver
  <2>2. CASE ServiceAdmits(c)
    <3>1. ~HasStatus({c}, "succeeded") /\ ~HasStatus({c}, "running")
      BY <2>2 DEF ServiceAdmits
    <3>2. \A n \in 1 .. Len(att[c]) : att[c][n].status \in Statuses
      BY AttemptRows DEF RowFacts, TypeInv
    <3>3. \A st \in Statuses : ~HasStatus({c}, st) => \A n \in 1 .. Len(att[c]) : att[c][n].status # st
      BY AttemptRows DEF RowFacts, TypeInv
    <3>4. "succeeded" \in Statuses /\ "running" \in Statuses
      BY DEF Statuses
    <3>5. \A n \in 1 .. Len(att[c]) : att[c][n].status # "succeeded" /\ att[c][n].status # "running"
      BY <3>1, <3>3, <3>4
    <3> QED  BY <3>2, <3>5 DEF Statuses, Over
  <2> QED  BY <1>2, <2>1, <2>2
<1>4. \A n \in 1 .. Len(att'[c]) : att'[c][n].status = "failed"
  BY <1>2, <1>3, OverStays DEF Orderly, Over
<1> QED  BY <1>1, <1>4

LEMMA RowsInit == Init => RowInv /\ CheckedAreOver
<1> SUFFICES ASSUME Init PROVE RowInv /\ CheckedAreOver
  OBVIOUS
<1>1. NoCandles.attempt = 0
  BY DEF NoCandles
<1>2. \A c \in AllChunks : att[c] = << >> /\ candles[c] = NoCandles
  BY DEF Init
<1>3. \A c \in AllChunks : Len(att[c]) = 0 /\ candles[c].attempt = 0
  <2>1. Len(<< >>) = 0
    BY EmptySeq
  <2> QED  BY <1>1, <1>2, <2>1
<1>4. \A c \in AllChunks : 1 .. Len(att[c]) = {} /\ 0 .. Len(att[c]) = {0}
  <2> SUFFICES ASSUME NEW c \in AllChunks PROVE 1 .. Len(att[c]) = {} /\ 0 .. Len(att[c]) = {0}
    OBVIOUS
  <2>1. 1 .. 0 = {} /\ 0 .. 0 = {0}
    OBVIOUS
  <2> QED  BY <1>3, <2>1
<1>5. EarlierFailed
  BY <1>4 DEF EarlierFailed
<1>6. OnceUnderContract
  BY <1>3, ContractsOfChunks DEF OnceUnderContract
<1>7. CandlesAreWhole
  BY <1>2, <1>3 DEF CandlesAreWhole
<1>8. EarnedRows
  BY <1>3, <1>4 DEF EarnedRows
<1>9. EventRows
  BY <1>4 DEF EventRows
<1>10. CheckedAreOver
  BY RunnerRecords DEF Init, CheckedAreOver
<1> QED  BY <1>5, <1>6, <1>7, <1>8, <1>9, <1>10 DEF RowInv

-----------------------------------------------------------------------------
(* Candles, events and registrations.                                      *)

\* What the rows say of the candles of a chunk.
LEMMA RowsHaveCandles ==
  ASSUME TypeInv, RowInv
  PROVE  CandlesAreExpected
<1> SUFFICES ASSUME NEW c \in AllChunks
             PROVE  /\ {n \in 1 .. Len(att[c]) : att[c][n].status = "succeeded"} =
                         IF candles[c] = NoCandles THEN {} ELSE {candles[c].attempt}
                    /\ candles[c] # NoCandles =>
                         candles[c].content = "exact" \/ (candles[c].content = "drift" /\ ~Contract(c))
  BY DEF CandlesAreExpected
<1>1. Len(att[c]) \in Nat
  BY AttemptRows DEF RowFacts, TypeInv
<1>2. /\ candles[c].attempt \in 0 .. Len(att[c])
      /\ \A n \in 1 .. Len(att[c]) : att[c][n].status = "succeeded" <=> n = candles[c].attempt
  BY DEF RowInv, EarnedRows
<1>3. /\ candles[c].attempt = 0 => candles[c] = NoCandles
      /\ candles[c].attempt # 0 => StoredContent(c, candles[c].content)
  BY DEF RowInv, CandlesAreWhole
<1>4. NoCandles.attempt = 0
  BY DEF NoCandles
<1>5. candles[c] = NoCandles <=> candles[c].attempt = 0
  BY <1>3, <1>4
<1>6. {n \in 1 .. Len(att[c]) : att[c][n].status = "succeeded"} =
        IF candles[c].attempt = 0 THEN {} ELSE {candles[c].attempt}
  BY <1>1, <1>2
<1> QED  BY <1>3, <1>5, <1>6 DEF StoredContent

\* What the three writers record of an attempt under a contract.
LEMMA ContractEvents ==
  ASSUME NEW c, Contract(c)
  PROVE  /\ SuccessEvents(c) \cap RunEvents = {"ingestion_succeeded"}
         /\ (SuccessEvents(c) \cap AttemptEvents) \ {"historical_attempt_stale_failed"} = {Succeeded(c)}
         /\ Succeeded(c) # "historical_ingestion_failed"
         /\ \A events \in {FailureEvents(c), StaleEvents(c)} :
              /\ events \cap RunEvents = {"ingestion_rejected"}
              /\ (events \cap AttemptEvents) \ {"historical_attempt_stale_failed"} =
                   {"historical_ingestion_failed"}
<1>1. Succeeded(c) \in {"replacement_canary_succeeded", "replacement_acquisition_succeeded"}
  BY DEF Succeeded
<1>2. SuccessEvents(c) = {"ingestion_succeeded", Succeeded(c)}
  BY DEF SuccessEvents
<1>3. FailureEvents(c) = {"historical_ingestion_failed", "ingestion_rejected"}
  BY DEF FailureEvents
<1>4. StaleEvents(c) =
        {"historical_attempt_stale_failed", "historical_ingestion_failed", "ingestion_rejected"}
  BY <1>3 DEF StaleEvents
<1>5. /\ SuccessEvents(c) \cap RunEvents = {"ingestion_succeeded"}
      /\ (SuccessEvents(c) \cap AttemptEvents) \ {"historical_attempt_stale_failed"} = {Succeeded(c)}
  BY <1>1, <1>2 DEF RunEvents, AttemptEvents
<1>6. /\ FailureEvents(c) \cap RunEvents = {"ingestion_rejected"}
      /\ (FailureEvents(c) \cap AttemptEvents) \ {"historical_attempt_stale_failed"} =
           {"historical_ingestion_failed"}
  BY <1>3 DEF RunEvents, AttemptEvents
<1>7. /\ StaleEvents(c) \cap RunEvents = {"ingestion_rejected"}
      /\ (StaleEvents(c) \cap AttemptEvents) \ {"historical_attempt_stale_failed"} =
           {"historical_ingestion_failed"}
  BY <1>4 DEF RunEvents, AttemptEvents
<1> QED  BY <1>1, <1>5, <1>6, <1>7

LEMMA RowsHaveEvents ==
  ASSUME TypeInv, RowInv
  PROVE  AuditPairs
<1> SUFFICES
      ASSUME NEW c \in ContractChunks, NEW a \in Range(att[c])
      PROVE  LET outcome == (a.events \cap AttemptEvents) \ {"historical_attempt_stale_failed"} IN
             /\ a.status = "running" => a.events = {}
             /\ a.status = "succeeded" => /\ a.events \cap RunEvents = {"ingestion_succeeded"}
                                           /\ Cardinality(outcome) = 1
                                           /\ "historical_ingestion_failed" \notin outcome
             /\ a.status = "failed" => /\ a.events \cap RunEvents = {"ingestion_rejected"}
                                        /\ outcome = {"historical_ingestion_failed"}
  BY DEF AuditPairs
<1> DEFINE outcome == (a.events \cap AttemptEvents) \ {"historical_attempt_stale_failed"}
<1>1. c \in AllChunks /\ Contract(c)
  BY DEF ContractChunks
<1>2. Range(att[c]) = {att[c][n] : n \in 1 .. Len(att[c])}
  BY <1>1, AttemptRows DEF RowFacts, TypeInv
<1>3. PICK n \in 1 .. Len(att[c]) : a = att[c][n]
  BY <1>2
<1>4. /\ a.status = "running" => a.events = {}
      /\ a.status = "succeeded" => a.events = SuccessEvents(c)
      /\ a.status = "failed" => a.events \in {FailureEvents(c), StaleEvents(c)}
  BY <1>1, <1>3 DEF RowInv, EventRows
<1>5. ASSUME a.status = "succeeded"
      PROVE  /\ a.events \cap RunEvents = {"ingestion_succeeded"}
             /\ Cardinality(outcome) = 1 /\ "historical_ingestion_failed" \notin outcome
  <2>1. /\ a.events \cap RunEvents = {"ingestion_succeeded"}
        /\ outcome = {Succeeded(c)} /\ Succeeded(c) # "historical_ingestion_failed"
    BY <1>1, <1>4, <1>5, ContractEvents
  <2>2. Cardinality({Succeeded(c)}) = 1
    BY FS_Singleton
  <2> QED  BY <2>1, <2>2
<1>6. ASSUME a.status = "failed"
      PROVE  a.events \cap RunEvents = {"ingestion_rejected"} /\ outcome = {"historical_ingestion_failed"}
  <2>1. a.events \in {FailureEvents(c), StaleEvents(c)}
    BY <1>4, <1>6
  <2> QED  BY <1>1, <2>1, ContractEvents
<1> QED  BY <1>4, <1>5, <1>6

\* A registered dataset row by row.
RegisteredRows ==
  /\ registered \subseteq Datasets
  /\ \A d \in registered : \A c \in Chunks[d] :
       Len(att[c]) # 0 /\ att[c][Len(att[c])].status = "succeeded"
  /\ "v2" \in registered => "v1" \in registered

\* A chunk that is complete ends with its success.
LEMMA CompleteChunks ==
  ASSUME TypeInv, RowInv, NEW d \in Datasets, ChunksComplete(d), NEW c \in Chunks[d]
  PROVE  Len(att[c]) # 0 /\ att[c][Len(att[c])].status = "succeeded"
<1> DEFINE S == {n \in 1 .. Len(att[c]) : att[c][n].status = "succeeded"}
<1>1. c \in AllChunks
  BY DatasetsOfChunks
<1>2. Cardinality(S) = 1
  BY DEF ChunksComplete
<1>3. S # {}
  <2>1. Cardinality({}) = 0
    BY FS_EmptySet
  <2> HIDE DEF S
  <2> QED  BY <1>2, <2>1
<1>4. PICK n \in 1 .. Len(att[c]) : att[c][n].status = "succeeded"
  BY <1>3
<1>5. Len(att[c]) \in Nat
  BY <1>1, AttemptRows DEF RowFacts, TypeInv
<1>6. ~(n < Len(att[c]))
  BY <1>1, <1>4 DEF RowInv, EarlierFailed
<1>7. n = Len(att[c]) /\ Len(att[c]) # 0
  BY <1>5, <1>6
<1> QED  BY <1>4, <1>7

LEMMA RegistrationsNext ==
  ASSUME TypeInv, RowInv, RegisteredRows, Kinds
  PROVE  RegisteredRows'
<1>1. \A d \in registered : \A c \in Chunks[d] :
        /\ c \in AllChunks /\ DatasetOf[c] = d /\ Len(att[c]) \in Nat
        /\ Len(att[c]) # 0 /\ att[c][Len(att[c])].status = "succeeded"
  BY DatasetsOfChunks, AttemptRows DEF RegisteredRows, RowFacts, TypeInv
<1>2. CASE RowsStay /\ registered' = registered
  BY <1>2 DEF RegisteredRows, RowsStay
<1>3. ASSUME RowsStay, NEW e \in Datasets, Register(e) PROVE RegisteredRows'
  <2>1. registered' = registered \cup {e} /\ att' = att /\ ChunksComplete(e)
    BY <1>3 DEF Register
  <2>2. e = "v2" => "v1" \in registered
    BY <1>3 DEF Register, Ready, SuccessorComparison
  <2>3. \A c \in Chunks[e] : Len(att[c]) # 0 /\ att[c][Len(att[c])].status = "succeeded"
    BY <2>1, CompleteChunks
  <2> QED  BY <2>1, <2>2, <2>3 DEF RegisteredRows
<1>4. ASSUME registered' = registered,
             \A d \in registered : \A c \in Chunks[d] : att'[c] = att[c]
      PROVE  RegisteredRows'
  BY <1>4 DEF RegisteredRows
<1>5. ASSUME NEW r \in Runners, Inserts(r) PROVE RegisteredRows'
  <2>1. DatasetOf[runner[r].chunk] \notin registered /\ registered' = registered
    BY <1>5 DEF Inserts, AttemptAdmitted, Others
  <2>2. \A d \in AllChunks : d # runner[r].chunk => att'[d] = att[d]
    BY <1>5, InsertsRows
  <2> QED  BY <1>1, <1>4, <2>1, <2>2
<1>6. ASSUME NEW c \in AllChunks, NEW n \in 1 .. Len(att[c]), Fails(c, n) \/ Succeeds(c, n)
      PROVE  RegisteredRows'
  <2>1. registered' = registered /\ att[c][n].status = "running"
    BY <1>6 DEF Fails, Succeeds, Others
  <2>2. \A d \in AllChunks : d # c => att'[d] = att[d]
    BY <1>6, FailsRows, SucceedsRows
  <2>3. n = Len(att[c])
    BY <2>1, RunningIsLast
  <2>4. \A d \in registered : \A e \in Chunks[d] : e # c
    BY <1>1, <2>1, <2>3
  <2> QED  BY <1>1, <1>4, <2>1, <2>2, <2>4
<1>7. CASE RowsStay /\ Others
  BY <1>2, <1>7 DEF Others
<1>8. CASE RowsStay /\ (PlanLegacy \/ PlanReplacement \/ PlanSuccessor)
  BY <1>2, <1>8 DEF PlanLegacy, PlanReplacement, PlanSuccessor, Materialize
<1>9. CASE RowsStay /\ (Migrate \/ Reverse)
  BY <1>2, <1>9 DEF Migrate, Reverse
<1> QED  BY <1>3, <1>5, <1>6, <1>7, <1>8, <1>9 DEF Kinds

\* What every reachable state satisfies of the rows and of what rests on them.
EarnedInv == TypeInv /\ RowInv /\ CheckedAreOver /\ RegisteredRows

LEMMA EarnedInvariant == Spec => []EarnedInv
<1>1. Init => EarnedInv
  BY TypeInvInit, RowsInit DEF EarnedInv, Init, RegisteredRows
<1>2. EarnedInv /\ [Next]_vars => EarnedInv'
  <2> SUFFICES ASSUME EarnedInv, [Next]_vars PROVE EarnedInv'
    OBVIOUS
  <2>1. Orderly
    BY StepsAreOrderly DEF EarnedInv
  <2>2. TypeInv' /\ Kinds
    BY <2>1 DEF Orderly
  <2> QED  BY <2>1, <2>2, RowsNext, CheckedNext, RegistrationsNext DEF EarnedInv
<1> QED  BY <1>1, <1>2, PTL DEF Spec

\* The candles of a chunk, the outcome and the events of its attempts and the
\* registration of its dataset tell one story, whatever is resolved as stale
\* while an answer is under way (run_historical_chunk).
THEOREM ResultsAreEarned == Spec => []OutcomesAreEarned
<1>1. EarnedInv => OutcomesAreEarned
  <2> SUFFICES ASSUME EarnedInv PROVE OutcomesAreEarned
    OBVIOUS
  <2>1. TypeOK /\ CandlesAreExpected /\ AuditPairs
    BY RowsHaveCandles, RowsHaveEvents DEF EarnedInv, TypeInv
  <2>2. \A d \in registered : \A c \in Chunks[d] : att[c] # <<>>
    BY <2>1, AttemptRows, DatasetsOfChunks DEF EarnedInv, RegisteredRows, RowFacts
  <2> QED  BY <2>1, <2>2 DEF OutcomesAreEarned, EarnedInv, RegisteredRows, RegisteredIsComplete
<1> QED  BY <1>1, EarnedInvariant, PTL

-----------------------------------------------------------------------------
(* Which requests were admitted.                                           *)

\* Of all contracts at most one attempt is running.
Flights ==
  \A c, d \in ContractChunks : \A m \in 1 .. Len(att[c]), n \in 1 .. Len(att[d]) :
    att[c][m].status = "running" /\ att[d][n].status = "running" => c = d

\* A chunk's only attempt succeeded.
Done(c) == Len(att[c]) = 1 /\ att[c][1].status = "succeeded"
CanaryRows ==
  /\ \A c \in Range(Rest1) : Len(att[c]) # 0 => Done("canary1")
  /\ \A c \in Range(Rest2) : Len(att[c]) # 0 => Done("canary1") \/ Done("canary2")

\* Which rules have to be installed, by their number in Migrations.
GovernedRows ==
  /\ \A c \in ContractChunks : c # "canary1" /\ Len(att[c]) # 0 => installed >= 2
  /\ \A d \in registered : d \in Contracts => installed >= 3
  /\ "v2" \in planned => installed >= 4

RequestInv == Flights /\ CanaryRows /\ GovernedRows

LEMMA GovInstalled ==
  ASSUME TypeInv
  PROVE  /\ installed \in 1 .. 6
         /\ Gov = 20 <=> installed = 1
         /\ Gov >= 21 <=> installed >= 2
         /\ Gov >= 22 <=> installed >= 3
         /\ Gov >= 25 <=> installed >= 4
         /\ Gov >= 26 <=> installed >= 5
<1>1. installed \in 1 .. Len(Migrations)
  BY DEF TypeInv, TypeOK
<1> QED  BY <1>1, GovIs DEF Gov

\* Acceptance of a chunk under a contract is the success of its attempt: the
\* candles and the two events come with it.
LEMMA AcceptedIsDone ==
  ASSUME TypeInv, RowInv, NEW c \in ContractChunks
  PROVE  Accepted(c) <=> Done(c)
<1>1. c \in AllChunks /\ Contract(c) /\ Len(att[c]) \in Nat
  BY AttemptRows DEF ContractChunks, RowFacts, TypeInv
<1> SUFFICES ASSUME Done(c)
             PROVE  /\ candles[c] = [attempt |-> 1, content |-> "exact"]
                    /\ Cardinality(att[c][1].events) = 2
  BY DEF Accepted, Done
<1>2. 1 \in 1 .. Len(att[c]) /\ att[c][1].status = "succeeded"
  BY DEF Done
<1>3. candles[c].attempt = 1
  BY <1>1, <1>2 DEF RowInv, EarnedRows
<1>4. candles[c].content = "exact"
  <2>1. StoredContent(c, candles[c].content)
    BY <1>1, <1>3 DEF RowInv, CandlesAreWhole
  <2> QED  BY <1>1, <2>1 DEF StoredContent
<1>5. candles[c] \in Candles
  BY <1>1 DEF TypeInv, TypeOK
<1>6. candles[c] = [attempt |-> 1, content |-> "exact"]
  BY <1>3, <1>4, <1>5 DEF Candles
<1>7. att[c][1].events = {"ingestion_succeeded", Succeeded(c)}
  BY <1>1, <1>2 DEF RowInv, EventRows, SuccessEvents
<1>8. Succeeded(c) # "ingestion_succeeded"
  BY DEF Succeeded
<1>9. Cardinality({"ingestion_succeeded", Succeeded(c)}) = 2
  <2> DEFINE S == {Succeeded(c)}
  <2>1. Cardinality(S) = 1 /\ IsFiniteSet(S) /\ "ingestion_succeeded" \notin S
    BY <1>8, FS_Singleton
  <2>2. Cardinality(S \cup {"ingestion_succeeded"}) = 2
    BY <2>1, FS_AddElement
  <2>3. {"ingestion_succeeded", Succeeded(c)} = S \cup {"ingestion_succeeded"}
    OBVIOUS
  <2> QED  BY <2>2, <2>3
<1> QED  BY <1>6, <1>7, <1>9

\* What the triggers looked at when they admit an attempt under a contract.
LEMMA AdmittedUnderContract ==
  ASSUME TypeInv, RowInv, NEW c \in ContractChunks, NEW k, AttemptAdmitted(c, k)
  PROVE  /\ k = 1 /\ Len(att[c]) = 0
         /\ \A d \in ContractChunks : \A n \in 1 .. Len(att[d]) : att[d][n].status # "running"
         /\ c # "canary1" => installed >= 2
         /\ c \in Range(Rest1) => Done("canary1")
         /\ c \in Range(Rest2) => Done("canary1") \/ Done("canary2")
<1>1. c \in AllChunks /\ Contract(c) /\ k = Len(att[c]) + 1 /\ Len(att[c]) \in Nat
  BY AttemptRows DEF ContractChunks, AttemptAdmitted, RowFacts, TypeInv
<1>2. /\ "canary1" \in ContractChunks /\ "canary2" \in ContractChunks
      /\ Accepted("canary1") => Done("canary1")
      /\ Accepted("canary2") => Done("canary2")
  <2>1. "canary1" \in ContractChunks /\ "canary2" \in ContractChunks
    BY NamedChunks, ContractsOfChunks
  <2> QED  BY <2>1, AcceptedIsDone
<1>3. /\ c \in Range(Rest1) => c # "canary1" /\ c # "canary2" /\ DatasetOf[c] = "v1"
      /\ c \in Range(Rest2) => c # "canary1" /\ c # "canary2"
  <2>1. DatasetOf["canary1"] = "v1" /\ DatasetOf["canary2"] = "v2"
    BY NamedChunks, ContractsOfChunks
  <2>2. /\ c \in Range(Rest1) => DatasetOf[c] = "v1"
        /\ c \in Range(Rest2) => DatasetOf[c] = "v2"
    BY NamedChunks, ContractsOfChunks
  <2> QED  BY <2>1, <2>2, ChunksAssumption
<1>4. installed \in 1 .. 6 /\ (Gov = 20 <=> installed = 1)
  BY GovInstalled
<1>5. CASE Gov = 20
  <2>1. c = "canary1" /\ k = 1 /\ Attempts(ContractChunks) = {}
    BY <1>1, <1>5 DEF AttemptAdmitted, CanaryActivated
  <2>2. \A d \in ContractChunks : Len(att[d]) = 0
    BY <2>1, AttemptRows DEF RowFacts, TypeInv
  <2>3. \A d \in ContractChunks : 1 .. Len(att[d]) = {}
    <3>1. 1 .. 0 = {}
      OBVIOUS
    <3> QED  BY <2>2, <3>1
  <2> QED  BY <1>3, <2>1, <2>2, <2>3
<1>6. CASE Gov # 20
  <2>1. FullActivated(c, k)
    BY <1>1, <1>6 DEF AttemptAdmitted
  <2>2. k = 1 /\ Len(att[c]) = 0
    BY <1>1, <2>1 DEF FullActivated
  <2>3. \A d \in ContractChunks : \A n \in 1 .. Len(att[d]) : att[d][n].status # "running"
    <3>1. ~HasStatus(ContractChunks, "running") /\ "running" \in Statuses
      BY <2>1 DEF FullActivated, Statuses
    <3>2. \A st \in Statuses : ~HasStatus(ContractChunks, st) =>
            \A d \in ContractChunks : \A n \in 1 .. Len(att[d]) : att[d][n].status # st
      BY AttemptRows DEF RowFacts, TypeInv
    <3> QED  BY <3>1, <3>2
  <2>4. c \in Range(Rest1) => Done("canary1")
    BY <1>2, <1>3, <2>1 DEF FullActivated, PredecessorCanary
  <2>5. c \in Range(Rest2) => Done("canary1") \/ Done("canary2")
    BY <1>2, <1>3, <2>1 DEF FullActivated, PredecessorCanary, SuccessorCanary
  <2>6. installed >= 2
    BY <1>4, <1>6
  <2> QED  BY <2>2, <2>3, <2>4, <2>5, <2>6
<1> QED  BY <1>5, <1>6

\* A chunk that is done stays so.
LEMMA DoneStays ==
  ASSUME TypeInv, RowInv, Kinds, NEW c \in ContractChunks, Done(c)
  PROVE  Done(c)'
<1>1. c \in AllChunks
  BY ContractsOfChunks
<1>2. CASE RowsStay
  BY <1>2 DEF Done, RowsStay
<1>3. ASSUME NEW r \in Runners, Inserts(r) PROVE Done(c)'
  <2>1. AttemptAdmitted(runner[r].chunk, runner[r].attempt)
    BY <1>3 DEF Inserts
  <2>2. runner[r].chunk = c => Len(att[c]) = 0
    BY <2>1, AdmittedUnderContract
  <2>3. \A d \in AllChunks : d # runner[r].chunk => att'[d] = att[d]
    BY <1>3, InsertsRows
  <2>4. att'[c] = att[c]
    BY <1>1, <2>2, <2>3 DEF Done
  <2> QED  BY <2>4 DEF Done
<1>4. ASSUME NEW d \in AllChunks, NEW n \in 1 .. Len(att[d]), Fails(d, n) \/ Succeeds(d, n)
      PROVE  Done(c)'
  <2>1. att[d][n].status = "running"
    BY <1>4 DEF Fails, Succeeds
  <2>2. c # d
    BY <2>1 DEF Done
  <2>3. \A e \in AllChunks : e # d => att'[e] = att[e]
    BY <1>4, FailsRows, SucceedsRows
  <2>4. att'[c] = att[c]
    BY <1>1, <2>2, <2>3
  <2> QED  BY <2>4 DEF Done
<1> QED  BY <1>2, <1>3, <1>4, KindsOfSteps

LEMMA FlightsNext ==
  ASSUME TypeInv, RowInv, Flights, Kinds
  PROVE  Flights'
<1> SUFFICES ASSUME NEW c \in ContractChunks, NEW d \in ContractChunks,
                    NEW m \in 1 .. Len(att'[c]), NEW n \in 1 .. Len(att'[d]),
                    att'[c][m].status = "running", att'[d][n].status = "running"
             PROVE  c = d
  BY DEF Flights, ContractChunks, Contract
<1>0. c \in AllChunks /\ d \in AllChunks /\ Len(att[c]) \in Nat /\ Len(att[d]) \in Nat
  BY ContractsOfChunks, AttemptRows DEF RowFacts, TypeInv
<1>1. CASE RowsStay
  BY <1>1 DEF Flights, RowsStay
<1>2. ASSUME NEW r \in Runners, Inserts(r) PROVE c = d
  <2> DEFINE x == runner[r].chunk
  <2>1. /\ AttemptAdmitted(x, runner[r].attempt)
        /\ Len(att'[x]) = Len(att[x]) + 1
        /\ \A k \in 1 .. Len(att[x]) : att'[x][k] = att[x][k]
        /\ \A e \in AllChunks : e # x => att'[e] = att[e]
    BY <1>2, InsertsRows DEF Inserts
  <2> HIDE DEF x
  <2>2. CASE x \in ContractChunks
    <3>1. \A e \in ContractChunks : \A k \in 1 .. Len(att[e]) : att[e][k].status # "running"
      BY <2>1, <2>2, AdmittedUnderContract
    <3>2. c = x
      BY <1>0, <2>1, <3>1
    <3>3. d = x
      BY <1>0, <2>1, <3>1
    <3> QED  BY <3>2, <3>3
  <2>3. CASE x \notin ContractChunks
    <3>1. att'[c] = att[c] /\ att'[d] = att[d]
      BY <1>0, <2>1, <2>3
    <3> QED  BY <3>1 DEF Flights
  <2> QED  BY <2>2, <2>3
<1>3. ASSUME NEW e \in AllChunks, NEW k \in 1 .. Len(att[e]), Fails(e, k) \/ Succeeds(e, k)
      PROVE  c = d
  <2>1. /\ Len(att'[e]) = Len(att[e])
        /\ att'[e][k].status # "running"
        /\ \A i \in 1 .. Len(att[e]) : i # k => att'[e][i] = att[e][i]
        /\ \A f \in AllChunks : f # e => att'[f] = att[f]
    BY <1>3, FailsRows, SucceedsRows
  <2>2. m \in 1 .. Len(att[c]) /\ att[c][m].status = "running"
    <3>1. CASE c = e
      BY <2>1, <3>1
    <3>2. CASE c # e
      BY <1>0, <2>1, <3>2
    <3> QED  BY <3>1, <3>2
  <2>3. n \in 1 .. Len(att[d]) /\ att[d][n].status = "running"
    <3>1. CASE d = e
      BY <2>1, <3>1
    <3>2. CASE d # e
      BY <1>0, <2>1, <3>2
    <3> QED  BY <3>1, <3>2
  <2> QED  BY <2>2, <2>3 DEF Flights
<1> QED  BY <1>1, <1>2, <1>3, KindsOfSteps

\* A chunk gets its first attempt only by an insertion.
LEMMA FirstAttempts ==
  ASSUME TypeInv, Kinds, NEW c \in AllChunks, Len(att'[c]) # 0, Len(att[c]) = 0
  PROVE  \E r \in Runners : Inserts(r) /\ runner[r].chunk = c
<1>1. CASE RowsStay
  BY <1>1 DEF RowsStay
<1>2. ASSUME NEW r \in Runners, Inserts(r) PROVE runner[r].chunk = c
  <2>1. \A e \in AllChunks : e # runner[r].chunk => att'[e] = att[e]
    BY <1>2, InsertsRows
  <2> QED  BY <2>1
<1>3. ASSUME NEW e \in AllChunks, NEW k \in 1 .. Len(att[e]), Fails(e, k) \/ Succeeds(e, k)
      PROVE  FALSE
  <2>1. /\ Len(att'[e]) = Len(att[e])
        /\ \A f \in AllChunks : f # e => att'[f] = att[f]
    BY <1>3, FailsRows, SucceedsRows
  <2> QED  BY <2>1
<1> QED  BY <1>1, <1>2, <1>3, KindsOfSteps

LEMMA CanariesNext ==
  ASSUME TypeInv, RowInv, CanaryRows, Kinds
  PROVE  CanaryRows'
<1>1. "canary1" \in ContractChunks /\ "canary2" \in ContractChunks
  BY NamedChunks, ContractsOfChunks
<1>2. /\ Done("canary1") => Done("canary1")'
      /\ Done("canary2") => Done("canary2")'
  BY <1>1, DoneStays
<1>3. ASSUME NEW c \in ContractChunks, Len(att'[c]) # 0, Len(att[c]) = 0
      PROVE  /\ c \in Range(Rest1) => Done("canary1")
             /\ c \in Range(Rest2) => Done("canary1") \/ Done("canary2")
  <2>1. PICK r \in Runners : Inserts(r) /\ runner[r].chunk = c
    BY <1>3, FirstAttempts, ContractsOfChunks
  <2>2. AttemptAdmitted(c, runner[r].attempt)
    BY <2>1 DEF Inserts
  <2> QED  BY <2>2, AdmittedUnderContract
<1>4. Range(Rest1) \subseteq ContractChunks /\ Range(Rest2) \subseteq ContractChunks
  BY NamedChunks, ContractsOfChunks
<1>5. ASSUME NEW c \in Range(Rest1), Len(att'[c]) # 0 PROVE Done("canary1")
  <2>1. CASE Len(att[c]) = 0
    BY <1>3, <1>4, <1>5, <2>1
  <2>2. CASE Len(att[c]) # 0
    BY <2>2 DEF CanaryRows
  <2> QED  BY <2>1, <2>2
<1>6. ASSUME NEW c \in Range(Rest2), Len(att'[c]) # 0 PROVE Done("canary1") \/ Done("canary2")
  <2>1. CASE Len(att[c]) = 0
    BY <1>3, <1>4, <1>6, <2>1
  <2>2. CASE Len(att[c]) # 0
    BY <2>2 DEF CanaryRows
  <2> QED  BY <2>1, <2>2
<1> QED  BY <1>2, <1>5, <1>6 DEF CanaryRows

LEMMA GovernedNext ==
  ASSUME TypeInv, RowInv, GovernedRows, Kinds
  PROVE  GovernedRows'
<1>0. /\ installed \in 1 .. 6
      /\ Gov >= 22 <=> installed >= 3
      /\ Gov >= 25 <=> installed >= 4
  BY GovInstalled
<1>1. CASE RowsStay /\ Others
  BY <1>1 DEF GovernedRows, RowsStay, Others, ContractChunks, Contract
<1>2. CASE RowsStay /\ (PlanLegacy \/ PlanReplacement \/ PlanSuccessor)
  <2>1. UNCHANGED <<installed, registered, att>>
    BY <1>2 DEF RowsStay, PlanLegacy, PlanReplacement, PlanSuccessor, Materialize
  <2>2. "v2" \in planned' => "v2" \in planned \/ installed >= 4
    <3>1. CASE PlanLegacy
      BY <3>1 DEF PlanLegacy, Materialize
    <3>2. CASE PlanReplacement
      BY <3>2 DEF PlanReplacement, Materialize
    <3>3. CASE PlanSuccessor
      BY <1>0, <3>3 DEF PlanSuccessor, ContractPlanValid, ReplacementPlanValid
    <3> QED  BY <1>2, <3>1, <3>2, <3>3
  <2> QED  BY <2>1, <2>2 DEF GovernedRows, ContractChunks, Contract
<1>3. ASSUME RowsStay, NEW d \in Datasets, Register(d) PROVE GovernedRows'
  <2>1. UNCHANGED <<installed, planned, att>> /\ registered' = registered \cup {d}
    BY <1>3 DEF RowsStay, Register
  <2>2. d \in Contracts => installed >= 3
    <3> SUFFICES ASSUME d \in Contracts PROVE installed >= 3
      OBVIOUS
    <3>1. d # "v0"
      BY DEF Contracts
    <3>2. Gov \in Nat
      BY <1>0, GovIs DEF TypeInv, TypeOK, Gov
    <3>3. ~(Gov < 22)
      BY <1>3, <3>1 DEF Register, RegistrationValid, UncorrectedValid
    <3> QED  BY <1>0, <3>2, <3>3
  <2> QED  BY <2>1, <2>2 DEF GovernedRows, ContractChunks, Contract
<1>4. CASE RowsStay /\ Migrate
  <2>1. UNCHANGED <<planned, registered, att>> /\ installed' = installed + 1
    BY <1>4 DEF Migrate
  <2> QED  BY <1>0, <2>1 DEF GovernedRows, ContractChunks, Contract
<1>5. CASE RowsStay /\ Reverse
  <2>1. UNCHANGED <<planned, registered, att>> /\ installed' = installed - 1 /\ ~Evidence(Gov)
    BY <1>5 DEF Reverse
  <2>2. /\ installed = 2 => Gov = 21
        /\ installed = 3 => Gov = 22
        /\ installed = 4 => Gov = 25
    BY GovIs DEF TypeInv, TypeOK, Gov
  <2>3. installed = 2 => ~BeyondCanary
    BY <2>1, <2>2 DEF Evidence, FullEvidence
  <2>4. installed = 3 => ~ContractRegistered
    BY <2>1, <2>2 DEF Evidence
  <2>5. installed = 4 => "v2" \notin planned
    BY <2>1, <2>2 DEF Evidence, SuccessorEvidence
  <2>6. ~BeyondCanary => \A c \in ContractChunks : c # "canary1" => Len(att[c]) = 0
    BY ContractsOfChunks, AttemptRows DEF BeyondCanary, RowFacts, TypeInv
  <2>7. \A c \in ContractChunks : c # "canary1" /\ Len(att[c]) # 0 => installed' >= 2
    BY <1>0, <2>1, <2>3, <2>6 DEF GovernedRows
  <2>8. \A d \in registered : d \in Contracts => installed' >= 3
    BY <1>0, <2>1, <2>4 DEF GovernedRows, ContractRegistered
  <2>9. "v2" \in planned => installed' >= 4
    BY <1>0, <2>1, <2>5 DEF GovernedRows
  <2> QED  BY <2>1, <2>7, <2>8, <2>9 DEF GovernedRows, ContractChunks, Contract
<1>6. CASE \/ \E r \in Runners : Inserts(r)
           \/ \E c \in AllChunks : \E n \in 1 .. Len(att[c]) : Fails(c, n) \/ Succeeds(c, n)
  <2>1. Others
    BY <1>6 DEF Inserts, Fails, Succeeds
  <2>2. ASSUME NEW c \in ContractChunks, c # "canary1", Len(att'[c]) # 0 PROVE installed >= 2
    <3>1. CASE Len(att[c]) = 0
      <4>1. PICK r \in Runners : Inserts(r) /\ runner[r].chunk = c
        BY <2>2, <3>1, FirstAttempts, ContractsOfChunks
      <4>2. AttemptAdmitted(c, runner[r].attempt)
        BY <4>1 DEF Inserts
      <4> QED  BY <2>2, <4>2, AdmittedUnderContract
    <3>2. CASE Len(att[c]) # 0
      BY <2>2, <3>2 DEF GovernedRows
    <3> QED  BY <3>1, <3>2
  <2> QED  BY <2>1, <2>2 DEF GovernedRows, Others, ContractChunks, Contract
<1> QED  BY <1>1, <1>2, <1>3, <1>4, <1>5, <1>6 DEF Kinds

\* What every reachable state satisfies of requests.
AdmissionInv == EarnedInv /\ RequestInv

LEMMA AdmissionInvariant == Spec => []AdmissionInv
<1>1. Init => AdmissionInv
  <2> SUFFICES ASSUME Init PROVE AdmissionInv
    OBVIOUS
  <2>1. EarnedInv
    BY TypeInvInit, RowsInit DEF EarnedInv, Init, RegisteredRows
  <2>2. \A c \in AllChunks : Len(att[c]) = 0 /\ 1 .. Len(att[c]) = {}
    <3>1. Len(<< >>) = 0 /\ 1 .. 0 = {}
      BY EmptySeq
    <3> QED  BY <3>1 DEF Init
  <2>3. /\ \A c \in ContractChunks : c \in AllChunks
        /\ \A c \in Range(Rest1) : c \in AllChunks
        /\ \A c \in Range(Rest2) : c \in AllChunks
    BY NamedChunks, ContractsOfChunks
  <2>4. Flights
    BY <2>2, <2>3 DEF Flights
  <2>5. CanaryRows
    BY <2>2, <2>3 DEF CanaryRows
  <2>6. GovernedRows
    BY <2>2, <2>3 DEF GovernedRows, Init
  <2> QED  BY <2>1, <2>4, <2>5, <2>6 DEF AdmissionInv, RequestInv
<1>2. AdmissionInv /\ [Next]_vars => AdmissionInv'
  <2> SUFFICES ASSUME AdmissionInv, [Next]_vars PROVE AdmissionInv'
    OBVIOUS
  <2>1. TypeInv /\ RowInv /\ CheckedAreOver /\ RegisteredRows /\ Flights /\ CanaryRows /\ GovernedRows
    BY DEF AdmissionInv, EarnedInv, RequestInv
  <2>2. Orderly
    BY <2>1, StepsAreOrderly
  <2>3. TypeInv' /\ Kinds
    BY <2>2 DEF Orderly
  <2>4. EarnedInv'
    BY <2>1, <2>2, <2>3, RowsNext, CheckedNext, RegistrationsNext DEF EarnedInv
  <2>5. RequestInv'
    BY <2>1, <2>3, FlightsNext, CanariesNext, GovernedNext DEF RequestInv
  <2> QED  BY <2>4, <2>5 DEF AdmissionInv
<1> QED  BY <1>1, <1>2, PTL DEF Spec

\* What readiness tells the operator of the successor's chunks is what the
\* attempt's trigger verifies, unless a chunk of v1 is running.
LEMMA ReadinessFollows ==
  ASSUME TypeInv, RowInv, "v2" \in planned \ registered, Gov >= 26,
         ~HasStatus(Chunks["v1"], "running")
  PROVE  ReadyKeys = {c \in Range(Rest2) : AttemptAdmitted(c, Len(att[c]) + 1)}
<1>1. /\ \A c \in Chunks["v2"] : /\ c \in ContractChunks /\ c \in AllChunks /\ Contract(c)
                                 /\ DatasetOf[c] = "v2" /\ Len(att[c]) \in Nat
                                 /\ (att[c] = <<>> <=> Len(att[c]) = 0)
      /\ "canary2" \in Chunks["v2"] /\ Range(Rest2) \subseteq Chunks["v2"]
      /\ \A c \in Range(Rest2) : c # "canary1" /\ c # "canary2"
  <2>1. \A c \in Chunks["v2"] : c \in ContractChunks /\ c \in AllChunks /\ DatasetOf[c] = "v2"
    BY ContractsOfChunks
  <2>2. DatasetOf["canary1"] = "v1" /\ "canary2" \in Chunks["v2"] /\ Range(Rest2) \subseteq Chunks["v2"]
    BY NamedChunks, ContractsOfChunks
  <2>3. \A c \in Range(Rest2) : c # "canary1" /\ c # "canary2"
    BY <2>1, <2>2, ChunksAssumption
  <2>4. \A c \in Chunks["v2"] : Len(att[c]) \in Nat /\ (att[c] = <<>> <=> Len(att[c]) = 0)
    BY <2>1, AttemptRows DEF RowFacts, TypeInv
  <2> QED  BY <2>1, <2>2, <2>3, <2>4 DEF ContractChunks
<1>2. \A c \in Chunks["v2"] : Accepted(c) <=> Done(c)
  BY <1>1, AcceptedIsDone
<1>3. \A c \in Chunks["v2"] : Len(att[c]) <= 1
  BY <1>1 DEF RowInv, OnceUnderContract
<1>4. Gov # 20
  BY GovInstalled
<1> DEFINE AllDone == \A c \in Chunks["v2"] : Len(att[c]) = 0 \/ Done(c)
<1>5. HasStatus(ContractChunks, "running") <=>
        \E c \in Chunks["v2"] : \E n \in 1 .. Len(att[c]) : att[c][n].status = "running"
  <2>1. "running" \in Statuses /\ "v1" \in Datasets
    BY DEF Statuses, Datasets
  <2>2. \A st \in Statuses : HasStatus(ContractChunks, st) <=>
          \E c \in ContractChunks : \E n \in 1 .. Len(att[c]) : att[c][n].status = st
    BY AttemptRows DEF RowFacts, TypeInv
  <2>3. \A d \in Datasets, st \in Statuses : HasStatus(Chunks[d], st) <=>
          \E c \in Chunks[d] : \E n \in 1 .. Len(att[c]) : att[c][n].status = st
    BY AttemptRows DEF RowFacts, TypeInv
  <2>4. ~\E c \in Chunks["v1"] : \E n \in 1 .. Len(att[c]) : att[c][n].status = "running"
    BY <2>1, <2>3
  <2>5. /\ \A c \in ContractChunks : c \in Chunks["v1"] \/ c \in Chunks["v2"]
        /\ \A c \in Chunks["v2"] : c \in ContractChunks
    BY ContractsOfChunks
  <2> QED  BY <2>1, <2>2, <2>4, <2>5
<1>6. (/\ Done("canary2") /\ ~HasStatus(ContractChunks, "running")
       /\ \A c \in Chunks["v2"] : \A n \in 1 .. Len(att[c]) : n = 1 /\ att[c][n].status = "succeeded")
      <=> (Done("canary2") /\ AllDone)
  <2>1. ASSUME AllDone, NEW c \in Chunks["v2"], NEW n \in 1 .. Len(att[c])
        PROVE  n = 1 /\ att[c][n].status = "succeeded"
    <3>1. Len(att[c]) \in Nat /\ (Len(att[c]) = 0 \/ Done(c))
      BY <1>1, <2>1
    <3>2. Len(att[c]) # 0
      BY <2>1, <3>1
    <3>3. Len(att[c]) = 1 /\ att[c][1].status = "succeeded"
      BY <3>1, <3>2 DEF Done
    <3> QED  BY <2>1, <3>3
  <2>2. AllDone => ~HasStatus(ContractChunks, "running")
    BY <1>5, <2>1
  <2>3. ASSUME \A c \in Chunks["v2"] : \A n \in 1 .. Len(att[c]) : n = 1 /\ att[c][n].status = "succeeded"
        PROVE  AllDone
    <3> SUFFICES ASSUME NEW c \in Chunks["v2"], Len(att[c]) # 0 PROVE Done(c)
      OBVIOUS
    <3>1. Len(att[c]) \in Nat /\ Len(att[c]) <= 1
      BY <1>1, <1>3
    <3>2. Len(att[c]) = 1
      <4>1. PICK k \in Nat : k = Len(att[c])
        BY <3>1
      <4>2. k # 0 /\ k <= 1
        BY <3>1, <4>1
      <4>3. k = 1
        BY <4>2
      <4> QED  BY <4>1, <4>3
    <3>3. 1 \in 1 .. 1
      OBVIOUS
    <3>4. 1 \in 1 .. Len(att[c])
      BY <3>2, <3>3
    <3>5. att[c][1].status = "succeeded"
      BY <2>3, <3>4
    <3> QED  BY <3>2, <3>5 DEF Done
  <2> QED  BY <2>1, <2>2, <2>3
<1>7. \A c \in Range(Rest2) :
        AttemptAdmitted(c, Len(att[c]) + 1) <=> Len(att[c]) = 0 /\ Done("canary2") /\ AllDone
  <2> SUFFICES ASSUME NEW c \in Range(Rest2)
               PROVE  AttemptAdmitted(c, Len(att[c]) + 1) <=>
                        Len(att[c]) = 0 /\ Done("canary2") /\ AllDone
    OBVIOUS
  <2>1. /\ Contract(c) /\ DatasetOf[c] = "v2" /\ Len(att[c]) \in Nat
        /\ (att[c] = <<>> <=> Len(att[c]) = 0)
        /\ c # "canary1" /\ c # "canary2" /\ "v2" \notin registered
    BY <1>1
  <2>2. AttemptAdmitted(c, Len(att[c]) + 1) <=> FullActivated(c, Len(att[c]) + 1)
    BY <1>4, <2>1 DEF AttemptAdmitted
  <2>3. SuccessorCanary <=>
          /\ Done("canary2")
          /\ \A d \in Chunks["v2"] : \A n \in 1 .. Len(att[d]) : n = 1 /\ att[d][n].status = "succeeded"
    BY <1>1, <1>2, <2>1 DEF SuccessorCanary
  <2>4. FullActivated(c, Len(att[c]) + 1) <=>
          Len(att[c]) + 1 = 1 /\ Fresh(c) /\ ~HasStatus(ContractChunks, "running") /\ SuccessorCanary
    BY <2>1 DEF FullActivated
  <2>5. (Len(att[c]) + 1 = 1 /\ Fresh(c)) <=> Len(att[c]) = 0
    BY <2>1 DEF Fresh
  <2> HIDE DEF AllDone
  <2> QED  BY <1>6, <2>2, <2>3, <2>4, <2>5
<1>8. ReadyKeys = IF Done("canary2") /\ AllDone THEN {c \in Range(Rest2) : Len(att[c]) = 0} ELSE {}
  <2>1. Pending(Rest2) = {c \in Range(Rest2) : Len(att[c]) = 0}
    BY <1>1 DEF Pending
  <2>2. (\A c \in Chunks["v2"] : att[c] = <<>> \/ AcceptedSuccess(c)) <=> AllDone
    BY <1>1, <1>2 DEF AcceptedSuccess
  <2>3. AcceptedSuccess("canary2") <=> Done("canary2")
    BY <1>1, <1>2 DEF AcceptedSuccess
  <2> HIDE DEF AllDone
  <2> QED  BY <2>1, <2>2, <2>3 DEF ReadyKeys
<1> HIDE DEF AllDone
<1> QED  BY <1>7, <1>8

\* A request is made only as the contracts allow it: one at a time and once for
\* each chunk, the canary first, exactly where readiness offers it, and under
\* rules that stay in force (market_validate_acquisition_canary).
THEOREM RequestsStayGoverned == Spec => []RequestsAreGoverned
<1>1. AdmissionInv => RequestsAreGoverned
  <2> SUFFICES ASSUME AdmissionInv PROVE RequestsAreGoverned
    OBVIOUS
  <2>0. TypeInv /\ RowInv /\ Flights /\ CanaryRows /\ GovernedRows
    BY DEF AdmissionInv, EarnedInv, RequestInv
  <2>1. ContractsSingleFlight
    <3> DEFINE S == {c \in ContractChunks : HasStatus({c}, "running")}
    <3>1. \A c, d \in S : c = d
      <4>1. "running" \in Statuses
        BY DEF Statuses
      <4>2. \A c \in AllChunks, st \in Statuses :
              HasStatus({c}, st) <=> \E n \in 1 .. Len(att[c]) : att[c][n].status = st
        BY <2>0, AttemptRows DEF RowFacts, TypeInv
      <4>3. \A c \in ContractChunks : HasStatus({c}, "running") =>
              \E n \in 1 .. Len(att[c]) : att[c][n].status = "running"
        BY <4>1, <4>2, ContractsOfChunks
      <4>4. \A c \in S : c \in ContractChunks /\ HasStatus({c}, "running")
        OBVIOUS
      <4> HIDE DEF S
      <4>5. \A c \in S : c \in ContractChunks /\ \E n \in 1 .. Len(att[c]) : att[c][n].status = "running"
        BY <4>3, <4>4
      <4> QED  BY <2>0, <4>5 DEF Flights
    <3> HIDE DEF S
    <3>2. S = {} \/ \E c : S = {c}
      BY <3>1
    <3>3. Cardinality(S) <= 1
      <4>1. Cardinality({}) = 0 /\ \A c : Cardinality({c}) = 1
        BY FS_EmptySet, FS_Singleton
      <4>2. CASE S = {}
        BY <4>1, <4>2
      <4>3. CASE \E c : S = {c}
        <5>1. Cardinality(S) = 1
          BY <4>1, <4>3
        <5> QED  BY <5>1
      <4> QED  BY <3>2, <4>2, <4>3
    <3> QED  BY <3>3 DEF ContractsSingleFlight, S
  <2>2. OneRequest
    <3>1. \A c \in Chunks["v0"] : \A n \in 1 .. Len(att[c]) :
            att[c][n].status = "succeeded" => n = Len(att[c])
      <4> SUFFICES ASSUME NEW c \in Chunks["v0"], NEW n \in 1 .. Len(att[c]),
                          att[c][n].status = "succeeded"
                   PROVE  n = Len(att[c])
        OBVIOUS
      <4>1. c \in AllChunks /\ Len(att[c]) \in Nat
        BY <2>0, ContractsOfChunks, AttemptRows DEF RowFacts, TypeInv
      <4>2. ~(n < Len(att[c]))
        BY <2>0, <4>1 DEF RowInv, EarlierFailed
      <4> QED  BY <4>1, <4>2
    <3> QED  BY <2>0, <3>1 DEF OneRequest, RowInv, OnceUnderContract
  <2>3. CanaryFirst
    <3>1. /\ Accepted("canary1") <=> Done("canary1")
          /\ Accepted("canary2") <=> Done("canary2")
      BY <2>0, AcceptedIsDone, NamedChunks, ContractsOfChunks
    <3>2. \A c \in AllChunks : att[c] = <<>> <=> Len(att[c]) = 0
      BY <2>0, AttemptRows DEF RowFacts, TypeInv
    <3>3. /\ \A c \in Range(Rest1) : c \in AllChunks
          /\ \A c \in Range(Rest2) : c \in AllChunks
      BY NamedChunks, ContractsOfChunks
    <3> QED  BY <2>0, <3>1, <3>2, <3>3 DEF CanaryFirst, CanaryRows
  <2>4. ReadinessIsExact
    BY <2>0, ReadinessFollows DEF ReadinessIsExact
  <2>5. EvidenceIsGoverned
    <3>1. \A c \in ContractChunks : att[c] = <<>> <=> Len(att[c]) = 0
      BY <2>0, ContractsOfChunks, AttemptRows DEF RowFacts, TypeInv
    <3>2. /\ installed >= 2 => Gov >= 21
          /\ installed >= 3 => Gov >= 22
          /\ installed >= 4 => Gov >= 25
      BY <2>0, GovInstalled
    <3> QED  BY <2>0, <3>1, <3>2 DEF EvidenceIsGoverned, GovernedRows
  <2> QED  BY <2>1, <2>2, <2>3, <2>4, <2>5 DEF RequestsAreGoverned
<1> QED  BY <1>1, AdmissionInvariant, PTL

\* The candles of a chunk, once stored, are never written again
\* (store_ingestion, market_ingestion_run_enforce).
StoredIsFinal ==
  [][\A c \in AllChunks : candles[c] # NoCandles => candles'[c] = candles[c]]_vars
THEOREM StoredStaysFinal == Spec => StoredIsFinal
<1>1. EarnedInv /\ [Next]_vars =>
        [\A c \in AllChunks : candles[c] # NoCandles => candles'[c] = candles[c]]_vars
  <2> SUFFICES ASSUME EarnedInv, [Next]_vars, NEW c \in AllChunks, candles[c] # NoCandles
               PROVE  candles'[c] = candles[c]
    OBVIOUS
  <2>1. TypeInv /\ RowInv /\ Kinds
    BY StepsAreOrderly DEF EarnedInv, Orderly
  <2>2. ASSUME NEW d \in AllChunks, NEW n \in 1 .. Len(att[d]), Succeeds(d, n)
        PROVE  candles'[c] = candles[c]
    <3>1. candles[d] = NoCandles
      BY <2>1, <2>2, RunningIsLast DEF Succeeds
    <3>2. \A e \in AllChunks : e # d => candles'[e] = candles[e]
      BY <2>1, <2>2, SucceedsRows
    <3> QED  BY <3>1, <3>2
  <2>3. ASSUME NEW d \in AllChunks, NEW n \in 1 .. Len(att[d]), Fails(d, n)
        PROVE  candles'[c] = candles[c]
    BY <2>3 DEF Fails
  <2> QED  BY <2>1, <2>2, <2>3, KindsOfSteps DEF RowsStay, Inserts
<1> QED  BY <1>1, EarnedInvariant, PTL DEF StoredIsFinal, Spec
=============================================================================
