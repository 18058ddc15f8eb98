--------------------------- MODULE DiscoveryProofs ---------------------------
(***************************************************************************)
(* Proofs about Discovery, for any chunks of the three plans, any number   *)
(* of runners, any answers of the provider and any number of faults.       *)
(***************************************************************************)
EXTENDS Discovery, FiniteSetTheorems, SequenceTheorems, TLAPS

-----------------------------------------------------------------------------
(* Chunks, plans and migrations.                                           *)

\* A chunk belongs to exactly the plan that PlanOf names.
LEMMA PlansOfChunks ==
  /\ \A c \in AllChunks : PlanOf[c] \in Plans /\ c \in Chunks[PlanOf[c]]
  /\ \A p \in Plans : \A c \in Chunks[p] : c \in AllChunks /\ PlanOf[c] = p
<1>1. AllChunks = UNION {Chunks[p] : p \in Plans}
  BY DEF AllChunks, Range, Chunks, Plans
<1>2. ASSUME NEW c \in AllChunks PROVE PlanOf[c] \in Plans /\ c \in Chunks[PlanOf[c]]
  <2>1. \E p \in Plans : c \in Chunks[p]
    BY <1>1
  <2>2. PlanOf[c] = CHOOSE p \in Plans : c \in Chunks[p]
    BY DEF PlanOf
  <2> QED  BY <2>1, <2>2
<1>3. ASSUME NEW p \in Plans, NEW c \in Chunks[p] PROVE c \in AllChunks /\ PlanOf[c] = p
  <2>1. c \in AllChunks
    BY <1>1
  <2>2. PlanOf[c] \in Plans /\ c \in Chunks[PlanOf[c]]
    BY <1>2, <2>1
  <2> QED  BY <2>1, <2>2, ChunksAssumption
<1> QED  BY <1>2, <1>3

\* The chunks that the rules name.
LEMMA NamedChunks ==
  /\ "canary1" \in Chunks["v1"] /\ "canary2" \in Chunks["v2"] /\ "canary3" \in Chunks["v3"]
  /\ Range(Rest2) \subseteq Chunks["v2"]
  /\ FirstH1 \subseteq Chunks["v3"] /\ Rest3 \subseteq Chunks["v3"]
  /\ Chunks["v3"] = FirstH1 \cup Rest3
  BY DEF Chunks, FirstH1

\* The migrations are installed in order.
LEMMA GovIs ==
  ASSUME NEW i \in 1 .. Len(Migrations)
  PROVE  /\ i \in 1 .. 7
         /\ i = 1 => Migrations[i] = 14
         /\ i = 2 => Migrations[i] = 15
         /\ i = 3 => Migrations[i] = 16
         /\ i = 4 => Migrations[i] = 17
         /\ i = 5 => Migrations[i] = 18
         /\ i = 6 => Migrations[i] = 23
         /\ i = 7 => Migrations[i] = 24
  BY DEF Migrations

-----------------------------------------------------------------------------
(* What the sets of attempts say, row by row.                              *)

Statuses == {"running", "succeeded", "failed"}
RowFacts ==
  /\ \A c \in AllChunks : att[c] \in Seq(Attempt) /\ Len(att[c]) \in Nat
  /\ \A c \in AllChunks : \A n \in 1 .. Len(att[c]) :
       att[c][n] \in Attempt /\ att[c][n].status \in Statuses
  /\ \A c \in AllChunks : Attempted(c) <=> Len(att[c]) # 0
  /\ \A c \in AllChunks, s \in Statuses :
       HasStatus(Attempts(c), s) <=> \E n \in 1 .. Len(att[c]) : att[c][n].status = s
  /\ \A p \in Plans, s \in Statuses :
       HasStatus(PlanAttempts(p), s) <=>
         \E c \in Chunks[p] : \E n \in 1 .. Len(att[c]) : att[c][n].status = s
  /\ \A p \in Plans : (\A a \in PlanAttempts(p) : a.status = "succeeded") <=>
       \A c \in Chunks[p] : \A n \in 1 .. Len(att[c]) : att[c][n].status = "succeeded"
  /\ \A p \in Plans : PlanAttempts(p) = {} <=> \A c \in Chunks[p] : Len(att[c]) = 0

\* The attempts of a chunk, and of a plan, by their numbers.
LEMMA AttemptRows == TypeOK => RowFacts
<1> SUFFICES ASSUME TypeOK PROVE RowFacts
  OBVIOUS
<1>1. \A c \in AllChunks : /\ att[c] \in Seq(Attempt) /\ Len(att[c]) \in Nat
                           /\ DOMAIN att[c] = 1 .. Len(att[c])
  BY DEF TypeOK
<1>2. \A c \in AllChunks : \A n \in 1 .. Len(att[c]) :
        att[c][n] \in Attempt /\ att[c][n].status \in Statuses
  <2> SUFFICES ASSUME NEW c \in AllChunks, NEW n \in 1 .. Len(att[c])
               PROVE  att[c][n] \in Attempt /\ att[c][n].status \in Statuses
    OBVIOUS
  <2>1. att[c][n] \in Attempt
    BY <1>1, ElementOfSeq
  <2> QED  BY <2>1 DEF Attempt, Statuses
<1>3. \A c \in AllChunks : Attempts(c) = {att[c][n] : n \in 1 .. Len(att[c])}
  BY <1>1 DEF Attempts, Range
<1>4. \A c \in AllChunks : Attempted(c) <=> Len(att[c]) # 0
  <2> SUFFICES ASSUME NEW c \in AllChunks PROVE Attempted(c) <=> Len(att[c]) # 0
    OBVIOUS
  <2>1. att[c] = <<>> <=> Len(att[c]) = 0
    BY <1>1, EmptySeq
  <2> QED  BY <2>1 DEF Attempted
<1>5. \A c \in AllChunks : Attempts(c) = {} <=> Len(att[c]) = 0
  <2> SUFFICES ASSUME NEW c \in AllChunks PROVE Attempts(c) = {} <=> Len(att[c]) = 0
    OBVIOUS
  <2>1. Len(att[c]) # 0 => att[c][1] \in Attempts(c)
    <3>1. Len(att[c]) # 0 => 1 \in 1 .. Len(att[c])
      BY <1>1
    <3> QED  BY <3>1, <1>3
  <2>2. Len(att[c]) = 0 => 1 .. Len(att[c]) = {}
    BY <1>1
  <2> QED  BY <2>1, <2>2, <1>3
<1>6. \A p \in Plans : \A c \in Chunks[p] : c \in AllChunks
  BY PlansOfChunks
<1>7. \A p \in Plans : PlanAttempts(p) = {} <=> \A c \in Chunks[p] : Len(att[c]) = 0
  BY <1>5, <1>6 DEF PlanAttempts
<1>8. \A c \in AllChunks, s \in Statuses :
        HasStatus(Attempts(c), s) <=> \E n \in 1 .. Len(att[c]) : att[c][n].status = s
  BY <1>3 DEF HasStatus
<1>9. \A p \in Plans, s \in Statuses :
        HasStatus(PlanAttempts(p), s) <=>
          \E c \in Chunks[p] : \E n \in 1 .. Len(att[c]) : att[c][n].status = s
  BY <1>3, <1>6 DEF HasStatus, PlanAttempts
<1>10. \A p \in Plans : (\A a \in PlanAttempts(p) : a.status = "succeeded") <=>
         \A c \in Chunks[p] : \A n \in 1 .. Len(att[c]) : att[c][n].status = "succeeded"
  BY <1>3, <1>6 DEF PlanAttempts
<1> QED  BY <1>1, <1>2, <1>4, <1>7, <1>8, <1>9, <1>10 DEF RowFacts

LEMMA AttemptRowsNext == TypeOK' => RowFacts'
  BY AttemptRows, PTL

\* A new attempt, and an outcome of one.
LEMMA Appended ==
  ASSUME att \in [AllChunks -> Seq(Attempt)], NEW c \in AllChunks, NEW row \in Attempt,
         att' = [att EXCEPT ![c] = Append(@, row)]
  PROVE  /\ att' \in [AllChunks -> Seq(Attempt)]
         /\ Len(att'[c]) = Len(att[c]) + 1
         /\ att'[c][Len(att[c]) + 1] = row
         /\ \A n \in 1 .. Len(att[c]) : att'[c][n] = att[c][n]
         /\ \A d \in AllChunks : d # c => att'[d] = att[d]
<1>1. att[c] \in Seq(Attempt)
  OBVIOUS
<1>2. att'[c] = Append(att[c], row)
  OBVIOUS
<1>3. /\ Append(att[c], row) \in Seq(Attempt)
      /\ Len(Append(att[c], row)) = Len(att[c]) + 1
      /\ Append(att[c], row)[Len(att[c]) + 1] = row
      /\ \A n \in 1 .. Len(att[c]) : Append(att[c], row)[n] = att[c][n]
  BY <1>1, AppendProperties
<1> QED  BY <1>2, <1>3

LEMMA Settled ==
  ASSUME att \in [AllChunks -> Seq(Attempt)], NEW c \in AllChunks,
         NEW n \in 1 .. Len(att[c]), NEW st \in Statuses, NEW cd \in Codes,
         Terminal(c, n, st, cd)
  PROVE  /\ att' \in [AllChunks -> Seq(Attempt)]
         /\ Len(att'[c]) = Len(att[c])
         /\ att'[c][n] = [status |-> st, code |-> cd]
         /\ \A m \in 1 .. Len(att[c]) : m # n => att'[c][m] = att[c][m]
         /\ \A d \in AllChunks : d # c => att'[d] = att[d]
<1> DEFINE row == [status |-> st, code |-> cd]
<1>1. att[c] \in Seq(Attempt)
  OBVIOUS
<1>2. row \in Attempt /\ row.status = st
  BY DEF Attempt, Statuses
<1> HIDE DEF row
<1>3. att' = [att EXCEPT ![c] = [@ EXCEPT ![n] = row]]
  BY DEF Terminal, row
<1>4. att'[c] = [att[c] EXCEPT ![n] = row]
  BY <1>3
<1>5. /\ [att[c] EXCEPT ![n] = row] \in Seq(Attempt)
      /\ Len([att[c] EXCEPT ![n] = row]) = Len(att[c])
      /\ [att[c] EXCEPT ![n] = row][n] = row
      /\ \A m \in 1 .. Len(att[c]) : m # n => [att[c] EXCEPT ![n] = row][m] = att[c][m]
  BY <1>1, <1>2, ExceptSeq
<1>6. /\ att'[c] \in Seq(Attempt) /\ Len(att'[c]) = Len(att[c])
      /\ att'[c][n] = row
      /\ \A m \in 1 .. Len(att[c]) : m # n => att'[c][m] = att[c][m]
  BY <1>4, <1>5
<1>7. /\ att' \in [AllChunks -> Seq(Attempt)]
      /\ \A d \in AllChunks : d # c => att'[d] = att[d]
  BY <1>3, <1>4, <1>6
<1> QED  BY <1>2, <1>6, <1>7 DEF row

-----------------------------------------------------------------------------
(* Runners.                                                                *)

Working == {"fetching", "fetched"}
Resting == {"idle", "wave"}

\* A runner that has an attempt works on an attempt that exists.
AtWork(x, rows) == x.chunk \in AllChunks /\ x.attempt \in 1 .. Len(rows[x.chunk])
RunnersAtWork == \A r \in Runners : runner[r].pc \in Working => AtWork(runner[r], att)

\* What a runner has checked stays true of its chunk: the lock on the chunk
\* keeps every other runner away until the attempt is inserted.
CheckedAreCurrent ==
  \A r \in Runners : runner[r].pc = "checked" =>
    /\ runner[r].chunk \in AllChunks
    /\ PlanOf[runner[r].chunk] \in plans
    /\ runner[r].attempt = Len(att[runner[r].chunk]) + 1
    /\ \A q \in Runners : q # r /\ runner[q].pc = "checked" => runner[q].chunk # runner[r].chunk

TypeInv == TypeOK /\ RunnersAtWork /\ CheckedAreCurrent

\* The records of runners.
LEMMA RunnerRecords ==
  /\ Idle \in Runner /\ Idle.pc = "idle"
  /\ InWave \in Runner /\ InWave.pc = "wave"
  /\ \A x \in Runner :
       /\ Fetching(x) \in Runner /\ Fetching(x).pc = "fetching"
       /\ Fetching(x).chunk = x.chunk /\ Fetching(x).attempt = x.attempt
  /\ \A x \in Runner, a \in Exceptions \cup Responses :
       /\ Fetched(x, a) \in Runner /\ Fetched(x, a).pc = "fetched"
       /\ Fetched(x, a).chunk = x.chunk /\ Fetched(x, a).attempt = x.attempt
  /\ \A c \in AllChunks, n \in Nat, w \in BOOLEAN :
       [pc |-> "checked", chunk |-> c, attempt |-> n, answer |-> "", wave |-> w] \in Runner
<1>1. Idle \in Runner /\ Idle.pc = "idle"
  BY DEF Idle, Runner
<1>2. InWave \in Runner /\ InWave.pc = "wave"
  BY DEF InWave, Runner
<1>3. ASSUME NEW x \in Runner
      PROVE  /\ Fetching(x) \in Runner /\ Fetching(x).pc = "fetching"
             /\ Fetching(x).chunk = x.chunk /\ Fetching(x).attempt = x.attempt
  <2>1. x.chunk \in AllChunks \cup {""} /\ x.attempt \in Nat /\ x.wave \in BOOLEAN
    BY DEF Runner
  <2> QED  BY <2>1 DEF Fetching, Runner
<1>4. ASSUME NEW x \in Runner, NEW a \in Exceptions \cup Responses
      PROVE  /\ Fetched(x, a) \in Runner /\ Fetched(x, a).pc = "fetched"
             /\ Fetched(x, a).chunk = x.chunk /\ Fetched(x, a).attempt = x.attempt
  <2>1. x.chunk \in AllChunks \cup {""} /\ x.attempt \in Nat /\ x.wave \in BOOLEAN
    BY DEF Runner
  <2> QED  BY <2>1 DEF Fetched, Runner
<1>5. ASSUME NEW c \in AllChunks, NEW n \in Nat, NEW w \in BOOLEAN
      PROVE  [pc |-> "checked", chunk |-> c, attempt |-> n, answer |-> "", wave |-> w] \in Runner
  BY DEF Runner
<1> QED  BY <1>1, <1>2, <1>3, <1>4, <1>5

LEMMA SetRunner ==
  ASSUME runner \in [Runners -> Runner], NEW r \in Runners, NEW x \in Runner, Set(r, x)
  PROVE  /\ runner' \in [Runners -> Runner]
         /\ runner'[r] = x
         /\ \A q \in Runners : q # r => runner'[q] = runner[q]
  BY DEF Set

\* Runners stay what they were, rest, or work on attempts that exist.
LEMMA WorkersKeep ==
  ASSUME TypeInv, TypeOK', plans \subseteq plans',
         \A c \in AllChunks : Len(att'[c]) >= Len(att[c]),
         \A q \in Runners : \/ runner'[q] = runner[q]
                            \/ runner'[q].pc \in Resting
                            \/ runner'[q].pc \in Working /\ AtWork(runner'[q], att'),
         \A q \in Runners : runner'[q].pc = "checked" =>
           Len(att'[runner'[q].chunk]) = Len(att[runner'[q].chunk])
  PROVE  TypeInv'
<1>1. \A c \in AllChunks : Len(att[c]) \in Nat /\ Len(att'[c]) \in Nat
  BY AttemptRows, AttemptRowsNext DEF RowFacts, TypeInv
<1>2. RunnersAtWork'
  <2> SUFFICES ASSUME NEW r \in Runners, runner'[r].pc \in Working
               PROVE  AtWork(runner'[r], att')
    BY DEF RunnersAtWork
  <2>1. CASE runner'[r] = runner[r]
    <3>1. runner[r].chunk \in AllChunks /\ runner[r].attempt \in 1 .. Len(att[runner[r].chunk])
      BY <2>1 DEF TypeInv, RunnersAtWork, AtWork
    <3>2. runner[r].attempt \in 1 .. Len(att'[runner[r].chunk])
      BY <3>1, <1>1
    <3> QED  BY <2>1, <3>1, <3>2 DEF AtWork
  <2>2. CASE runner'[r].pc \in Resting
    BY <2>2 DEF Working, Resting
  <2>3. CASE AtWork(runner'[r], att')
    BY <2>3
  <2> QED  BY <2>1, <2>2, <2>3
<1>3. CheckedAreCurrent'
  <2>1. \A q \in Runners : runner'[q].pc = "checked" => runner'[q] = runner[q]
    BY DEF Working, Resting
  <2> QED  BY <2>1 DEF TypeInv, CheckedAreCurrent
<1> QED  BY <1>2, <1>3 DEF TypeInv

-----------------------------------------------------------------------------
(* The kinds of steps that change attempts.                                *)

Others == UNCHANGED <<installed, plans, superseded, sealed, early>>

\* An attempt of chunk c is inserted.
Inserts(r) ==
  LET c == runner[r].chunk IN
  /\ r \in Runners /\ runner[r].pc = "checked"
  /\ TriggersAdmit(c, runner[r].attempt)
  /\ att' = [att EXCEPT ![c] = Append(@, [status |-> "running", code |-> ""])]
  /\ UNCHANGED inv /\ Others

\* Running attempt n of chunk c fails, or succeeds with an inventory.
Fails(c, n) ==
  /\ c \in AllChunks /\ n \in 1 .. Len(att[c]) /\ att[c][n].status = "running"
  /\ \E code \in Codes : Terminal(c, n, "failed", code)
  /\ UNCHANGED inv /\ Others
Succeeds(c, n) ==
  /\ c \in AllChunks /\ n \in 1 .. Len(att[c]) /\ att[c][n].status = "running"
  /\ Terminal(c, n, "succeeded", "")
  /\ \E k \in Contents : inv' = [inv EXCEPT ![c] = [attempt |-> n, content |-> k]]
  /\ Others

\* What these steps do to the rows.
LEMMA InsertsRows ==
  ASSUME TypeInv, NEW r, Inserts(r)
  PROVE  LET c == runner[r].chunk IN
         /\ c \in AllChunks /\ PlanOf[c] \in plans
         /\ runner[r].attempt = Len(att[c]) + 1
         /\ att' \in [AllChunks -> Seq(Attempt)]
         /\ Len(att'[c]) = Len(att[c]) + 1
         /\ att'[c][Len(att[c]) + 1] = [status |-> "running", code |-> ""]
         /\ \A n \in 1 .. Len(att[c]) : att'[c][n] = att[c][n]
         /\ \A d \in AllChunks : d # c => att'[d] = att[d]
<1>1. /\ runner[r].chunk \in AllChunks /\ PlanOf[runner[r].chunk] \in plans
      /\ runner[r].attempt = Len(att[runner[r].chunk]) + 1
  BY DEF TypeInv, CheckedAreCurrent, Inserts
<1>2. att \in [AllChunks -> Seq(Attempt)]
  BY DEF TypeInv, TypeOK
<1>3. [status |-> "running", code |-> ""] \in Attempt
  BY DEF Attempt, Codes
<1>4. att' = [att EXCEPT ![runner[r].chunk] = Append(@, [status |-> "running", code |-> ""])]
  BY DEF Inserts
<1> DEFINE c == runner[r].chunk
           row == [status |-> "running", code |-> ""]
<1>5. c \in AllChunks /\ row \in Attempt /\ att' = [att EXCEPT ![c] = Append(@, row)]
  BY <1>1, <1>3, <1>4
<1> HIDE DEF row
<1>6. /\ att' \in [AllChunks -> Seq(Attempt)]
      /\ Len(att'[c]) = Len(att[c]) + 1
      /\ att'[c][Len(att[c]) + 1] = row
      /\ \A n \in 1 .. Len(att[c]) : att'[c][n] = att[c][n]
      /\ \A d \in AllChunks : d # c => att'[d] = att[d]
  <2> HIDE DEF c
  <2> QED  BY <1>2, <1>5, Appended
<1> QED  BY <1>1, <1>6 DEF row

LEMMA FailsRows ==
  ASSUME TypeInv, NEW c, NEW n, Fails(c, n)
  PROVE  /\ att' \in [AllChunks -> Seq(Attempt)]
         /\ Len(att'[c]) = Len(att[c])
         /\ att'[c][n].status = "failed"
         /\ \A m \in 1 .. Len(att[c]) : m # n => att'[c][m] = att[c][m]
         /\ \A d \in AllChunks : d # c => att'[d] = att[d]
<1>1. c \in AllChunks /\ n \in 1 .. Len(att[c])
  BY DEF Fails
<1>2. PICK code \in Codes : Terminal(c, n, "failed", code)
  BY DEF Fails
<1>3. att \in [AllChunks -> Seq(Attempt)] /\ "failed" \in Statuses
  BY DEF TypeInv, TypeOK, Statuses
<1>4. n \in 1 .. Len(att[c]) /\ "failed" \in Statuses /\ code \in Codes
  BY <1>1, <1>2, <1>3
<1> QED
  <2>1. att' \in [AllChunks -> Seq(Attempt)]
    BY <1>1, <1>2, <1>3, <1>4, Settled
  <2>2. Len(att'[c]) = Len(att[c])
    BY <1>1, <1>2, <1>3, <1>4, Settled
  <2>3. att'[c][n].status = "failed"
    <3>1. att'[c][n] = [status |-> "failed", code |-> code]
      BY <1>1, <1>2, <1>3, <1>4, Settled
    <3> QED  BY <3>1
  <2>4. \A m \in 1 .. Len(att[c]) : m # n => att'[c][m] = att[c][m]
    BY <1>1, <1>2, <1>3, <1>4, Settled
  <2>5. \A d \in AllChunks : d # c => att'[d] = att[d]
    BY <1>1, <1>2, <1>3, <1>4, Settled
  <2> QED  BY <2>1, <2>2, <2>3, <2>4, <2>5

LEMMA SucceedsRows ==
  ASSUME TypeInv, NEW c, NEW n, Succeeds(c, n)
  PROVE  /\ att' \in [AllChunks -> Seq(Attempt)]
         /\ Len(att'[c]) = Len(att[c])
         /\ att'[c][n].status = "succeeded"
         /\ \A m \in 1 .. Len(att[c]) : m # n => att'[c][m] = att[c][m]
         /\ \A d \in AllChunks : d # c => att'[d] = att[d]
         /\ inv' \in [AllChunks -> Inventory]
         /\ inv'[c].attempt = n /\ inv'[c].content \in Contents
         /\ \A d \in AllChunks : d # c => inv'[d] = inv[d]
<1>1. c \in AllChunks /\ n \in 1 .. Len(att[c])
  BY DEF Succeeds
<1>2. Terminal(c, n, "succeeded", "")
  BY DEF Succeeds
<1>3. /\ att \in [AllChunks -> Seq(Attempt)] /\ inv \in [AllChunks -> Inventory]
      /\ "succeeded" \in Statuses /\ "" \in Codes
  BY DEF TypeInv, TypeOK, Statuses, Codes
<1>4. PICK k \in Contents : inv' = [inv EXCEPT ![c] = [attempt |-> n, content |-> k]]
  BY DEF Succeeds
<1>5. Len(att[c]) \in Nat
  BY <1>1, AttemptRows DEF RowFacts, TypeInv
<1>6. [attempt |-> n, content |-> k] \in Inventory
  <2>1. n \in Nat
    BY <1>1, <1>5
  <2>2. k \in Contents \cup {""}
    OBVIOUS
  <2> QED  BY <2>1, <2>2 DEF Inventory
<1>7. /\ inv' \in [AllChunks -> Inventory]
      /\ inv'[c] = [attempt |-> n, content |-> k]
      /\ \A d \in AllChunks : d # c => inv'[d] = inv[d]
  BY <1>1, <1>3, <1>4, <1>6
<1>8. inv'[c].attempt = n /\ inv'[c].content \in Contents
  BY <1>7
<1>9. /\ att' \in [AllChunks -> Seq(Attempt)]
      /\ Len(att'[c]) = Len(att[c])
      /\ \A m \in 1 .. Len(att[c]) : m # n => att'[c][m] = att[c][m]
      /\ \A d \in AllChunks : d # c => att'[d] = att[d]
  BY <1>1, <1>2, <1>3, Settled
<1>10. att'[c][n].status = "succeeded"
  <2>1. att'[c][n] = [status |-> "succeeded", code |-> ""]
    BY <1>1, <1>2, <1>3, Settled
  <2>2. [status |-> "succeeded", code |-> ""].status = "succeeded"
    OBVIOUS
  <2> QED  BY <2>1, <2>2, Zenon
<1> QED  BY <1>7, <1>8, <1>9, <1>10

\* A runner that has passed the checks since: for a chunk of its own, with the
\* service's consent, and no attempt was inserted.
CheckedFrame ==
  \A q \in Runners : runner'[q].pc = "checked" =>
    /\ Len(att'[runner'[q].chunk]) = Len(att[runner'[q].chunk])
    /\ runner'[q] = runner[q] \/ ServiceAdmits(runner'[q].chunk)

RowsStay == UNCHANGED <<att, inv>>
Kinds ==
  \/ RowsStay /\ Others
  \/ RowsStay /\ \E p \in Plans : CreatePlan(p) \/ ApproveAndRegister(p)
  \/ RowsStay /\ (Supersede \/ Migrate \/ Reverse)
  \/ \E r \in Runners : Inserts(r)
  \/ \E c \in AllChunks : \E n \in 1 .. Len(att[c]) : Fails(c, n) \/ Succeeds(c, n)

Orderly == TypeInv' /\ CheckedFrame /\ Kinds

\* Steps that leave the rows and the runners alone.
LEMMA PlanSteps ==
  ASSUME TypeInv, TypeOK', plans \subseteq plans', UNCHANGED <<att, inv, runner>>, Kinds
  PROVE  Orderly
<1>1. CheckedFrame
  BY DEF CheckedFrame
<1>2. \A c \in AllChunks : Len(att[c]) \in Nat
  BY AttemptRows DEF RowFacts, TypeInv
<1>3. \A c \in AllChunks : Len(att'[c]) >= Len(att[c])
  BY <1>2
<1>4. TypeInv'
  BY <1>3, WorkersKeep
<1> QED  BY <1>1, <1>4 DEF Orderly

\* A runner rests and the rows stay what they are.
LEMMA RestSteps ==
  ASSUME TypeInv, NEW r \in Runners, NEW x \in {Idle, InWave}, Set(r, x),
         RowsStay, Others, faults' \in 0 .. MaxFaults
  PROVE  Orderly
<1>1. x \in Runner /\ x.pc \in Resting /\ x.pc # "checked"
  BY RunnerRecords DEF Resting
<1>2. /\ runner' \in [Runners -> Runner] /\ runner'[r] = x
      /\ \A q \in Runners : q # r => runner'[q] = runner[q]
  BY <1>1, SetRunner DEF TypeInv, TypeOK
<1>3. TypeOK'
  BY <1>2 DEF TypeInv, TypeOK, RowsStay, Others
<1>4. \A q \in Runners : runner'[q] = runner[q] \/ runner'[q].pc \in Resting
  BY <1>1, <1>2
<1>5. \A q \in Runners : runner'[q].pc = "checked" => runner'[q] = runner[q]
  BY <1>1, <1>2
<1>6. CheckedFrame
  BY <1>5 DEF CheckedFrame, RowsStay
<1>7. \A c \in AllChunks : Len(att[c]) \in Nat
  BY AttemptRows DEF RowFacts, TypeInv
<1>8. /\ \A c \in AllChunks : Len(att'[c]) >= Len(att[c])
      /\ \A q \in Runners : runner'[q].pc = "checked" =>
           Len(att'[runner'[q].chunk]) = Len(att[runner'[q].chunk])
      /\ plans \subseteq plans'
  BY <1>7 DEF RowsStay, Others
<1>9. TypeInv'
  BY <1>3, <1>4, <1>8, WorkersKeep
<1>10. Kinds
  BY DEF Kinds
<1> QED  BY <1>6, <1>9, <1>10 DEF Orderly

\* A runner records an outcome, or an operator resolves an attempt as stale.
LEMMA OutcomeSteps ==
  ASSUME TypeInv, NEW c \in AllChunks, NEW n \in 1 .. Len(att[c]), Fails(c, n) \/ Succeeds(c, n),
         runner' \in [Runners -> Runner], faults' \in 0 .. MaxFaults,
         \A q \in Runners : runner'[q] = runner[q] \/ runner'[q].pc \in Resting
  PROVE  Orderly
<1>1. /\ att' \in [AllChunks -> Seq(Attempt)] /\ inv' \in [AllChunks -> Inventory]
      /\ Len(att'[c]) = Len(att[c])
      /\ \A d \in AllChunks : d # c => att'[d] = att[d]
  <2>1. CASE Fails(c, n)
    <3>1. inv' = inv
      BY <2>1 DEF Fails
    <3> QED  BY <2>1, <3>1, FailsRows DEF TypeInv, TypeOK
  <2>2. CASE Succeeds(c, n)
    BY <2>2, SucceedsRows
  <2> QED  BY <2>1, <2>2
<1>2. Others
  BY DEF Fails, Succeeds
<1>3. TypeOK'
  BY <1>1, <1>2 DEF TypeInv, TypeOK, Others
<1>4. \A d \in AllChunks : Len(att[d]) \in Nat /\ Len(att'[d]) = Len(att[d])
  BY <1>1, AttemptRows DEF RowFacts, TypeInv
<1>5. \A q \in Runners : runner'[q].pc = "checked" => runner'[q] = runner[q]
  BY DEF Resting
<1>6. \A q \in Runners : runner'[q].pc = "checked" => runner'[q].chunk \in AllChunks
  BY <1>5 DEF TypeInv, CheckedAreCurrent
<1>7. CheckedFrame
  BY <1>4, <1>5, <1>6 DEF CheckedFrame
<1>8. /\ \A d \in AllChunks : Len(att'[d]) >= Len(att[d])
      /\ \A q \in Runners : runner'[q].pc = "checked" =>
           Len(att'[runner'[q].chunk]) = Len(att[runner'[q].chunk])
      /\ plans \subseteq plans'
  BY <1>2, <1>4, <1>6 DEF Others
<1>9. TypeInv'
  BY <1>3, <1>8, WorkersKeep
<1>10. Kinds
  BY DEF Kinds
<1> QED  BY <1>7, <1>9, <1>10 DEF Orderly

\* begin_discovery_attempt passes its checks.
LEMMA CheckSteps ==
  ASSUME TypeInv, NEW r \in Runners, NEW c \in AllChunks, NEW w \in BOOLEAN,
         runner[r].pc \in Resting, CheckChunk(r, c, w)
  PROVE  Orderly
<1> DEFINE x == [pc |-> "checked", chunk |-> c, attempt |-> Len(att[c]) + 1,
                 answer |-> "", wave |-> w]
<1>1. /\ \A d \in AllChunks : Len(att[d]) \in Nat
      /\ Len(att[c]) + 1 \in Nat
  <2>1. \A d \in AllChunks : Len(att[d]) \in Nat
    BY AttemptRows DEF RowFacts, TypeInv
  <2> QED  BY <2>1
<1>2. /\ x \in Runner /\ x.pc = "checked" /\ x.chunk = c /\ x.attempt = Len(att[c]) + 1
  BY <1>1, RunnerRecords
<1>3. Set(r, x)
  BY DEF CheckChunk
<1>4. RowsStay /\ Others /\ faults' = faults /\ ServiceAdmits(c) /\ ~Locked(c)
  BY DEF CheckChunk, RowsStay, Others
<1> HIDE DEF x
<1>5. /\ runner' \in [Runners -> Runner] /\ runner'[r] = x
      /\ \A q \in Runners : q # r => runner'[q] = runner[q]
  BY <1>2, <1>3, SetRunner DEF TypeInv, TypeOK
<1>6. TypeOK'
  BY <1>4, <1>5 DEF TypeInv, TypeOK, RowsStay, Others
<1>7. CheckedFrame
  <2>1. runner'[r].chunk = c
    BY <1>2, <1>5
  <2> QED  BY <1>4, <1>5, <2>1 DEF CheckedFrame, RowsStay
<1>8. RunnersAtWork'
  <2> SUFFICES ASSUME NEW q \in Runners, runner'[q].pc \in Working
               PROVE  AtWork(runner'[q], att')
    BY DEF RunnersAtWork
  <2>1. q # r
    BY <1>2, <1>5 DEF Working
  <2>2. runner'[q] = runner[q]
    BY <2>1, <1>5
  <2> QED  BY <1>4, <2>2 DEF TypeInv, RunnersAtWork, AtWork, RowsStay
<1>9. CheckedAreCurrent'
  <2>1. PlanOf[c] \in plans
    BY <1>4 DEF ServiceAdmits
  <2>2. \A q \in Runners : runner[q].pc = "checked" => runner[q].chunk # c
    BY <1>4 DEF Locked
  <2>3. \A q \in Runners : q # r /\ runner'[q].pc = "checked" =>
          runner[q].pc = "checked" /\ runner'[q] = runner[q] /\ runner[q].chunk # c
    BY <1>5, <2>2
  <2>4. runner'[r].chunk = c /\ runner'[r].attempt = Len(att[c]) + 1
    BY <1>2, <1>5
  <2>5. att' = att /\ plans' = plans
    BY <1>4 DEF RowsStay, Others
  <2> SUFFICES ASSUME NEW q \in Runners, runner'[q].pc = "checked"
               PROVE  /\ runner'[q].chunk \in AllChunks
                      /\ PlanOf[runner'[q].chunk] \in plans'
                      /\ runner'[q].attempt = Len(att'[runner'[q].chunk]) + 1
                      /\ \A s \in Runners : s # q /\ runner'[s].pc = "checked" =>
                           runner'[s].chunk # runner'[q].chunk
    BY DEF CheckedAreCurrent
  <2>6. CASE q = r
    BY <2>1, <2>3, <2>4, <2>5, <2>6
  <2>7. CASE q # r
    <3>1. /\ runner[q].chunk \in AllChunks /\ PlanOf[runner[q].chunk] \in plans
          /\ runner[q].attempt = Len(att[runner[q].chunk]) + 1
          /\ \A s \in Runners : s # q /\ runner[s].pc = "checked" => runner[s].chunk # runner[q].chunk
      BY <2>3, <2>7 DEF TypeInv, CheckedAreCurrent
    <3>2. runner'[q] = runner[q] /\ runner[q].chunk # c
      BY <2>3, <2>7
    <3>3. \A s \in Runners : s # q /\ runner'[s].pc = "checked" => runner'[s].chunk # runner[q].chunk
      BY <2>3, <2>4, <3>1, <3>2
    <3> QED  BY <2>5, <3>1, <3>2, <3>3
  <2> QED  BY <2>6, <2>7
<1>10. Kinds
  BY <1>4 DEF Kinds
<1> QED  BY <1>6, <1>7, <1>8, <1>9, <1>10 DEF Orderly, TypeInv

\* The attempt is inserted by the one runner that has checked its chunk.
LEMMA InsertSteps ==
  ASSUME TypeInv, NEW r \in Runners, InsertAttempt(r)
  PROVE  Orderly
<1> DEFINE c == runner[r].chunk
           x == Fetching(runner[r])
<1>1. Inserts(r) /\ Set(r, x) /\ faults' = faults
  BY DEF InsertAttempt, Inserts, Others
<1>2. /\ c \in AllChunks
      /\ runner[r].attempt = Len(att[c]) + 1
      /\ att' \in [AllChunks -> Seq(Attempt)]
      /\ Len(att'[c]) = Len(att[c]) + 1
      /\ \A d \in AllChunks : d # c => att'[d] = att[d]
  BY <1>1, InsertsRows
<1>3. runner \in [Runners -> Runner]
  BY DEF TypeInv, TypeOK
<1>4. x \in Runner /\ x.pc = "fetching" /\ x.chunk = c /\ x.attempt = runner[r].attempt
  BY <1>3, RunnerRecords
<1> HIDE DEF x
<1>5. /\ runner' \in [Runners -> Runner] /\ runner'[r] = x
      /\ \A q \in Runners : q # r => runner'[q] = runner[q]
  BY <1>1, <1>3, <1>4, SetRunner
<1>6. Others /\ inv' = inv
  BY <1>1 DEF Inserts
<1>7. TypeOK'
  BY <1>1, <1>2, <1>5, <1>6 DEF TypeInv, TypeOK, Others
<1>8. \A d \in AllChunks : Len(att[d]) \in Nat
  BY AttemptRows DEF RowFacts, TypeInv
<1>9. runner'[r].pc = "fetching" /\ AtWork(runner'[r], att')
  <2>1. runner[r].attempt \in 1 .. Len(att'[c])
    BY <1>2, <1>8
  <2> QED  BY <1>2, <1>4, <1>5, <2>1 DEF AtWork
<1>10. \A q \in Runners : runner'[q].pc = "checked" =>
         /\ q # r /\ runner'[q] = runner[q]
         /\ runner'[q].chunk \in AllChunks /\ runner'[q].chunk # c
  <2> SUFFICES ASSUME NEW q \in Runners, runner'[q].pc = "checked"
               PROVE  /\ q # r /\ runner'[q] = runner[q]
                      /\ runner'[q].chunk \in AllChunks /\ runner'[q].chunk # c
    OBVIOUS
  <2>1. q # r
    BY <1>9
  <2>2. runner'[q] = runner[q]
    BY <1>5, <2>1
  <2>3. runner[r].pc = "checked"
    BY <1>1 DEF Inserts
  <2> QED  BY <2>1, <2>2, <2>3 DEF TypeInv, CheckedAreCurrent
<1>11. \A q \in Runners : runner'[q].pc = "checked" =>
         Len(att'[runner'[q].chunk]) = Len(att[runner'[q].chunk])
  BY <1>2, <1>10
<1>12. CheckedFrame
  BY <1>10, <1>11 DEF CheckedFrame
<1>13. \A d \in AllChunks : Len(att'[d]) >= Len(att[d])
  BY <1>2, <1>8
<1>14. \A q \in Runners : \/ runner'[q] = runner[q]
                          \/ runner'[q].pc \in Working /\ AtWork(runner'[q], att')
  BY <1>5, <1>9 DEF Working
<1>15. plans \subseteq plans'
  BY <1>6 DEF Others
<1>16. TypeInv'
  BY <1>7, <1>11, <1>13, <1>14, <1>15, WorkersKeep
<1>17. Kinds
  BY <1>1 DEF Kinds
<1> QED  BY <1>12, <1>16, <1>17 DEF Orderly

\* The provider answers.
LEMMA FetchSteps ==
  ASSUME TypeInv, NEW r \in Runners, Fetch(r)
  PROVE  Orderly
<1>1. PICK a \in Answer[runner[r].chunk] : Set(r, Fetched(runner[r], a))
  BY DEF Fetch
<1>2. runner[r].chunk \in AllChunks /\ runner[r].attempt \in 1 .. Len(att[runner[r].chunk])
  BY DEF Fetch, TypeInv, RunnersAtWork, AtWork, Working
<1>3. a \in Exceptions \cup Responses
  BY <1>2, AnswerAssumption
<1> DEFINE x == Fetched(runner[r], a)
<1>4. runner \in [Runners -> Runner]
  BY DEF TypeInv, TypeOK
<1>5. /\ x \in Runner /\ x.pc = "fetched"
      /\ x.chunk = runner[r].chunk /\ x.attempt = runner[r].attempt
  BY <1>3, <1>4, RunnerRecords
<1>6. Set(r, x)
  BY <1>1
<1> HIDE DEF x
<1>7. /\ runner' \in [Runners -> Runner] /\ runner'[r] = x
      /\ \A q \in Runners : q # r => runner'[q] = runner[q]
  BY <1>4, <1>5, <1>6, SetRunner
<1>8. RowsStay /\ Others /\ faults' = faults
  BY DEF Fetch, RowsStay, Others
<1>9. TypeOK'
  BY <1>7, <1>8 DEF TypeInv, TypeOK, RowsStay, Others
<1>10. AtWork(runner'[r], att') /\ runner'[r].pc = "fetched"
  BY <1>2, <1>5, <1>7, <1>8 DEF AtWork, RowsStay
<1>11. \A q \in Runners : \/ runner'[q] = runner[q]
                          \/ runner'[q].pc \in Working /\ AtWork(runner'[q], att')
  BY <1>7, <1>10 DEF Working
<1>12. \A q \in Runners : runner'[q].pc = "checked" => runner'[q] = runner[q]
  BY <1>7, <1>10
<1>13. CheckedFrame
  BY <1>8, <1>12 DEF CheckedFrame, RowsStay
<1>14. \A c \in AllChunks : Len(att[c]) \in Nat
  BY AttemptRows DEF RowFacts, TypeInv
<1>15. /\ \A c \in AllChunks : Len(att'[c]) >= Len(att[c])
       /\ \A q \in Runners : runner'[q].pc = "checked" =>
            Len(att'[runner'[q].chunk]) = Len(att[runner'[q].chunk])
       /\ plans \subseteq plans'
  BY <1>8, <1>14 DEF RowsStay, Others
<1>16. TypeInv'
  BY <1>9, <1>11, <1>15, WorkersKeep
<1>17. Kinds
  BY <1>8 DEF Kinds
<1> QED  BY <1>13, <1>16, <1>17 DEF Orderly

LEMMA StepsAreOrderly ==
  ASSUME TypeInv, [Next]_vars
  PROVE  Orderly
<1> USE DEF TypeInv, TypeOK
<1>0. /\ plans \subseteq Plans /\ sealed \subseteq plans /\ installed \in 1 .. Len(Migrations)
      /\ faults \in 0 .. MaxFaults /\ MaxFaults \in Nat /\ Len(Migrations) = 7
      /\ \A r \in Runners : runner[r].wave \in BOOLEAN
  BY BoundsAssumption DEF Migrations, Runner
<1>1. ASSUME NEW p \in Plans, CreatePlan(p) PROVE Orderly
  <2>1. TypeOK'
    BY <1>0, <1>1 DEF CreatePlan
  <2>2. Kinds
    BY <1>1 DEF CreatePlan, Kinds, RowsStay
  <2> QED  BY <1>1, <2>1, <2>2, PlanSteps DEF CreatePlan
<1>2. ASSUME NEW p \in Plans, ApproveAndRegister(p) PROVE Orderly
  <2>1. TypeOK'
    BY <1>0, <1>2 DEF ApproveAndRegister, ApproveAdmitted
  <2>2. Kinds
    BY <1>2 DEF ApproveAndRegister, Kinds, RowsStay
  <2> QED  BY <1>2, <2>1, <2>2, PlanSteps DEF ApproveAndRegister
<1>3. CASE Supersede
  <2>1. TypeOK'
    BY <1>0, <1>3 DEF Supersede
  <2>2. Kinds
    BY <1>3 DEF Supersede, Kinds, RowsStay
  <2> QED  BY <1>3, <2>1, <2>2, PlanSteps DEF Supersede
<1>4. CASE Migrate
  <2>1. TypeOK'
    BY <1>0, <1>4 DEF Migrate
  <2>2. Kinds
    BY <1>4 DEF Migrate, Kinds, RowsStay
  <2> QED  BY <1>4, <2>1, <2>2, PlanSteps DEF Migrate
<1>5. CASE Reverse
  <2>1. TypeOK'
    BY <1>0, <1>5 DEF Reverse
  <2>2. Kinds
    BY <1>5 DEF Reverse, Kinds, RowsStay
  <2> QED  BY <1>5, <2>1, <2>2, PlanSteps DEF Reverse
<1>6. ASSUME NEW c \in AllChunks, ResolveStale(c) PROVE Orderly
  <2>1. PICK n \in 1 .. Len(att[c]) :
          att[c][n].status = "running" /\ Terminal(c, n, "failed", "STALE_ATTEMPT")
    BY <1>6 DEF ResolveStale
  <2>2. Fails(c, n)
    BY <1>6, <2>1 DEF ResolveStale, Fails, Others, Codes
  <2>3. faults' \in 0 .. MaxFaults /\ runner' = runner
    BY <1>0, <1>6 DEF ResolveStale, Fault
  <2> QED  BY <2>2, <2>3, OutcomeSteps
<1>7. ASSUME NEW r \in Runners, NEW c \in AllChunks, Discover(r, c) PROVE Orderly
  BY <1>7, CheckSteps DEF Discover, Resting
<1>8. ASSUME NEW r \in Runners, StartWave(r) PROVE Orderly
  BY <1>0, <1>8, RestSteps DEF StartWave, RowsStay, Others
<1>9. ASSUME NEW r \in Runners, WaveChunk(r) PROVE Orderly
  <2>1. PICK c \in WaveNext : CheckChunk(r, c, TRUE)
    BY <1>9 DEF WaveChunk
  <2>2. c \in AllChunks
    <3>1. PICK i \in 1 .. Len(Rest2) : c = Rest2[i]
      BY DEF WaveNext
    <3>2. DOMAIN Rest2 = 1 .. Len(Rest2)
      BY ChunksAssumption
    <3>3. c \in Range(Rest2)
      BY <3>1, <3>2 DEF Range
    <3>4. c \in Chunks["v2"] /\ "v2" \in Plans
      BY <3>3, NamedChunks DEF Plans
    <3> QED  BY <3>4, PlansOfChunks
  <2> QED  BY <1>9, <2>1, <2>2, CheckSteps DEF WaveChunk, Resting
<1>10. ASSUME NEW r \in Runners, WaveEnds(r) PROVE Orderly
  BY <1>0, <1>10, RestSteps DEF WaveEnds, RowsStay, Others
<1>11. ASSUME NEW r \in Runners, InsertAttempt(r) PROVE Orderly
  BY <1>11, InsertSteps
<1>12. ASSUME NEW r \in Runners, InsertRefused(r) PROVE Orderly
  BY <1>0, <1>12, RestSteps DEF InsertRefused, RowsStay, Others
<1>13. ASSUME NEW r \in Runners, Fetch(r) PROVE Orderly
  BY <1>13, FetchSteps
<1>14. ASSUME NEW r \in Runners, runner[r].pc = "fetched"
       PROVE  runner[r].chunk \in AllChunks /\ runner[r].attempt \in 1 .. Len(att[runner[r].chunk])
  BY <1>14 DEF RunnersAtWork, AtWork, Working
<1>15. ASSUME NEW r \in Runners, NEW x \in {Idle, InWave}, Set(r, x)
       PROVE  /\ runner' \in [Runners -> Runner]
              /\ \A q \in Runners : runner'[q] = runner[q] \/ runner'[q].pc \in Resting
  <2>1. x \in Runner /\ x.pc \in Resting
    BY RunnerRecords DEF Resting
  <2> QED  BY <1>15, <2>1, SetRunner
<1>16. ASSUME NEW r \in Runners, RecordFailure(r) PROVE Orderly
  <2>1. FailureCode(runner[r].answer) \in Codes
    BY DEF FailureCode, Codes
  <2>2. Fails(runner[r].chunk, runner[r].attempt)
    BY <1>14, <1>16, <2>1 DEF RecordFailure, Fails, StillRunning, MyRun, Others
  <2>3. faults' \in 0 .. MaxFaults /\ Set(r, Idle)
    BY <1>0, <1>16 DEF RecordFailure
  <2>4. /\ runner' \in [Runners -> Runner]
        /\ \A q \in Runners : runner'[q] = runner[q] \/ runner'[q].pc \in Resting
    BY <1>15, <2>3
  <2>5. runner[r].pc = "fetched"
    BY <1>16 DEF RecordFailure
  <2> QED  BY <1>14, <2>2, <2>3, <2>4, <2>5, OutcomeSteps
<1>17. ASSUME NEW r \in Runners, RecordSuccess(r) PROVE Orderly
  <2>1. Content(runner[r].answer) \in Contents
    BY DEF Content, Contents
  <2>2. Succeeds(runner[r].chunk, runner[r].attempt)
    BY <1>14, <1>17, <2>1 DEF RecordSuccess, Succeeds, StillRunning, MyRun, Others
  <2>3. faults' \in 0 .. MaxFaults /\ \E x \in {Idle, InWave} : Set(r, x)
    BY <1>0, <1>17 DEF RecordSuccess
  <2>4. /\ runner' \in [Runners -> Runner]
        /\ \A q \in Runners : runner'[q] = runner[q] \/ runner'[q].pc \in Resting
    BY <1>15, <2>3
  <2>5. runner[r].pc = "fetched"
    BY <1>17 DEF RecordSuccess
  <2> QED  BY <1>14, <2>2, <2>3, <2>4, <2>5, OutcomeSteps
<1>18. ASSUME NEW r \in Runners, LateOutcome(r) PROVE Orderly
  BY <1>0, <1>18, RestSteps DEF LateOutcome, RowsStay, Others
<1>19. ASSUME NEW r \in Runners, PersistenceFails(r) PROVE Orderly
  <2>1. faults' \in 0 .. MaxFaults /\ Set(r, Idle) /\ runner[r].pc = "fetched"
    BY <1>0, <1>19 DEF PersistenceFails, Unstored, Fault
  <2>2. CASE Terminal(runner[r].chunk, runner[r].attempt, "failed", "PERSISTENCE_FAILED")
    <3>1. Fails(runner[r].chunk, runner[r].attempt)
      BY <1>14, <1>19, <2>2
         DEF PersistenceFails, Fails, StillRunning, MyRun, Others, Codes
    <3>2. /\ runner' \in [Runners -> Runner]
          /\ \A q \in Runners : runner'[q] = runner[q] \/ runner'[q].pc \in Resting
      BY <1>15, <2>1
    <3> QED  BY <1>14, <2>1, <3>1, <3>2, OutcomeSteps
  <2>3. CASE att' = att
    BY <1>19, <2>1, <2>3, RestSteps DEF PersistenceFails, RowsStay, Others
  <2> QED  BY <1>19, <2>2, <2>3 DEF PersistenceFails
<1>20. ASSUME NEW r \in Runners, Crash(r) PROVE Orderly
  <2>1. faults' \in 0 .. MaxFaults
    BY <1>0, <1>20 DEF Crash, Fault
  <2> QED  BY <1>20, <2>1, RestSteps DEF Crash, RowsStay, Others
<1>21. CASE UNCHANGED vars
  <2>1. TypeOK' /\ plans \subseteq plans' /\ UNCHANGED <<att, inv, runner>> /\ Kinds
    BY <1>21 DEF vars, Kinds, RowsStay, Others
  <2> QED  BY <2>1, PlanSteps
<1> QED
  BY <1>1, <1>2, <1>3, <1>4, <1>5, <1>6, <1>7, <1>8, <1>9, <1>10, <1>11, <1>12, <1>13,
     <1>16, <1>17, <1>18, <1>19, <1>20, <1>21 DEF Next

LEMMA TypeInvInit == Init => TypeInv
<1> SUFFICES ASSUME Init PROVE TypeInv
  OBVIOUS
<1>1. Idle \in Runner /\ Idle.pc = "idle"
  BY RunnerRecords
<1>2. \A r \in Runners : runner[r] = Idle
  BY DEF Init
<1>3. RunnersAtWork /\ CheckedAreCurrent
  BY <1>1, <1>2 DEF RunnersAtWork, CheckedAreCurrent, Working
<1>4. att \in [AllChunks -> Seq(Attempt)]
  <2>1. << >> \in Seq(Attempt)
    BY EmptySeq
  <2> QED  BY <2>1 DEF Init
<1>5. inv \in [AllChunks -> Inventory]
  <2>1. NoInventory \in Inventory
    BY DEF NoInventory, Inventory
  <2> QED  BY <2>1 DEF Init
<1>6. /\ runner \in [Runners -> Runner] /\ installed \in 1 .. Len(Migrations)
      /\ faults \in 0 .. MaxFaults
  BY <1>1, BoundsAssumption DEF Init, Migrations
<1> QED  BY <1>3, <1>4, <1>5, <1>6 DEF TypeInv, TypeOK, Init, Plans

\* Rows keep their types, and what runners have checked or work on exists.
THEOREM TypeCorrect == Spec => []TypeInv
<1>1. TypeInv /\ [Next]_vars => TypeInv'
  BY StepsAreOrderly DEF Orderly
<1> QED  BY <1>1, TypeInvInit, PTL DEF Spec

-----------------------------------------------------------------------------
(* Every attempt but the last of its chunk failed, and an inventory is the *)
(* result of the one that succeeded.                                       *)

EarlierFailed ==
  \A c \in AllChunks : \A n \in 1 .. Len(att[c]) : n < Len(att[c]) => att[c][n].status = "failed"
InventoryIsWhole == \A c \in AllChunks : inv[c].content # "" => inv[c].attempt # 0
EarnedRows ==
  \A c \in AllChunks :
    /\ inv[c].attempt \in 0 .. Len(att[c])
    /\ \A n \in 1 .. Len(att[c]) : att[c][n].status = "succeeded" <=> n = inv[c].attempt
AttemptsArePlanned == \A c \in AllChunks : Len(att[c]) # 0 => PlanOf[c] \in plans
RowInv == EarlierFailed /\ InventoryIsWhole /\ EarnedRows /\ AttemptsArePlanned

\* A running attempt is the last of its chunk, which has no inventory yet.
LEMMA RunningIsLast ==
  ASSUME TypeInv, RowInv, NEW c \in AllChunks, NEW n \in 1 .. Len(att[c]),
         att[c][n].status = "running"
  PROVE  /\ n = Len(att[c]) /\ inv[c].attempt = 0 /\ inv[c].content = ""
         /\ \A m \in 1 .. Len(att[c]) : m # n => att[c][m].status = "failed"
<1>1. Len(att[c]) \in Nat
  BY AttemptRows DEF RowFacts, TypeInv
<1>2. n = Len(att[c])
  BY <1>1 DEF RowInv, EarlierFailed
<1>3. \A m \in 1 .. Len(att[c]) : m # n => att[c][m].status = "failed"
  BY <1>1, <1>2 DEF RowInv, EarlierFailed
<1>4. inv[c].attempt \in 0 .. Len(att[c])
  BY DEF RowInv, EarnedRows
<1>5. inv[c].attempt # 0 => att[c][inv[c].attempt].status = "succeeded"
  BY <1>1, <1>4 DEF RowInv, EarnedRows
<1>6. inv[c].attempt = 0
  BY <1>1, <1>3, <1>4, <1>5
<1>7. inv[c].content = ""
  BY <1>6 DEF RowInv, InventoryIsWhole
<1> QED  BY <1>2, <1>3, <1>6, <1>7

LEMMA RowsAfterInsert ==
  ASSUME TypeInv, RowInv, NEW r, Inserts(r)
  PROVE  RowInv'
<1> DEFINE c == runner[r].chunk
<1>1. /\ c \in AllChunks /\ PlanOf[c] \in plans
      /\ Len(att'[c]) = Len(att[c]) + 1
      /\ \A n \in 1 .. Len(att[c]) : att'[c][n] = att[c][n]
      /\ \A d \in AllChunks : d # c => att'[d] = att[d]
  BY InsertsRows
<1>2. att'[c][Len(att[c]) + 1].status = "running"
  <2>1. att'[c][Len(att[c]) + 1] = [status |-> "running", code |-> ""]
    BY InsertsRows
  <2>2. [status |-> "running", code |-> ""].status = "running"
    OBVIOUS
  <2> QED  BY <2>1, <2>2, Zenon
<1>3. inv' = inv /\ plans' = plans
  BY DEF Inserts, Others
<1>4. Len(att[c]) \in Nat
  BY <1>1, AttemptRows DEF RowFacts, TypeInv
<1>5. \A n \in 1 .. Len(att[c]) : att[c][n].status = "failed"
  <2>1. ~HasStatus(Attempts(c), "succeeded") /\ ~HasStatus(Attempts(c), "running")
    BY DEF Inserts, TriggersAdmit, AttemptTrigger
  <2>2. RowFacts /\ "succeeded" \in Statuses /\ "running" \in Statuses
    BY AttemptRows DEF TypeInv, Statuses
  <2>3. \A n \in 1 .. Len(att[c]) : att[c][n].status # "succeeded"
    BY <1>1, <2>1, <2>2 DEF RowFacts
  <2>4. \A n \in 1 .. Len(att[c]) : att[c][n].status # "running"
    BY <1>1, <2>1, <2>2 DEF RowFacts
  <2>5. \A n \in 1 .. Len(att[c]) : att[c][n].status \in Statuses
    BY <1>1, <2>2 DEF RowFacts
  <2> QED  BY <2>3, <2>4, <2>5 DEF Statuses
<1>6. inv[c].attempt = 0
  <2>1. inv[c].attempt \in 0 .. Len(att[c])
    BY <1>1 DEF RowInv, EarnedRows
  <2>2. inv[c].attempt \in 1 .. Len(att[c]) => att[c][inv[c].attempt].status = "succeeded"
    BY <1>1 DEF RowInv, EarnedRows
  <2> QED  BY <1>4, <1>5, <2>1, <2>2
<1> HIDE DEF c
<1>7. EarlierFailed'
  <2> SUFFICES ASSUME NEW d \in AllChunks, NEW n \in 1 .. Len(att'[d]), n < Len(att'[d])
               PROVE  att'[d][n].status = "failed"
    BY DEF EarlierFailed
  <2>1. CASE d = c
    <3>1. n \in 1 .. Len(att[c])
      BY <1>1, <1>4, <2>1
    <3> QED  BY <1>1, <1>5, <2>1, <3>1
  <2>2. CASE d # c
    BY <1>1, <2>2 DEF RowInv, EarlierFailed
  <2> QED  BY <2>1, <2>2
<1>8. InventoryIsWhole'
  BY <1>3 DEF RowInv, InventoryIsWhole
<1>9. EarnedRows'
  <2> SUFFICES ASSUME NEW d \in AllChunks
               PROVE  /\ inv'[d].attempt \in 0 .. Len(att'[d])
                      /\ \A n \in 1 .. Len(att'[d]) :
                           att'[d][n].status = "succeeded" <=> n = inv'[d].attempt
    BY DEF EarnedRows
  <2>1. CASE d = c
    <3>1. inv'[c].attempt = 0
      BY <1>3, <1>6
    <3>2. \A n \in 1 .. Len(att'[c]) : att'[c][n].status # "succeeded"
      <4> SUFFICES ASSUME NEW n \in 1 .. Len(att'[c]) PROVE att'[c][n].status # "succeeded"
        OBVIOUS
      <4>1. CASE n = Len(att[c]) + 1
        BY <1>2, <4>1
      <4>2. CASE n # Len(att[c]) + 1
        <5>1. n \in 1 .. Len(att[c])
          BY <1>1, <1>4, <4>2
        <5> QED  BY <1>1, <1>5, <5>1
      <4> QED  BY <4>1, <4>2
    <3> QED  BY <1>1, <1>4, <2>1, <3>1, <3>2
  <2>2. CASE d # c
    BY <1>1, <1>3, <2>2 DEF RowInv, EarnedRows
  <2> QED  BY <2>1, <2>2
<1>10. AttemptsArePlanned'
  BY <1>1, <1>3 DEF RowInv, AttemptsArePlanned
<1> QED  BY <1>7, <1>8, <1>9, <1>10 DEF RowInv

LEMMA RowsAfterFailure ==
  ASSUME TypeInv, RowInv, NEW c, NEW n, Fails(c, n)
  PROVE  RowInv'
<1>1. /\ Len(att'[c]) = Len(att[c])
      /\ att'[c][n].status = "failed"
      /\ \A m \in 1 .. Len(att[c]) : m # n => att'[c][m] = att[c][m]
      /\ \A d \in AllChunks : d # c => att'[d] = att[d]
  BY FailsRows
<1>2. /\ c \in AllChunks /\ n \in 1 .. Len(att[c]) /\ att[c][n].status = "running"
      /\ inv' = inv /\ plans' = plans
  BY DEF Fails, Others
<1>3. EarlierFailed'
  BY <1>1, <1>2 DEF RowInv, EarlierFailed
<1>4. EarnedRows'
  <2> SUFFICES ASSUME NEW d \in AllChunks
               PROVE  /\ inv'[d].attempt \in 0 .. Len(att'[d])
                      /\ \A m \in 1 .. Len(att'[d]) :
                           att'[d][m].status = "succeeded" <=> m = inv'[d].attempt
    BY DEF EarnedRows
  <2>1. /\ inv[d].attempt \in 0 .. Len(att[d])
        /\ \A m \in 1 .. Len(att[d]) : att[d][m].status = "succeeded" <=> m = inv[d].attempt
    BY DEF RowInv, EarnedRows
  <2>2. CASE d = c
    BY <1>1, <1>2, <2>1, <2>2
  <2>3. CASE d # c
    BY <1>1, <1>2, <2>1, <2>3
  <2> QED  BY <2>2, <2>3
<1>5. AttemptsArePlanned' /\ InventoryIsWhole'
  BY <1>1, <1>2 DEF RowInv, AttemptsArePlanned, InventoryIsWhole
<1> QED  BY <1>3, <1>4, <1>5 DEF RowInv

LEMMA RowsAfterSuccess ==
  ASSUME TypeInv, RowInv, NEW c, NEW n, Succeeds(c, n)
  PROVE  RowInv'
<1>1. /\ Len(att'[c]) = Len(att[c])
      /\ att'[c][n].status = "succeeded"
      /\ \A m \in 1 .. Len(att[c]) : m # n => att'[c][m] = att[c][m]
      /\ \A d \in AllChunks : d # c => att'[d] = att[d]
      /\ inv'[c].attempt = n
      /\ \A d \in AllChunks : d # c => inv'[d] = inv[d]
  BY SucceedsRows
<1>2. /\ c \in AllChunks /\ n \in 1 .. Len(att[c]) /\ att[c][n].status = "running"
      /\ plans' = plans
  BY DEF Succeeds, Others
<1>3. /\ n = Len(att[c])
      /\ \A m \in 1 .. Len(att[c]) : m # n => att[c][m].status = "failed"
  BY <1>2, RunningIsLast
<1>4. Len(att[c]) \in Nat
  BY <1>2, AttemptRows DEF RowFacts, TypeInv
<1>5. EarlierFailed'
  <2> SUFFICES ASSUME NEW d \in AllChunks, NEW m \in 1 .. Len(att'[d]), m < Len(att'[d])
               PROVE  att'[d][m].status = "failed"
    BY DEF EarlierFailed
  <2>1. CASE d = c
    BY <1>1, <1>3, <1>4, <2>1
  <2>2. CASE d # c
    BY <1>1, <2>2 DEF RowInv, EarlierFailed
  <2> QED  BY <2>1, <2>2
<1>6. EarnedRows'
  <2> SUFFICES ASSUME NEW d \in AllChunks
               PROVE  /\ inv'[d].attempt \in 0 .. Len(att'[d])
                      /\ \A m \in 1 .. Len(att'[d]) :
                           att'[d][m].status = "succeeded" <=> m = inv'[d].attempt
    BY DEF EarnedRows
  <2>1. CASE d = c
    <3>1. inv'[d].attempt = n /\ n \in 0 .. Len(att'[d])
      BY <1>1, <1>2, <1>4, <2>1
    <3>2. \A m \in 1 .. Len(att[c]) : att'[c][m].status = "succeeded" <=> m = n
      BY <1>1, <1>2, <1>3
    <3> QED  BY <1>1, <2>1, <3>1, <3>2
  <2>2. CASE d # c
    BY <1>1, <2>2 DEF RowInv, EarnedRows
  <2> QED  BY <2>1, <2>2
<1>9. n # 0
  <2>1. PICK k \in Int : k = Len(att[c])
    BY <1>4
  <2>2. n \in 1 .. k
    BY <1>2, <2>1
  <2> QED  BY <2>2
<1>7. InventoryIsWhole'
  <2> SUFFICES ASSUME NEW d \in AllChunks, inv'[d].content # "" PROVE inv'[d].attempt # 0
    BY DEF InventoryIsWhole
  <2>1. CASE d = c
    BY <1>1, <1>9, <2>1
  <2>2. CASE d # c
    BY <1>1, <2>2 DEF RowInv, InventoryIsWhole
  <2> QED  BY <2>1, <2>2
<1>8. AttemptsArePlanned'
  BY <1>1, <1>2 DEF RowInv, AttemptsArePlanned
<1> QED  BY <1>5, <1>6, <1>7, <1>8 DEF RowInv

\* Any other step changes neither attempts nor inventories, and no plan goes.
LEMMA RowsAfterOthers ==
  ASSUME RowInv, RowsStay, plans \subseteq plans'
  PROVE  RowInv'
<1>1. att' = att /\ inv' = inv
  BY DEF RowsStay
<1>2. EarlierFailed'
  BY <1>1 DEF RowInv, EarlierFailed
<1>3. InventoryIsWhole'
  BY <1>1 DEF RowInv, InventoryIsWhole
<1>4. EarnedRows'
  BY <1>1 DEF RowInv, EarnedRows
<1>5. AttemptsArePlanned'
  BY <1>1 DEF RowInv, AttemptsArePlanned
<1> QED  BY <1>2, <1>3, <1>4, <1>5 DEF RowInv

\* What a step of each kind leaves alone.
LEMMA KindsOfSteps ==
  ASSUME Kinds
  PROVE  \/ RowsStay /\ plans \subseteq plans'
         \/ \E r \in Runners : Inserts(r)
         \/ \E c \in AllChunks : \E n \in 1 .. Len(att[c]) : Fails(c, n) \/ Succeeds(c, n)
<1>1. RowsStay /\ Others => plans \subseteq plans'
  BY DEF Others
<1>2. (\E p \in Plans : CreatePlan(p) \/ ApproveAndRegister(p)) => plans \subseteq plans'
  BY DEF CreatePlan, ApproveAndRegister
<1>3. Supersede \/ Migrate \/ Reverse => plans \subseteq plans'
  BY DEF Supersede, Migrate, Reverse
<1> QED  BY <1>1, <1>2, <1>3 DEF Kinds

LEMMA RowsNext ==
  ASSUME TypeInv, RowInv, Kinds
  PROVE  RowInv'
  BY KindsOfSteps, RowsAfterInsert, RowsAfterFailure, RowsAfterSuccess, RowsAfterOthers

LEMMA RowsInit == Init => RowInv
<1> SUFFICES ASSUME Init PROVE RowInv
  OBVIOUS
<1>1. NoInventory.attempt = 0 /\ NoInventory.content = ""
  BY DEF NoInventory
<1>2. \A c \in AllChunks : att[c] = << >> /\ inv[c] = NoInventory
  BY DEF Init
<1>3. \A c \in AllChunks : Len(att[c]) = 0 /\ inv[c].attempt = 0 /\ inv[c].content = ""
  <2>1. Len(<< >>) = 0
    BY EmptySeq
  <2> QED  BY <1>1, <1>2, <2>1
<1>8. \A c \in AllChunks : 1 .. Len(att[c]) = {} /\ 0 .. Len(att[c]) = {0}
  <2> SUFFICES ASSUME NEW c \in AllChunks PROVE 1 .. Len(att[c]) = {} /\ 0 .. Len(att[c]) = {0}
    OBVIOUS
  <2>1. 1 .. 0 = {} /\ 0 .. 0 = {0}
    OBVIOUS
  <2> QED  BY <1>3, <2>1
<1>4. EarlierFailed
  BY <1>8 DEF EarlierFailed
<1>5. InventoryIsWhole
  BY <1>3 DEF InventoryIsWhole
<1>6. EarnedRows
  BY <1>3, <1>8 DEF EarnedRows
<1>7. AttemptsArePlanned
  BY <1>3 DEF AttemptsArePlanned
<1> QED  BY <1>4, <1>5, <1>6, <1>7 DEF RowInv

-----------------------------------------------------------------------------
(* The stages of the successor.                                            *)

\* What the service's checks promise of a chunk of v3.
MayStart(c) ==
  /\ Len(att[c]) = 0
  /\ c \in First3 => "canary3" \in Ready
  /\ c \in Rest3 => Ready = FirstH1
CheckedStages ==
  \A r \in Runners :
    runner[r].pc = "checked" /\ PlanOf[runner[r].chunk] = "v3" => MayStart(runner[r].chunk)
StageInv == StagedOrder /\ CheckedStages

\* An accepted inventory stays accepted, so what is ready stays ready.
LEMMA AcceptedStays ==
  ASSUME TypeInv, RowInv, Kinds, NEW c \in AllChunks, inv[c].content = "accepted"
  PROVE  inv'[c].content = "accepted"
<1>1. CASE RowsStay
  BY <1>1 DEF RowsStay
<1>2. ASSUME NEW r \in Runners, Inserts(r) PROVE inv'[c].content = "accepted"
  BY <1>2 DEF Inserts
<1>3. ASSUME NEW d \in AllChunks, NEW n \in 1 .. Len(att[d]), Fails(d, n)
      PROVE  inv'[c].content = "accepted"
  BY <1>3 DEF Fails
<1>4. ASSUME NEW d \in AllChunks, NEW n \in 1 .. Len(att[d]), Succeeds(d, n)
      PROVE  inv'[c].content = "accepted"
  <2>1. att[d][n].status = "running"
    BY <1>4 DEF Succeeds
  <2>2. inv[d].content = ""
    BY <2>1, RunningIsLast
  <2>3. c # d
    BY <2>2
  <2>4. inv'[c] = inv[c]
    BY <1>4, <2>3, SucceedsRows
  <2> QED  BY <2>4
<1> QED  BY <1>1, <1>2, <1>3, <1>4, KindsOfSteps

LEMMA ReadyGrows ==
  ASSUME TypeInv, RowInv, Kinds
  PROVE  /\ Ready \subseteq Ready'
         /\ Ready = FirstH1 => Ready' = FirstH1
<1>1. \A c \in FirstH1 : c \in AllChunks
  BY NamedChunks, PlansOfChunks DEF Plans
<1>2. Ready \subseteq Ready'
  BY <1>1, AcceptedStays DEF Ready
<1> QED  BY <1>2 DEF Ready

\* How many attempts a chunk has changes only when its own is inserted.
LEMMA LengthsNext ==
  ASSUME TypeInv, Kinds, NEW c \in AllChunks, Len(att'[c]) # Len(att[c])
  PROVE  \E r \in Runners : Inserts(r) /\ runner[r].chunk = c /\ Len(att'[c]) = Len(att[c]) + 1
<1>1. ~RowsStay
  BY DEF RowsStay
<1>2. ASSUME NEW d \in AllChunks, NEW n \in 1 .. Len(att[d]), Fails(d, n) \/ Succeeds(d, n)
      PROVE  FALSE
  <2>1. /\ Len(att'[d]) = Len(att[d])
        /\ \A e \in AllChunks : e # d => att'[e] = att[e]
    BY <1>2, FailsRows, SucceedsRows
  <2> QED  BY <2>1
<1>3. PICK r \in Runners : Inserts(r)
  BY <1>1, <1>2, KindsOfSteps
<1>4. /\ Len(att'[runner[r].chunk]) = Len(att[runner[r].chunk]) + 1
      /\ \A d \in AllChunks : d # runner[r].chunk => att'[d] = att[d]
  BY <1>3, InsertsRows
<1> QED  BY <1>3, <1>4

\* What the service and its lock promised of the successor's chunk that a
\* runner checks or has checked.
LEMMA ServicePromises ==
  ASSUME TypeInv, NEW c \in AllChunks, PlanOf[c] = "v3", ServiceAdmits(c)
  PROVE  MayStart(c)
<1>1. SuccessorAdmits(c)
  BY DEF ServiceAdmits
<1>2. Len(att[c]) = 0
  BY <1>1, AttemptRows DEF SuccessorAdmits, RowFacts, TypeInv
<1> QED  BY <1>1, <1>2 DEF SuccessorAdmits, MayStart

LEMMA StagesNext ==
  ASSUME TypeInv, RowInv, StageInv, Orderly
  PROVE  StageInv'
<1>1. Kinds /\ TypeInv' /\ CheckedFrame
  BY DEF Orderly
<1>2. Ready \subseteq Ready' /\ (Ready = FirstH1 => Ready' = FirstH1)
  BY <1>1, ReadyGrows
<1>3. /\ \A c \in First3 : c \in AllChunks /\ PlanOf[c] = "v3"
      /\ \A c \in Rest3 : c \in AllChunks /\ PlanOf[c] = "v3"
      /\ \A c \in Chunks["v3"] : c \in AllChunks /\ PlanOf[c] = "v3"
  BY NamedChunks, PlansOfChunks DEF Plans, FirstH1
<1>4. /\ \A c \in AllChunks : Attempted(c) <=> Len(att[c]) # 0
      /\ \A c \in AllChunks : Attempted(c)' <=> Len(att'[c]) # 0
      /\ \A c \in AllChunks : Len(att[c]) \in Nat
  BY <1>1, AttemptRows, AttemptRowsNext DEF RowFacts, TypeInv
<1>5. ASSUME NEW c \in AllChunks, PlanOf[c] = "v3", Len(att'[c]) # Len(att[c])
      PROVE  MayStart(c) /\ Len(att'[c]) = 1
  <2>1. PICK r \in Runners : Inserts(r) /\ runner[r].chunk = c /\ Len(att'[c]) = Len(att[c]) + 1
    BY <1>1, <1>5, LengthsNext
  <2>2. runner[r].pc = "checked"
    BY <2>1 DEF Inserts
  <2>3. MayStart(c)
    BY <1>5, <2>1, <2>2 DEF StageInv, CheckedStages
  <2>4. Len(att'[c]) = 1
    BY <2>1, <2>3 DEF MayStart
  <2> QED  BY <2>3, <2>4
<1>6. ASSUME NEW c \in First3, Attempted(c)' PROVE "canary3" \in Ready'
  <2>1. CASE Len(att'[c]) = Len(att[c])
    BY <1>2, <1>3, <1>4, <1>6, <2>1 DEF StageInv, StagedOrder
  <2>2. CASE Len(att'[c]) # Len(att[c])
    BY <1>2, <1>3, <1>5, <2>2 DEF MayStart
  <2> QED  BY <2>1, <2>2
<1>7. ASSUME NEW c \in Rest3, Attempted(c)' PROVE Ready' = FirstH1
  <2>1. CASE Len(att'[c]) = Len(att[c])
    BY <1>2, <1>3, <1>4, <1>7, <2>1 DEF StageInv, StagedOrder
  <2>2. CASE Len(att'[c]) # Len(att[c])
    BY <1>2, <1>3, <1>5, <2>2 DEF MayStart
  <2> QED  BY <2>1, <2>2
<1>8. ASSUME NEW c \in Chunks["v3"] PROVE Len(att'[c]) <= 1
  <2>1. CASE Len(att'[c]) = Len(att[c])
    BY <2>1 DEF StageInv, StagedOrder
  <2>2. CASE Len(att'[c]) # Len(att[c])
    <3>1. Len(att'[c]) = 1
      BY <1>3, <1>5, <2>2
    <3> QED  BY <3>1
  <2> QED  BY <2>1, <2>2
<1>9. StagedOrder'
  BY <1>6, <1>7, <1>8 DEF StagedOrder, FirstH1
<1>10. ASSUME NEW r \in Runners, runner'[r].pc = "checked", PlanOf[runner'[r].chunk] = "v3"
       PROVE  /\ Len(att'[runner'[r].chunk]) = 0
              /\ runner'[r].chunk \in First3 => "canary3" \in Ready'
              /\ runner'[r].chunk \in Rest3 => Ready' = FirstH1
  <2>1. PICK c \in AllChunks : c = runner'[r].chunk
    BY <1>1, <1>10 DEF TypeInv, CheckedAreCurrent
  <2>2. /\ Len(att'[c]) = Len(att[c])
        /\ runner'[r] = runner[r] \/ ServiceAdmits(c)
    BY <1>1, <1>10, <2>1 DEF CheckedFrame
  <2>3. MayStart(c)
    <3>1. CASE runner'[r] = runner[r]
      BY <1>10, <2>1, <3>1 DEF StageInv, CheckedStages
    <3>2. CASE ServiceAdmits(c)
      BY <1>10, <2>1, <3>2, ServicePromises
    <3> QED  BY <2>2, <3>1, <3>2
  <2> QED  BY <1>2, <2>1, <2>2, <2>3 DEF MayStart
<1>11. CheckedStages'
  BY <1>10 DEF CheckedStages, MayStart
<1> QED  BY <1>9, <1>11 DEF StageInv

LEMMA StagesInit == Init => StageInv
<1> SUFFICES ASSUME Init PROVE StageInv
  OBVIOUS
<1>1. \A r \in Runners : runner[r].pc # "checked"
  BY RunnerRecords DEF Init
<1>2. \A c \in AllChunks : att[c] = << >>
  BY DEF Init
<1>3. \A c \in Chunks["v3"] : c \in AllChunks
  BY PlansOfChunks DEF Plans
<1>4. \A c \in Chunks["v3"] : ~Attempted(c) /\ Len(att[c]) = 0
  <2>1. Len(<< >>) = 0
    BY EmptySeq
  <2> QED  BY <1>2, <1>3, <2>1 DEF Attempted
<1>5. First3 \subseteq Chunks["v3"] /\ Rest3 \subseteq Chunks["v3"]
  BY NamedChunks DEF FirstH1
<1> QED  BY <1>1, <1>4, <1>5 DEF StageInv, StagedOrder, CheckedStages

-----------------------------------------------------------------------------
(* What is sealed stays the accepted execution.                            *)

\* Nothing runs in a sealed plan.
LEMMA SealedAreSettled ==
  ASSUME TypeInv, RowInv, SealedIsAccepted, NEW p \in sealed, NEW c \in Chunks[p],
         NEW n \in 1 .. Len(att[c])
  PROVE  att[c][n].status # "running"
<1>1. p \in Plans /\ c \in AllChunks
  BY PlansOfChunks DEF TypeInv, TypeOK
<1>2. Len(att[c]) \in Nat
  BY <1>1, AttemptRows DEF RowFacts, TypeInv
<1>3. CASE n < Len(att[c])
  BY <1>1, <1>3 DEF RowInv, EarlierFailed
<1>4. CASE n = Len(att[c])
  BY <1>4 DEF SealedIsAccepted
<1> QED  BY <1>2, <1>3, <1>4

LEMMA SealedStay ==
  ASSUME TypeInv, RowInv, SealedIsAccepted, Kinds, NEW p \in sealed, NEW c \in Chunks[p]
  PROVE  att'[c] = att[c]
<1>1. p \in Plans /\ c \in AllChunks /\ PlanOf[c] = p
  BY PlansOfChunks DEF TypeInv, TypeOK
<1>2. CASE RowsStay
  BY <1>2 DEF RowsStay
<1>3. ASSUME NEW r \in Runners, Inserts(r) PROVE att'[c] = att[c]
  <2>1. PlanOf[runner[r].chunk] \notin sealed
    BY <1>3 DEF Inserts, TriggersAdmit, AttemptTrigger
  <2>2. c # runner[r].chunk
    BY <1>1, <2>1
  <2> QED  BY <1>1, <1>3, <2>2, InsertsRows
<1>4. ASSUME NEW d \in AllChunks, NEW n \in 1 .. Len(att[d]), Fails(d, n) \/ Succeeds(d, n)
      PROVE  att'[c] = att[c]
  <2>1. att[d][n].status = "running"
    BY <1>4 DEF Fails, Succeeds
  <2>2. c # d
    BY <2>1, SealedAreSettled
  <2> QED  BY <1>1, <1>4, <2>2, FailsRows, SucceedsRows
<1> QED  BY <1>2, <1>3, <1>4, KindsOfSteps

\* A complete plan is one whose every chunk ended with its accepted success.
LEMMA CompleteIsAccepted ==
  ASSUME TypeInv, RowInv, NEW p \in Plans, Complete(p), NEW c \in Chunks[p]
  PROVE  /\ att[c][Len(att[c])].status = "succeeded"
         /\ inv[c].content = "accepted"
         /\ Len(att[c]) = IF c = "canary2" THEN 2 ELSE 1
<1>1. c \in AllChunks
  BY PlansOfChunks
<1>2. inv[c].content = "accepted" /\ Len(att[c]) = IF c = "canary2" THEN 2 ELSE 1
  BY DEF Complete
<1>3. inv[c].attempt # 0
  BY <1>1, <1>2 DEF RowInv, InventoryIsWhole
<1>4. inv[c].attempt \in 0 .. Len(att[c]) /\ Len(att[c]) \in Nat
  BY <1>1, AttemptRows DEF RowInv, EarnedRows, RowFacts, TypeInv
<1>5. inv[c].attempt \in 1 .. Len(att[c])
  BY <1>3, <1>4
<1>6. att[c][inv[c].attempt].status = "succeeded"
  BY <1>1, <1>5 DEF RowInv, EarnedRows
<1>7. inv[c].attempt = Len(att[c])
  <2>1. ~(inv[c].attempt < Len(att[c]))
    BY <1>1, <1>5, <1>6 DEF RowInv, EarlierFailed
  <2> QED  BY <1>4, <1>5, <2>1
<1> QED  BY <1>2, <1>6, <1>7

LEMMA SealsNext ==
  ASSUME TypeInv, RowInv, SealedIsAccepted, Kinds
  PROVE  SealedIsAccepted'
<1>1. sealed \subseteq Plans
  BY DEF TypeInv, TypeOK
<1>2. superseded => superseded'
  <2>1. CASE RowsStay /\ Others
    BY <2>1 DEF Others
  <2>2. CASE \E p \in Plans : CreatePlan(p) \/ ApproveAndRegister(p)
    BY <2>2 DEF CreatePlan, ApproveAndRegister
  <2>3. CASE Supersede \/ Migrate \/ Reverse
    BY <2>3 DEF Supersede, Migrate, Reverse
  <2>4. CASE \E r \in Runners : Inserts(r)
    <3>1. Others
      BY <2>4 DEF Inserts
    <3> QED  BY <3>1 DEF Others
  <2>5. CASE \E c \in AllChunks : \E n \in 1 .. Len(att[c]) : Fails(c, n) \/ Succeeds(c, n)
    BY <2>5 DEF Fails, Succeeds, Others
  <2> QED  BY <2>1, <2>2, <2>3, <2>4, <2>5 DEF Kinds
<1>3. ASSUME NEW p \in sealed
      PROVE  /\ \A c \in Chunks[p] : /\ att'[c][Len(att'[c])].status = "succeeded"
                                     /\ inv'[c].content = "accepted"
                                     /\ Len(att'[c]) = IF c = "canary2" THEN 2 ELSE 1
             /\ p = "v2" => superseded' /\ CanaryAttemptOne'
             /\ p = "v3" => \A c \in Chunks["v2"] : inv'[c].content = "accepted"
  <2>1. /\ \A c \in Chunks[p] : /\ att[c][Len(att[c])].status = "succeeded"
                                /\ inv[c].content = "accepted"
                                /\ Len(att[c]) = IF c = "canary2" THEN 2 ELSE 1
        /\ p = "v2" => superseded /\ CanaryAttemptOne
        /\ p = "v3" => \A c \in Chunks["v2"] : inv[c].content = "accepted"
    BY DEF SealedIsAccepted
  <2>2. \A c \in Chunks[p] : att'[c] = att[c]
    BY SealedStay
  <2>3. \A q \in Plans : \A c \in Chunks[q] : inv[c].content = "accepted" => inv'[c].content = "accepted"
    BY AcceptedStays, PlansOfChunks
  <2>4. p = "v2" => CanaryAttemptOne'
    BY <2>1, <2>2, NamedChunks DEF CanaryAttemptOne, Attempted
  <2>5. p \in Plans /\ "v2" \in Plans
    BY <1>1 DEF Plans
  <2> QED  BY <1>2, <2>1, <2>2, <2>3, <2>4, <2>5
<1>4. CASE sealed' = sealed
  BY <1>3, <1>4 DEF SealedIsAccepted
<1>5. ASSUME NEW p \in Plans, ApproveAndRegister(p) PROVE SealedIsAccepted'
  <2>1. /\ Complete(p) /\ sealed' = sealed \cup {p}
        /\ UNCHANGED <<superseded, att, inv>>
        /\ p = "v2" => superseded /\ CanaryAttemptOne
        /\ p # "v1" /\ SealValid(p)
    BY <1>5 DEF ApproveAndRegister, ApproveAdmitted, CanaryLineage
  <2>2. p = "v3" => Complete("v2")
    BY <2>1 DEF SealValid, SuccessorSealValid
  <2>3. p = "v3" => \A c \in Chunks["v2"] : inv[c].content = "accepted"
    BY <2>2 DEF Complete
  <2>4. \A c \in Chunks[p] : /\ att[c][Len(att[c])].status = "succeeded"
                             /\ inv[c].content = "accepted"
                             /\ Len(att[c]) = IF c = "canary2" THEN 2 ELSE 1
    BY <2>1, CompleteIsAccepted
  <2>5. CanaryAttemptOne' = CanaryAttemptOne
    BY <2>1 DEF CanaryAttemptOne, Attempted
  <2> SUFFICES ASSUME NEW q \in sealed'
               PROVE  /\ \A c \in Chunks[q] : /\ att'[c][Len(att'[c])].status = "succeeded"
                                              /\ inv'[c].content = "accepted"
                                              /\ Len(att'[c]) = IF c = "canary2" THEN 2 ELSE 1
                      /\ q = "v2" => superseded' /\ CanaryAttemptOne'
                      /\ q = "v3" => \A c \in Chunks["v2"] : inv'[c].content = "accepted"
    BY DEF SealedIsAccepted
  <2>6. CASE q \in sealed
    BY <1>3, <2>6
  <2>7. CASE q = p
    BY <2>1, <2>3, <2>4, <2>5, <2>7
  <2> QED  BY <2>1, <2>6, <2>7
<1>6. ASSUME NEW p \in Plans, CreatePlan(p) PROVE sealed' = sealed
  BY <1>6 DEF CreatePlan
<1>7. RowsStay /\ Others => sealed' = sealed
  BY DEF Others
<1>8. Supersede \/ Migrate \/ Reverse => sealed' = sealed
  BY DEF Supersede, Migrate, Reverse
<1>9. (\E r \in Runners : Inserts(r)) => sealed' = sealed
  BY DEF Inserts, Others
<1>10. (\E c \in AllChunks : \E n \in 1 .. Len(att[c]) : Fails(c, n) \/ Succeeds(c, n))
         => sealed' = sealed
  BY DEF Fails, Succeeds, Others
<1> QED  BY <1>4, <1>5, <1>6, <1>7, <1>8, <1>9, <1>10 DEF Kinds

\* The row-by-row statement of the inventories is the one that is checked.
LEMMA EarnedIsEarned ==
  ASSUME TypeInv, RowInv
  PROVE  InventoryIsEarned
<1> SUFFICES ASSUME NEW c \in AllChunks
             PROVE  {n \in 1 .. Len(att[c]) : att[c][n].status = "succeeded"} =
                      IF inv[c].attempt = 0 THEN {} ELSE {inv[c].attempt}
  BY DEF InventoryIsEarned
<1>1. /\ inv[c].attempt \in 0 .. Len(att[c])
      /\ \A n \in 1 .. Len(att[c]) : att[c][n].status = "succeeded" <=> n = inv[c].attempt
  BY DEF RowInv, EarnedRows
<1>2. Len(att[c]) \in Nat
  BY AttemptRows DEF RowFacts, TypeInv
<1>3. {n \in 1 .. Len(att[c]) : att[c][n].status = "succeeded"} =
        {n \in 1 .. Len(att[c]) : n = inv[c].attempt}
  BY <1>1
<1>4. {n \in 1 .. Len(att[c]) : n = inv[c].attempt} =
        IF inv[c].attempt = 0 THEN {} ELSE {inv[c].attempt}
  <2>1. PICK k \in Int : k = Len(att[c])
    BY <1>2
  <2>2. inv[c].attempt \in 0 .. k
    BY <1>1, <2>1
  <2>3. PICK m \in 0 .. k : m = inv[c].attempt
    BY <2>2
  <2>4. {n \in 1 .. k : n = m} = IF m = 0 THEN {} ELSE {m}
    OBVIOUS
  <2> QED  BY <2>1, <2>3, <2>4
<1> QED  BY <1>3, <1>4

ResultInv == TypeInv /\ RowInv /\ SealedIsAccepted

LEMMA ResultsInit == Init => ResultInv
<1>1. Init => SealedIsAccepted
  BY DEF Init, SealedIsAccepted
<1> QED  BY <1>1, TypeInvInit, RowsInit DEF ResultInv

LEMMA ResultsNext == ResultInv /\ [Next]_vars => ResultInv'
<1> SUFFICES ASSUME ResultInv, [Next]_vars PROVE ResultInv'
  OBVIOUS
<1>1. TypeInv /\ RowInv /\ SealedIsAccepted
  BY DEF ResultInv
<1>2. TypeInv' /\ Kinds
  BY <1>1, StepsAreOrderly DEF Orderly
<1>3. RowInv'
  BY <1>1, <1>2, RowsNext
<1>4. SealedIsAccepted'
  BY <1>1, <1>2, SealsNext
<1> QED  BY <1>2, <1>3, <1>4 DEF ResultInv

\* What a plan's results rest on was earned by its attempts: an inventory is
\* that of the one attempt of its chunk that succeeded, however late an answer
\* arrives, and only complete executions are sealed.
THEOREM ResultsAreEarned == Spec => []OutcomesAreEarned
<1>1. ResultInv => OutcomesAreEarned
  BY EarnedIsEarned DEF ResultInv, OutcomesAreEarned, TypeInv
<1> QED  BY <1>1, ResultsInit, ResultsNext, PTL DEF Spec

-----------------------------------------------------------------------------
(* One attempt at a time, under rules at least as new as the evidence.     *)

RunningNow(c) == \E n \in 1 .. Len(att[c]) : att[c][n].status = "running"
OneRunning(p) == \A c, d \in Chunks[p] : RunningNow(c) /\ RunningNow(d) => c = d

\* Once v2 supersedes v1 its attempts run one at a time and none of v1's does;
\* so do v3's that were never admitted without the rules of 0023.
Flights ==
  /\ superseded => OneRunning("v2")
  /\ superseded => \A c \in Chunks["v1"] : ~RunningNow(c)
  /\ ~early => OneRunning("v3")
GovernedFromTheStart == "v3" \in plans /\ ~early => Gov >= 23
FlightInv == Flights /\ GovernedFromTheStart /\ EvidenceIsGoverned

\* What is running afterwards was running before, or has just been inserted.
LEMMA RunningNext ==
  ASSUME TypeInv, Kinds, NEW c \in AllChunks, RunningNow(c)', ~RunningNow(c)
  PROVE  \E r \in Runners : Inserts(r) /\ runner[r].chunk = c
<1>1. CASE RowsStay
  BY <1>1 DEF RowsStay, RunningNow
<1>2. ASSUME NEW d \in AllChunks, NEW n \in 1 .. Len(att[d]), Fails(d, n) \/ Succeeds(d, n)
      PROVE  FALSE
  <2>1. /\ Len(att'[d]) = Len(att[d])
        /\ att'[d][n].status # "running"
        /\ \A m \in 1 .. Len(att[d]) : m # n => att'[d][m] = att[d][m]
        /\ \A e \in AllChunks : e # d => att'[e] = att[e]
    BY <1>2, FailsRows, SucceedsRows
  <2>2. CASE c = d
    BY <2>1, <2>2 DEF RunningNow
  <2>3. CASE c # d
    BY <2>1, <2>3 DEF RunningNow
  <2> QED  BY <2>2, <2>3
<1>3. ASSUME NEW r \in Runners, Inserts(r), runner[r].chunk # c
      PROVE  FALSE
  <2>1. att'[c] = att[c]
    BY <1>3, InsertsRows
  <2> QED  BY <2>1 DEF RunningNow
<1> QED  BY <1>1, <1>2, <1>3, KindsOfSteps

\* Nothing of the plan runs when the triggers admit one of its attempts: of
\* the superseded v1 none, of the replacement by 0015 to 0017, of v3 by 0023.
LEMMA InsertsAlone ==
  ASSUME TypeInv, FlightInv, NEW r, Inserts(r)
  PROVE  LET p == PlanOf[runner[r].chunk] IN
         /\ superseded => p # "v1"
         /\ superseded /\ p = "v2" => \A d \in Chunks["v2"] : ~RunningNow(d)
         /\ ~early /\ p = "v3" => \A d \in Chunks["v3"] : ~RunningNow(d)
<1> DEFINE c == runner[r].chunk
<1>1. c \in AllChunks /\ PlanOf[c] \in plans /\ RowFacts
  BY InsertsRows, AttemptRows DEF TypeInv
<1>2. TriggersAdmit(c, runner[r].attempt)
  BY DEF Inserts
<1>3. superseded => PlanOf[c] # "v1"
  BY <1>2 DEF TriggersAdmit, SupersededTrigger
<1>4. ASSUME superseded, PlanOf[c] = "v2" PROVE \A d \in Chunks["v2"] : ~RunningNow(d)
  <2>1. ~RunningAnywhere
    BY <1>2, <1>4 DEF TriggersAdmit, SupersededTrigger, Replacement, ReplacementTrigger
  <2>2. ~HasStatus(PlanAttempts("v2"), "running")
    BY <2>1 DEF RunningAnywhere, Running, Plans
  <2>3. "v2" \in Plans /\ "running" \in Statuses
    BY DEF Plans, Statuses
  <2> QED  BY <1>1, <2>2, <2>3 DEF RowFacts, RunningNow
<1>5. ASSUME ~early, PlanOf[c] = "v3" PROVE \A d \in Chunks["v3"] : ~RunningNow(d)
  <2>1. Gov >= 23
    BY <1>1, <1>5 DEF FlightInv, GovernedFromTheStart
  <2>2. SuccessorTrigger(c, runner[r].attempt)
    BY <1>2, <1>5, <2>1 DEF TriggersAdmit, AttemptTrigger
  <2>3. \A a \in PlanAttempts("v3") : a.status = "succeeded"
    BY <2>2 DEF SuccessorTrigger
  <2>4. "v3" \in Plans
    BY DEF Plans
  <2>5. \A d \in Chunks["v3"] : \A n \in 1 .. Len(att[d]) : att[d][n].status = "succeeded"
    BY <1>1, <2>3, <2>4 DEF RowFacts
  <2> QED  BY <2>5 DEF RunningNow
<1> QED  BY <1>3, <1>4, <1>5

\* When a step starts nothing in a plan, or finds nothing running in it, at
\* most one attempt of it runs afterwards.
LEMMA OneRunningNext ==
  ASSUME TypeInv, FlightInv, Kinds, NEW p \in Plans, OneRunning(p),
         \A r \in Runners : Inserts(r) /\ PlanOf[runner[r].chunk] = p =>
           \A d \in Chunks[p] : ~RunningNow(d)
  PROVE  OneRunning(p)'
<1> SUFFICES ASSUME NEW c \in Chunks[p], NEW d \in Chunks[p], RunningNow(c)', RunningNow(d)', c # d
             PROVE  FALSE
  BY DEF OneRunning
<1>1. c \in AllChunks /\ d \in AllChunks /\ PlanOf[c] = p /\ PlanOf[d] = p
  BY PlansOfChunks
<1>2. CASE RunningNow(c) /\ RunningNow(d)
  BY <1>2 DEF OneRunning
<1>3. CASE ~RunningNow(c)
  <2>1. PICK r \in Runners : Inserts(r) /\ runner[r].chunk = c
    BY <1>1, <1>3, RunningNext
  <2>2. ~RunningNow(d) /\ d # runner[r].chunk
    BY <1>1, <2>1
  <2>3. att'[d] = att[d]
    BY <1>1, <2>1, <2>2, InsertsRows
  <2> QED  BY <2>2, <2>3 DEF RunningNow
<1>4. CASE ~RunningNow(d)
  <2>1. PICK r \in Runners : Inserts(r) /\ runner[r].chunk = d
    BY <1>1, <1>4, RunningNext
  <2>2. ~RunningNow(c) /\ c # runner[r].chunk
    BY <1>1, <2>1
  <2>3. att'[c] = att[c]
    BY <1>1, <2>1, <2>2, InsertsRows
  <2> QED  BY <2>2, <2>3 DEF RunningNow
<1> QED  BY <1>2, <1>3, <1>4

\* How each kind of step moves the flags and the rules in force.
LEMMA FlagsNext ==
  ASSUME TypeInv, Kinds
  PROVE  /\ superseded => superseded'
         /\ early => early'
         /\ superseded' # superseded => Supersede
         /\ plans \subseteq plans'
         /\ ("v3" \in plans') # ("v3" \in plans) => CreatePlan("v3")
         /\ installed' # installed => Migrate \/ Reverse
         /\ sealed' # sealed => \E p \in Plans : ApproveAndRegister(p)
         /\ installed' # installed \/ sealed' # sealed \/ superseded' # superseded => RowsStay
<1>1. CASE RowsStay /\ Others
  BY <1>1 DEF Others
<1>2. ASSUME NEW p \in Plans, CreatePlan(p), RowsStay
      PROVE  /\ UNCHANGED <<superseded, sealed, installed>> /\ (early => early')
             /\ plans' = plans \cup {p}
  BY <1>2 DEF CreatePlan
<1>3. ASSUME NEW p \in Plans, ApproveAndRegister(p), RowsStay
      PROVE  UNCHANGED <<superseded, early, plans, installed>>
  BY <1>3 DEF ApproveAndRegister
<1>4. ASSUME Supersede, RowsStay
      PROVE  superseded' /\ UNCHANGED <<early, plans, installed, sealed>>
  BY <1>4 DEF Supersede
<1>5. ASSUME Migrate \/ Reverse, RowsStay
      PROVE  UNCHANGED <<superseded, early, plans, sealed>>
  BY <1>5 DEF Migrate, Reverse
<1>6. (\E r \in Runners : Inserts(r)) => Others
  BY DEF Inserts
<1>7. (\E c \in AllChunks : \E n \in 1 .. Len(att[c]) : Fails(c, n) \/ Succeeds(c, n)) => Others
  BY DEF Fails, Succeeds
<1>8. Others => UNCHANGED <<installed, plans, superseded, sealed, early>>
  BY DEF Others
<1>9. CASE RowsStay /\ \E p \in Plans : CreatePlan(p)
  BY <1>2, <1>9
<1>10. CASE RowsStay /\ \E p \in Plans : ApproveAndRegister(p)
  BY <1>3, <1>10
<1>11. CASE RowsStay /\ Supersede
  BY <1>4, <1>11
<1>12. CASE RowsStay /\ (Migrate \/ Reverse)
  BY <1>5, <1>12
<1> QED  BY <1>1, <1>6, <1>7, <1>8, <1>9, <1>10, <1>11, <1>12 DEF Kinds

LEMMA FlightsNext ==
  ASSUME TypeInv, RowInv, FlightInv, Kinds
  PROVE  Flights'
<1>1. /\ superseded => superseded'
      /\ early => early'
      /\ superseded' # superseded => Supersede
  BY FlagsNext
<1>2. /\ RowFacts /\ "running" \in Statuses
      /\ \A p \in {"v1", "v2", "v3"} : p \in Plans
      /\ \A p \in Plans : \A c \in Chunks[p] : c \in AllChunks /\ PlanOf[c] = p
  BY AttemptRows, PlansOfChunks DEF TypeInv, Plans, Statuses
<1>3. \A r \in Runners : Inserts(r) =>
        /\ superseded => PlanOf[runner[r].chunk] # "v1"
        /\ superseded /\ PlanOf[runner[r].chunk] = "v2" => \A d \in Chunks["v2"] : ~RunningNow(d)
        /\ ~early /\ PlanOf[runner[r].chunk] = "v3" => \A d \in Chunks["v3"] : ~RunningNow(d)
  BY InsertsAlone
<1>4. superseded => OneRunning("v2")'
  BY <1>2, <1>3, OneRunningNext DEF FlightInv, Flights
<1>5. ~early => OneRunning("v3")'
  BY <1>2, <1>3, OneRunningNext DEF FlightInv, Flights
<1>6. ASSUME superseded, NEW c \in Chunks["v1"], RunningNow(c)' PROVE FALSE
  <2>1. ~RunningNow(c)
    BY <1>6 DEF FlightInv, Flights
  <2>2. PICK r \in Runners : Inserts(r) /\ runner[r].chunk = c
    BY <1>2, <1>6, <2>1, RunningNext
  <2> QED  BY <1>2, <1>3, <1>6, <2>2
<1>7. ASSUME Supersede
      PROVE  OneRunning("v2")' /\ \A c \in Chunks["v1"] : ~RunningNow(c)'
  <2>1. PlanAttempts("v2") = {} /\ ~Running("v1") /\ att' = att
    BY <1>7 DEF Supersede, SupersessionValid, SupersessionAdmitted
  <2>2. \A c \in Chunks["v2"] : Len(att[c]) = 0
    BY <1>2, <2>1 DEF RowFacts
  <2>3. \A c \in Chunks["v2"] : ~RunningNow(c)
    <3>1. 1 .. 0 = {}
      OBVIOUS
    <3> QED  BY <2>2, <3>1 DEF RunningNow
  <2>4. \A c \in Chunks["v1"] : ~RunningNow(c)
    BY <1>2, <2>1 DEF RowFacts, Running, RunningNow
  <2>5. \A c : RunningNow(c)' <=> RunningNow(c)
    BY <2>1 DEF RunningNow
  <2> QED  BY <2>3, <2>4, <2>5 DEF OneRunning
<1> QED  BY <1>1, <1>4, <1>5, <1>6, <1>7 DEF Flights

LEMMA GovValues ==
  ASSUME TypeInv
  PROVE  Gov \in {14, 15, 16, 17, 18, 23, 24}
<1>1. installed \in 1 .. 7
  BY DEF TypeInv, TypeOK, Migrations
<1> QED  BY <1>1 DEF Gov, Migrations

\* The rules in force move by one migration.
LEMMA GovNext ==
  ASSUME TypeInv, Kinds, installed' # installed
  PROVE  \/ Migrate /\ Gov' > Gov /\ Gov \in Nat /\ Gov' \in Nat
         \/ /\ Reverse
            /\ Gov >= 16 => Gov' >= 15
            /\ Gov >= 17 => Gov' >= 16
            /\ Gov >= 18 => Gov' >= 17
            /\ Gov >= 23 => Gov' >= 18
            /\ Gov >= 24 => Gov' >= 23
            /\ Gov \in {14, 15, 16, 17, 18, 23, 24}
<1>1. installed \in 1 .. 7 /\ Len(Migrations) = 7
  BY DEF TypeInv, TypeOK, Migrations
<1>2. Migrate \/ Reverse
  BY FlagsNext
<1>3. CASE Migrate
  <2>1. installed' = installed + 1 /\ installed < 7
    BY <1>1, <1>3 DEF Migrate
  <2>2. Gov' = Migrations[installed + 1] /\ Gov = Migrations[installed]
    BY <2>1 DEF Gov
  <2> QED  BY <1>1, <1>3, <2>1, <2>2 DEF Migrations
<1>4. CASE Reverse
  <2>1. installed' = installed - 1 /\ installed > 1
    BY <1>4 DEF Reverse
  <2>2. Gov' = Migrations[installed - 1] /\ Gov = Migrations[installed]
    BY <2>1 DEF Gov
  <2> QED  BY <1>1, <1>4, <2>1, <2>2 DEF Migrations
<1> QED  BY <1>2, <1>3, <1>4

LEMMA GovernNext ==
  ASSUME TypeInv, RowInv, FlightInv, Kinds
  PROVE  GovernedFromTheStart'
<1>1. /\ early => early'
      /\ plans \subseteq plans'
      /\ ("v3" \in plans') # ("v3" \in plans) => CreatePlan("v3")
  BY FlagsNext
<1> SUFFICES ASSUME "v3" \in plans', ~early' PROVE Gov' >= 23
  BY DEF GovernedFromTheStart
<1>2. CASE "v3" \notin plans
  <2>1. CreatePlan("v3")
    BY <1>1, <1>2
  <2>2. Gov >= 23 /\ installed' = installed
    <3>1. installed' = installed /\ ~(Gov < 23)
      BY <2>1 DEF CreatePlan
    <3>2. Gov \in Nat
      BY GovValues
    <3> QED  BY <3>1, <3>2
  <2> QED  BY <2>2 DEF Gov
<1>3. CASE "v3" \in plans
  <2>1. Gov >= 23
    BY <1>1, <1>3 DEF FlightInv, GovernedFromTheStart
  <2>2. CASE installed' = installed
    BY <2>1, <2>2 DEF Gov
  <2>3. CASE installed' # installed
    <3>1. CASE Migrate /\ Gov' > Gov /\ Gov \in Nat /\ Gov' \in Nat
      BY <2>1, <3>1
    <3>2. CASE Reverse
      <4>1. Gov # 23
        BY <1>3, <3>2 DEF Reverse, Evidence, SuccessorEvidence
      <4> QED  BY <2>1, <2>3, <3>2, <4>1, GovNext DEF Reverse, Migrate
    <3> QED  BY <2>3, <3>1, <3>2, GovNext
  <2> QED  BY <2>2, <2>3
<1> QED  BY <1>2, <1>3

\* An attempt of the replacement under its own rules: the canary's first from
\* 0015, its second from 0016, the other chunks' from 0017.
LEMMA ReplacementInserts ==
  ASSUME TypeInv, NEW r, Inserts(r), superseded, PlanOf[runner[r].chunk] = "v2"
  PROVE  /\ Gov >= 15
         /\ Gov < 16 => runner[r].chunk = "canary2" /\ Len(att["canary2"]) = 0
         /\ Gov < 17 => runner[r].chunk = "canary2"
<1> DEFINE c == runner[r].chunk
<1>1. ReplacementTrigger(c)
  BY DEF Inserts, TriggersAdmit, SupersededTrigger, Replacement
<1>2. Gov \in {14, 15, 16, 17, 18, 23, 24}
  BY GovValues
<1>3. Gov # 14
  BY <1>1 DEF ReplacementTrigger
<1>4. Gov = 15 => FirstCanary(c)
  BY <1>1 DEF ReplacementTrigger
<1>5. Gov = 16 => CanaryRetry(c)
  BY <1>1 DEF ReplacementTrigger
<1>6. FirstCanary(c) => c = "canary2" /\ Len(att["canary2"]) = 0
  <2>1. RowFacts /\ "v2" \in Plans /\ "canary2" \in Chunks["v2"]
    BY AttemptRows, NamedChunks DEF TypeInv, Plans
  <2> QED  BY <2>1 DEF RowFacts, FirstCanary
<1>7. CanaryRetry(c) => c = "canary2"
  BY DEF CanaryRetry
<1> QED  BY <1>2, <1>3, <1>4, <1>5, <1>6, <1>7

\* What EvidenceIsGoverned says of one plan's evidence, by numbers of attempts.
Governed ==
  /\ superseded =>
       /\ (\E c \in Chunks["v2"] : Len(att[c]) # 0) => Gov >= 15
       /\ Len(att["canary2"]) >= 2 => Gov >= 16
       /\ (\E c \in Range(Rest2) : Len(att[c]) # 0) => Gov >= 17
  /\ "v2" \in sealed => Gov >= 18
  /\ "v3" \in sealed => Gov >= 24

LEMMA GovernedIsGoverned == TypeInv => (EvidenceIsGoverned <=> Governed)
<1> SUFFICES ASSUME TypeInv PROVE EvidenceIsGoverned <=> Governed
  OBVIOUS
<1>1. RowFacts /\ "v2" \in Plans
  BY AttemptRows DEF TypeInv, Plans
<1>2. PlanAttempts("v2") # {} <=> \E c \in Chunks["v2"] : Len(att[c]) # 0
  BY <1>1 DEF RowFacts
<1>3. \A c \in Range(Rest2) : Attempted(c) <=> Len(att[c]) # 0
  BY <1>1, NamedChunks, PlansOfChunks DEF RowFacts
<1> QED  BY <1>2, <1>3 DEF EvidenceIsGoverned, Governed

LEMMA GovernedIsGovernedNext == TypeInv' => (EvidenceIsGoverned' <=> Governed')
  BY GovernedIsGoverned, PTL

LEMMA EvidenceNext ==
  ASSUME TypeInv, RowInv, FlightInv, Kinds
  PROVE  Governed'
<1>1. Governed /\ RowFacts /\ "v2" \in Plans
  BY GovernedIsGoverned, AttemptRows DEF FlightInv, TypeInv, Plans
<1>2. /\ superseded => superseded'
      /\ superseded' # superseded => Supersede
      /\ installed' # installed => Migrate \/ Reverse
      /\ sealed' # sealed => \E p \in Plans : ApproveAndRegister(p)
      /\ installed' # installed \/ sealed' # sealed \/ superseded' # superseded => RowsStay
  BY FlagsNext
<1>3. Gov \in {14, 15, 16, 17, 18, 23, 24}
  BY GovValues
<1>4. /\ \A c \in Chunks["v2"] : c \in AllChunks /\ PlanOf[c] = "v2"
      /\ "canary2" \in Chunks["v2"] /\ "canary2" \notin Range(Rest2)
      /\ Range(Rest2) \subseteq Chunks["v2"]
  BY <1>1, NamedChunks, PlansOfChunks, ChunksAssumption
<1>5. CASE Supersede
  <2>1. PlanAttempts("v2") = {} /\ UNCHANGED <<att, installed, sealed>>
    BY <1>5 DEF Supersede, SupersessionValid, SupersessionAdmitted
  <2>2. \A c \in Chunks["v2"] : Len(att'[c]) = 0
    BY <1>1, <2>1 DEF RowFacts
  <2>3. Gov' = Gov
    BY <2>1 DEF Gov
  <2>4. ~(Len(att'["canary2"]) >= 2)
    BY <1>4, <2>2
  <2> QED  BY <1>1, <1>4, <2>1, <2>2, <2>3, <2>4 DEF Governed
<1>6. CASE \E p \in Plans : ApproveAndRegister(p)
  <2>1. PICK p \in Plans : ApproveAndRegister(p)
    BY <1>6
  <2>2. SealValid(p) /\ sealed' = sealed \cup {p} /\ UNCHANGED <<att, installed, superseded>>
    BY <2>1 DEF ApproveAndRegister
  <2>3. Gov' = Gov
    BY <2>2 DEF Gov
  <2>4. (p = "v2" => Gov >= 18) /\ (p = "v3" => Gov >= 24)
    BY <2>2 DEF SealValid, Gate5Valid, SuccessorSealValid
  <2>5. ("v2" \in sealed' => Gov' >= 18) /\ ("v3" \in sealed' => Gov' >= 24)
    BY <1>1, <2>2, <2>3, <2>4 DEF Governed
  <2> QED  BY <1>1, <2>2, <2>3, <2>5 DEF Governed
<1>7. CASE installed' # installed
  <2>1. RowsStay /\ superseded' = superseded /\ sealed' = sealed
    BY <1>2, <1>7 DEF Migrate, Reverse
  <2>2. CASE Migrate /\ Gov' > Gov /\ Gov \in Nat /\ Gov' \in Nat
    BY <1>1, <2>1, <2>2 DEF Governed, RowsStay
  <2>3. ASSUME Reverse,
               Gov >= 16 => Gov' >= 15, Gov >= 17 => Gov' >= 16, Gov >= 18 => Gov' >= 17,
               Gov >= 23 => Gov' >= 18, Gov >= 24 => Gov' >= 23
        PROVE  Governed'
    <3>1. ~Evidence(Gov)
      BY <2>3 DEF Reverse
    <3>2. superseded /\ (\E c \in Chunks["v2"] : Len(att[c]) # 0) => Gov' >= 15
      <4>1. superseded /\ (\E c \in Chunks["v2"] : Len(att[c]) # 0) => Gov # 15
        BY <1>1, <3>1 DEF Evidence, CanaryEvidence, RowFacts
      <4> QED  BY <1>1, <1>3, <2>3, <4>1 DEF Governed
    <3>3. superseded /\ Len(att["canary2"]) >= 2 => Gov' >= 16
      <4>1. superseded /\ Len(att["canary2"]) >= 2 => Gov # 16
        BY <1>4, <3>1 DEF Evidence, RetryEvidence
      <4> QED  BY <1>1, <1>3, <2>3, <4>1 DEF Governed
    <3>4. superseded /\ (\E c \in Range(Rest2) : Len(att[c]) # 0) => Gov' >= 17
      <4>1. superseded /\ (\E c \in Range(Rest2) : Len(att[c]) # 0) => Gov # 17
        BY <1>1, <1>4, <3>1 DEF Evidence, FullEvidence, RowFacts
      <4> QED  BY <1>1, <1>3, <2>3, <4>1 DEF Governed
    <3>5. "v2" \in sealed => Gov' >= 18
      <4>1. "v2" \in sealed => Gov # 18
        BY <3>1 DEF Evidence, RegistrationEvidence
      <4> QED  BY <1>1, <1>3, <2>3, <4>1 DEF Governed
    <3>6. "v3" \in sealed => Gov' >= 24
      <4>1. "v3" \in sealed => Gov # 24
        BY <3>1 DEF Evidence, SuccessorAuthorityEvidence
      <4> QED  BY <1>1, <1>3, <2>3, <4>1 DEF Governed
    <3> QED  BY <2>1, <3>2, <3>3, <3>4, <3>5, <3>6 DEF Governed, RowsStay
  <2> QED  BY <1>7, <2>2, <2>3, GovNext
<1>8. CASE superseded' = superseded /\ sealed' = sealed /\ installed' = installed
  <2>1. Gov' = Gov
    BY <1>8 DEF Gov
  <2>2. ASSUME NEW c \in Chunks["v2"], superseded, Len(att'[c]) # Len(att[c])
        PROVE  /\ Gov >= 15
               /\ Gov < 17 => c = "canary2"
               /\ Len(att'[c]) = Len(att[c]) + 1
               /\ Gov < 16 => Len(att["canary2"]) = 0
    <3>1. PICK r \in Runners :
            Inserts(r) /\ runner[r].chunk = c /\ Len(att'[c]) = Len(att[c]) + 1
      BY <1>4, <2>2, LengthsNext
    <3> QED  BY <1>4, <2>2, <3>1, ReplacementInserts
  <2>3. superseded /\ (\E c \in Chunks["v2"] : Len(att'[c]) # 0) => Gov >= 15
    <3> SUFFICES ASSUME superseded, NEW c \in Chunks["v2"], Len(att'[c]) # 0 PROVE Gov >= 15
      OBVIOUS
    <3> QED  BY <1>1, <2>2 DEF Governed
  <2>4. superseded /\ Len(att'["canary2"]) >= 2 => Gov >= 16
    <3> SUFFICES ASSUME superseded, Len(att'["canary2"]) >= 2 PROVE Gov >= 16
      OBVIOUS
    <3>1. CASE Len(att'["canary2"]) = Len(att["canary2"])
      BY <1>1, <3>1 DEF Governed
    <3>2. CASE Len(att'["canary2"]) # Len(att["canary2"])
      <4>1. Len(att'["canary2"]) = Len(att["canary2"]) + 1 /\ (Gov < 16 => Len(att["canary2"]) = 0)
        BY <1>4, <2>2, <3>2
      <4> QED  BY <1>3, <4>1
    <3> QED  BY <3>1, <3>2
  <2>5. superseded /\ (\E c \in Range(Rest2) : Len(att'[c]) # 0) => Gov >= 17
    <3> SUFFICES ASSUME superseded, NEW c \in Range(Rest2), Len(att'[c]) # 0 PROVE Gov >= 17
      OBVIOUS
    <3>1. CASE Len(att'[c]) = Len(att[c])
      BY <1>1, <3>1 DEF Governed
    <3>2. CASE Len(att'[c]) # Len(att[c])
      <4>1. Gov < 17 => c = "canary2"
        BY <1>4, <2>2, <3>2
      <4> QED  BY <1>3, <1>4, <4>1
    <3> QED  BY <3>1, <3>2
  <2> QED  BY <1>1, <1>8, <2>1, <2>3, <2>4, <2>5 DEF Governed
<1> QED  BY <1>2, <1>5, <1>6, <1>7, <1>8

LEMMA FlightInit == Init => FlightInv
<1> SUFFICES ASSUME Init PROVE FlightInv
  OBVIOUS
<1>1. TypeInv
  BY TypeInvInit
<1>2. /\ superseded = FALSE /\ sealed = {} /\ plans = {"v1"}
      /\ \A c \in AllChunks : att[c] = << >>
  BY DEF Init
<1>3. \A c \in Chunks["v3"] : c \in AllChunks
  BY PlansOfChunks DEF Plans
<1>4. \A c \in Chunks["v3"] : 1 .. Len(att[c]) = {}
  <2> SUFFICES ASSUME NEW c \in Chunks["v3"] PROVE 1 .. Len(att[c]) = {}
    OBVIOUS
  <2>1. Len(att[c]) = 0
    BY <1>2, <1>3, EmptySeq
  <2>2. 1 .. 0 = {}
    OBVIOUS
  <2> QED  BY <2>1, <2>2
<1>5. OneRunning("v3")
  BY <1>4 DEF OneRunning, RunningNow
<1>6. Flights /\ GovernedFromTheStart
  BY <1>2, <1>5 DEF Flights, GovernedFromTheStart
<1>7. EvidenceIsGoverned
  BY <1>2 DEF EvidenceIsGoverned
<1> QED  BY <1>6, <1>7 DEF FlightInv

\* At most one chunk of a set is running when no two are.
LEMMA AtMostOne ==
  ASSUME NEW S, \A c, d \in S : c = d
  PROVE  Cardinality(S) <= 1
<1>1. CASE S = {}
  BY <1>1, FS_EmptySet
<1>2. CASE S # {}
  <2>1. PICK x \in S : S = {x}
    BY <1>2
  <2> QED  BY <2>1, FS_Singleton
<1> QED  BY <1>1, <1>2

GovernInv == TypeInv /\ RowInv /\ StageInv /\ FlightInv

LEMMA AttemptsGoverned == GovernInv => AttemptsAreGoverned
<1> SUFFICES ASSUME GovernInv PROVE AttemptsAreGoverned
  OBVIOUS
<1>1. TypeInv /\ RowInv /\ StageInv /\ FlightInv
  BY DEF GovernInv
<1>2. RowFacts /\ "running" \in Statuses
  BY <1>1, AttemptRows DEF TypeInv, Statuses
<1>3. \A p \in Plans : \A c \in Chunks[p] :
        c \in AllChunks /\ (HasStatus(Attempts(c), "running") <=> RunningNow(c))
  BY <1>2, PlansOfChunks DEF RowFacts, RunningNow
<1>4. SingleFlight
  <2> SUFFICES ASSUME NEW p \in {"v2", "v3"}, (p = "v3" /\ ~early) \/ Replacement(p)
               PROVE  Cardinality({c \in Chunks[p] : HasStatus(Attempts(c), "running")}) <= 1
    BY DEF SingleFlight
  <2>1. OneRunning(p) /\ p \in Plans
    BY <1>1 DEF FlightInv, Flights, Replacement, Plans
  <2>2. \A c, d \in {c \in Chunks[p] : HasStatus(Attempts(c), "running")} : c = d
    BY <1>3, <2>1 DEF OneRunning
  <2> QED  BY <2>2, AtMostOne
<1>5. SupersededIsClosed
  <2>1. "v1" \in Plans
    BY DEF Plans
  <2> QED  BY <1>1, <1>2, <2>1 DEF FlightInv, Flights, SupersededIsClosed, Running, RowFacts, RunningNow
<1> QED  BY <1>1, <1>4, <1>5 DEF StageInv, FlightInv, AttemptsAreGoverned

LEMMA GovernInit == Init => GovernInv
  BY TypeInvInit, RowsInit, StagesInit, FlightInit DEF GovernInv

LEMMA GovernInvNext == GovernInv /\ [Next]_vars => GovernInv'
<1> SUFFICES ASSUME GovernInv, [Next]_vars PROVE GovernInv'
  OBVIOUS
<1>1. TypeInv /\ RowInv /\ StageInv /\ FlightInv
  BY DEF GovernInv
<1>2. Orderly /\ TypeInv' /\ Kinds
  BY <1>1, StepsAreOrderly DEF Orderly
<1>3. RowInv' /\ StageInv'
  BY <1>1, <1>2, RowsNext, StagesNext
<1>4. Flights' /\ GovernedFromTheStart' /\ EvidenceIsGoverned'
  BY <1>1, <1>2, FlightsNext, GovernNext, EvidenceNext, GovernedIsGovernedNext
<1> QED  BY <1>2, <1>3, <1>4 DEF GovernInv, FlightInv

\* No attempt is made or left behind outside the rules in force: at most one
\* of a replacement or successor plan runs at a time although each runner
\* checks before it holds the plan's lock, the successor's chunks are attempted
\* once and in the order of the stages, a superseded plan stays closed, and a
\* migration is never reversed below the evidence it admitted.
THEOREM AttemptsStayGoverned == Spec => []AttemptsAreGoverned
  BY GovernInit, GovernInvNext, AttemptsGoverned, PTL DEF Spec

-----------------------------------------------------------------------------
(* What the operator is told.                                              *)

\* An accepted chunk was attempted.
LEMMA ReadyIsAttempted ==
  ASSUME TypeInv, RowInv, NEW c \in Ready
  PROVE  Len(att[c]) # 0
<1>1. c \in AllChunks /\ inv[c].content = "accepted"
  BY NamedChunks, PlansOfChunks DEF Ready, Plans
<1>2. inv[c].attempt # 0 /\ inv[c].attempt \in 0 .. Len(att[c]) /\ Len(att[c]) \in Nat
  BY <1>1, AttemptRows DEF RowInv, InventoryIsWhole, EarnedRows, RowFacts, TypeInv
<1> QED  BY <1>2

\* Counting the ready chunks is as good as comparing them.
LEMMA ReadyByCount ==
  Ready = FirstH1 <=> Cardinality(Ready) = Cardinality(FirstH1)
<1>1. IsFiniteSet(FirstH1)
  BY ChunksAssumption, FS_Singleton, FS_Union DEF FirstH1
<1>2. Ready \subseteq FirstH1
  BY DEF Ready
<1> QED  BY <1>1, <1>2, FS_Subset

\* What the report permits is what the trigger of 0023 admits.
LEMMA PermittedIsAdmitted ==
  ASSUME TypeInv, RowInv, StageInv, "v3" \in plans \ sealed, Gov >= 23
  PROVE  PermittedKeys = {c \in Chunks["v3"] : AttemptTrigger(c, Len(att[c]) + 1)}
<1>1. /\ RowFacts /\ "v3" \in Plans
      /\ "running" \in Statuses /\ "succeeded" \in Statuses /\ "failed" \in Statuses
  BY AttemptRows DEF TypeInv, Plans, Statuses
<1>2. /\ \A c \in Chunks["v3"] : c \in AllChunks /\ PlanOf[c] = "v3"
      /\ Chunks["v3"] = FirstH1 \cup Rest3 /\ Rest3 \cap FirstH1 = {}
      /\ FirstH1 = {"canary3"} \cup First3 /\ "canary3" \notin First3
  BY <1>1, PlansOfChunks, NamedChunks, ChunksAssumption DEF FirstH1
<1>3. \A c \in Chunks["v3"] : Attempted(c) <=> Len(att[c]) # 0
  BY <1>1, <1>2 DEF RowFacts
<1> DEFINE allSucceeded == \A c \in Chunks["v3"] : \A n \in 1 .. Len(att[c]) :
                             att[c][n].status = "succeeded"
           quiet == ~HasStatus(PlanAttempts("v3"), "failed") /\ ~Running("v3")
           open(c) == \/ c = "canary3"
                      \/ c \in First3 /\ "canary3" \in Ready
                      \/ c \in Rest3 /\ Ready = FirstH1
           stage == IF Ready = FirstH1 THEN Rest3
                    ELSE IF "canary3" \in Ready THEN First3 ELSE {"canary3"}
<1>4. quiet <=> allSucceeded
  <2>1. HasStatus(PlanAttempts("v3"), "failed") <=>
          \E c \in Chunks["v3"] : \E n \in 1 .. Len(att[c]) : att[c][n].status = "failed"
    BY <1>1 DEF RowFacts
  <2>2. Running("v3") <=>
          \E c \in Chunks["v3"] : \E n \in 1 .. Len(att[c]) : att[c][n].status = "running"
    BY <1>1 DEF RowFacts, Running
  <2>3. \A c \in Chunks["v3"] : \A n \in 1 .. Len(att[c]) :
          att[c][n].status \in {"running", "succeeded", "failed"}
    BY <1>1, <1>2 DEF RowFacts, Statuses
  <2> QED  BY <2>1, <2>2, <2>3
<1>5. (\A a \in PlanAttempts("v3") : a.status = "succeeded") <=> allSucceeded
  BY <1>1 DEF RowFacts
<1>6. ASSUME NEW c \in Chunks["v3"]
      PROVE  AttemptTrigger(c, Len(att[c]) + 1) <=> allSucceeded /\ ~Attempted(c) /\ open(c)
  <2>1. Len(att[c]) \in Nat
    BY <1>1, <1>2 DEF RowFacts
  <2>2. Len(att[c]) + 1 = 1 <=> ~Attempted(c)
    BY <1>3, <2>1
  <2>3. SuccessorTrigger(c, Len(att[c]) + 1) <=> allSucceeded /\ ~Attempted(c) /\ open(c)
    BY <1>5, <2>2, ReadyByCount DEF SuccessorTrigger
  <2>4. ~Attempted(c) => ~HasStatus(Attempts(c), "succeeded") /\ ~HasStatus(Attempts(c), "running")
    <3>1. ~Attempted(c) => Attempts(c) = {}
      <4>1. DOMAIN att[c] = 1 .. Len(att[c])
        BY <1>1, <1>2 DEF RowFacts
      <4>2. ~Attempted(c) => 1 .. Len(att[c]) = {}
        <5>1. 1 .. 0 = {}
          OBVIOUS
        <5> QED  BY <1>3, <5>1
      <4> QED  BY <4>1, <4>2 DEF Attempts, Range
    <3> QED  BY <3>1 DEF HasStatus
  <2>5. PlanOf[c] = "v3" /\ PlanOf[c] \notin sealed /\ Gov >= 23
    BY <1>2
  <2> QED  BY <2>3, <2>4, <2>5 DEF AttemptTrigger
<1>7. PermittedKeys = IF quiet THEN {c \in stage : ~Attempted(c)} ELSE {}
  BY DEF PermittedKeys
<1>8. \A c \in Ready : c \in Chunks["v3"] /\ Attempted(c)
  <2>1. Ready \subseteq FirstH1
    BY DEF Ready
  <2> QED  BY <1>2, <1>3, <2>1, ReadyIsAttempted
<1>9. \A c \in Chunks["v3"] : ~Attempted(c) => (open(c) <=> c \in stage)
  <2> HIDE DEF allSucceeded, quiet
  <2>1. CASE Ready = FirstH1
    BY <1>2, <1>8, <2>1
  <2>2. CASE Ready # FirstH1 /\ "canary3" \in Ready
    BY <1>2, <1>8, <2>2
  <2>3. CASE Ready # FirstH1 /\ "canary3" \notin Ready
    BY <1>2, <2>3
  <2> QED  BY <2>1, <2>2, <2>3
<1>10. stage \subseteq Chunks["v3"]
  BY <1>2
<1> HIDE DEF allSucceeded, quiet, open, stage
<1> QED  BY <1>4, <1>6, <1>7, <1>9, <1>10

\* The report's words are the rows' truth.
LEMMA StatusIsExact ==
  ASSUME TypeInv, RowInv, StageInv
  PROVE  /\ ReadinessStatus = "complete" <=>
              \A c \in Chunks["v3"] : Len(att[c]) = 1 /\ inv[c].attempt = 1
         /\ ReadinessStatus # "incomplete_evidence"
<1>1. /\ RowFacts /\ "v3" \in Plans
      /\ "running" \in Statuses /\ "succeeded" \in Statuses /\ "failed" \in Statuses
  BY AttemptRows DEF TypeInv, Plans, Statuses
<1>2. \A c \in Chunks["v3"] :
        /\ c \in AllChunks /\ PlanOf[c] = "v3" /\ Len(att[c]) \in Nat /\ Len(att[c]) <= 1
        /\ Attempted(c) <=> Len(att[c]) # 0
        /\ inv[c].attempt \in 0 .. Len(att[c])
        /\ \A n \in 1 .. Len(att[c]) : att[c][n].status = "succeeded" <=> n = inv[c].attempt
        /\ Len(att[c]) # 0 => "v3" \in plans
  <2> SUFFICES ASSUME NEW c \in Chunks["v3"]
               PROVE  /\ c \in AllChunks /\ PlanOf[c] = "v3"
                      /\ Len(att[c]) \in Nat /\ Len(att[c]) <= 1
                      /\ Attempted(c) <=> Len(att[c]) # 0
                      /\ inv[c].attempt \in 0 .. Len(att[c])
                      /\ \A n \in 1 .. Len(att[c]) : att[c][n].status = "succeeded" <=> n = inv[c].attempt
                      /\ Len(att[c]) # 0 => "v3" \in plans
    OBVIOUS
  <2>1. c \in AllChunks /\ PlanOf[c] = "v3"
    BY <1>1, PlansOfChunks
  <2>2. Len(att[c]) \in Nat /\ (Attempted(c) <=> Len(att[c]) # 0)
    BY <1>1, <2>1 DEF RowFacts
  <2>3. Len(att[c]) <= 1
    BY DEF StageInv, StagedOrder
  <2>4. /\ inv[c].attempt \in 0 .. Len(att[c])
        /\ \A n \in 1 .. Len(att[c]) : att[c][n].status = "succeeded" <=> n = inv[c].attempt
    BY <2>1 DEF RowInv, EarnedRows
  <2>5. Len(att[c]) # 0 => "v3" \in plans
    BY <2>1 DEF RowInv, AttemptsArePlanned
  <2> QED  BY <2>1, <2>2, <2>3, <2>4, <2>5
<1> DEFINE settled == ~HasStatus(PlanAttempts("v3"), "failed") /\ ~Running("v3")
           all == {c \in Chunks["v3"] : Attempted(c)} = Chunks["v3"]
           done == \A c \in Chunks["v3"] : Len(att[c]) = 1 /\ inv[c].attempt = 1
<1>3. settled <=> \A c \in Chunks["v3"] : \A n \in 1 .. Len(att[c]) : att[c][n].status = "succeeded"
  <2>1. HasStatus(PlanAttempts("v3"), "failed") <=>
          \E c \in Chunks["v3"] : \E n \in 1 .. Len(att[c]) : att[c][n].status = "failed"
    BY <1>1 DEF RowFacts
  <2>2. Running("v3") <=>
          \E c \in Chunks["v3"] : \E n \in 1 .. Len(att[c]) : att[c][n].status = "running"
    BY <1>1 DEF RowFacts, Running
  <2>3. \A c \in Chunks["v3"] : \A n \in 1 .. Len(att[c]) :
          att[c][n].status \in {"running", "succeeded", "failed"}
    BY <1>1, <1>2 DEF RowFacts, Statuses
  <2> QED  BY <2>1, <2>2, <2>3
<1>4. all <=> \A c \in Chunks["v3"] : Len(att[c]) = 1
  <2>1. all <=> \A c \in Chunks["v3"] : Attempted(c)
    OBVIOUS
  <2>2. ASSUME NEW c \in Chunks["v3"] PROVE Attempted(c) <=> Len(att[c]) = 1
    <3>1. Len(att[c]) \in Nat /\ Len(att[c]) <= 1
      BY <1>2
    <3>2. Attempted(c) <=> Len(att[c]) # 0
      BY <1>2
    <3>3. Len(att[c]) # 0 <=> Len(att[c]) = 1
      <4>1. \A k \in Nat : k <= 1 => (k # 0 <=> k = 1)
        OBVIOUS
      <4> QED  BY <3>1, <4>1
    <3> QED  BY <3>2, <3>3
  <2> QED  BY <2>1, <2>2
<1>5. ASSUME settled, all PROVE done /\ AcceptedKeys = Chunks["v3"]
  <2>1. ASSUME NEW c \in Chunks["v3"] PROVE Len(att[c]) = 1 /\ inv[c].attempt = 1
    <3>1. Len(att[c]) = 1
      BY <1>4, <1>5
    <3>2. att[c][1].status = "succeeded"
      BY <1>3, <1>5, <3>1
    <3> QED  BY <1>2, <3>1, <3>2
  <2>2. AcceptedKeys = Chunks["v3"]
    BY <2>1 DEF AcceptedKeys
  <2> QED  BY <2>1, <2>2
<1>6. ASSUME done PROVE settled /\ all /\ "v3" \in plans
  <2>1. all
    BY <1>4, <1>6
  <2>2. settled
    <3> SUFFICES ASSUME NEW c \in Chunks["v3"], NEW n \in 1 .. Len(att[c])
                 PROVE  att[c][n].status = "succeeded"
      BY <1>3
    <3>1. Len(att[c]) = 1 /\ inv[c].attempt = 1
      BY <1>6
    <3>2. n = 1
      BY <3>1
    <3> QED  BY <1>2, <3>1, <3>2
  <2>3. "v3" \in plans
    <3>1. "canary3" \in Chunks["v3"]
      BY NamedChunks
    <3>2. Len(att["canary3"]) # 0
      BY <1>6, <3>1
    <3> QED  BY <1>2, <3>1, <3>2
  <2> QED  BY <2>1, <2>2, <2>3
<1>7. {c \in Chunks["v3"] : Attempted(c)} # AcceptedKeys /\ all => ~settled
  BY <1>5
<1>8. ReadinessStatus = "complete" <=> "v3" \in plans /\ settled /\ all
  BY <1>5 DEF ReadinessStatus
<1>9. ReadinessStatus # "incomplete_evidence"
  BY <1>7 DEF ReadinessStatus
<1> HIDE DEF settled, all
<1> QED  BY <1>5, <1>6, <1>8, <1>9

\* successor_readiness tells an operator exactly which chunks the database
\* would admit, and that the successor is complete exactly when every chunk
\* has the result of its one attempt, whatever failed, runs or was resolved.
THEOREM ReadinessStaysExact == Spec => []ReadinessIsExact
<1>1. GovernInv => ReadinessIsExact
  BY PermittedIsAdmitted, StatusIsExact DEF GovernInv, ReadinessIsExact
<1> QED  BY <1>1, GovernInit, GovernInvNext, PTL DEF Spec

-----------------------------------------------------------------------------
(* A registration is final.                                                *)

\* Once a plan is sealed it stays sealed, and neither an attempt nor an
\* inventory of its chunks changes any more: not by a runner that passed the
\* service's checks before, not by a late answer, not by a stale resolution
\* (approve_and_register_discovery, market_validate_gate5_registration).
SealedIsFinal ==
  [][\A p \in sealed :
       p \in sealed' /\ \A c \in Chunks[p] : att'[c] = att[c] /\ inv'[c] = inv[c]]_vars

LEMMA SealedInventoriesStay ==
  ASSUME TypeInv, RowInv, SealedIsAccepted, Kinds, NEW p \in sealed, NEW c \in Chunks[p]
  PROVE  inv'[c] = inv[c]
<1>1. c \in AllChunks
  BY PlansOfChunks DEF TypeInv, TypeOK
<1>2. CASE RowsStay
  BY <1>2 DEF RowsStay
<1>3. ASSUME NEW r \in Runners, Inserts(r) PROVE inv'[c] = inv[c]
  BY <1>3 DEF Inserts
<1>4. ASSUME NEW d \in AllChunks, NEW n \in 1 .. Len(att[d]), Fails(d, n)
      PROVE  inv'[c] = inv[c]
  BY <1>4 DEF Fails
<1>5. ASSUME NEW d \in AllChunks, NEW n \in 1 .. Len(att[d]), Succeeds(d, n)
      PROVE  inv'[c] = inv[c]
  <2>1. att[d][n].status = "running"
    BY <1>5 DEF Succeeds
  <2>2. c # d
    BY <2>1, SealedAreSettled
  <2> QED  BY <1>1, <1>5, <2>2, SucceedsRows
<1> QED  BY <1>2, <1>3, <1>4, <1>5, KindsOfSteps

LEMMA SealsGrow ==
  ASSUME TypeInv, Kinds
  PROVE  sealed \subseteq sealed'
<1>1. ASSUME NEW p \in Plans, ApproveAndRegister(p) PROVE sealed \subseteq sealed'
  BY <1>1 DEF ApproveAndRegister
<1>2. CASE sealed' = sealed
  BY <1>2
<1> QED  BY <1>1, <1>2, FlagsNext

\* A sealed plan stays sealed and its evidence stays what was registered.
THEOREM SealedStaysFinal == Spec => SealedIsFinal
<1> DEFINE Final == \A p \in sealed :
                      p \in sealed' /\ \A c \in Chunks[p] : att'[c] = att[c] /\ inv'[c] = inv[c]
<1>1. Init => ResultInv
  BY ResultsInit
<1>2. ResultInv /\ [Next]_vars => ResultInv'
  BY ResultsNext
<1>3. ResultInv /\ [Next]_vars => Final
  <2> SUFFICES ASSUME ResultInv, [Next]_vars PROVE Final
    OBVIOUS
  <2>1. TypeInv /\ RowInv /\ SealedIsAccepted /\ Kinds
    BY StepsAreOrderly DEF ResultInv, Orderly
  <2>2. sealed \subseteq sealed'
    BY <2>1, SealsGrow
  <2>3. \A p \in sealed : \A c \in Chunks[p] : att'[c] = att[c] /\ inv'[c] = inv[c]
    BY <2>1, SealedStay, SealedInventoriesStay
  <2> QED  BY <2>2, <2>3
<1> HIDE DEF Final
<1>4. Spec => [][Final]_vars
  BY <1>1, <1>2, <1>3, PTL DEF Spec
<1> QED  BY <1>4 DEF SealedIsFinal, Final
=============================================================================
