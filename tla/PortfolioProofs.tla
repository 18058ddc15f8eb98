--------------------------- MODULE PortfolioProofs ---------------------------
(* Theorems about Portfolio, for any instruments, recommendations, risks and   *)
(* caps.                                                                       *)
EXTENDS Portfolio, FiniteSetTheorems, SequenceTheorems, TLAPS

-----------------------------------------------------------------------------
(* Least and greatest elements of sets of naturals.                           *)

(* A nonempty set of naturals has a least element: the numbers below all of   *)
(* it are an initial segment, and their count is that element.                *)
LEMMA LeastExists ==
  ASSUME NEW S, S \subseteq Nat, S # {}
  PROVE  \E m \in S : \A n \in S : m <= n
<1>1. PICK k \in S : TRUE
  OBVIOUS
<1>2. k \in Nat
  BY <1>1
<1> DEFINE below == {n \in 0 .. k : \A x \in S : n < x}
           d == Cardinality(below)
<1>3. IsFiniteSet(0 .. k)
  BY <1>2, FS_Interval
<1>4. IsFiniteSet(below) /\ d \in Nat
  BY <1>3, FS_Subset, FS_CardinalityType
<1>5. ASSUME NEW n \in below
      PROVE  n < d
  <2>1. n \in Nat /\ 0 .. n \subseteq below
    BY <1>2
  <2>2. Cardinality(0 .. n) = n + 1
    BY <2>1, FS_Interval
  <2>3. Cardinality(0 .. n) <= d
    BY <2>1, <1>4, FS_Subset
  <2> HIDE DEF d
  <2> QED  BY <2>1, <2>2, <2>3, <1>4
<1> DEFINE first == 0 .. (d - 1)
<1>6. IsFiniteSet(first) /\ Cardinality(first) = d
  <2> HIDE DEF d
  <2>1. 0 \in Int /\ d - 1 \in Int
    BY <1>4
  <2> QED  BY <2>1, <1>4, FS_Interval
<1>7. below \subseteq first
  <2> HIDE DEF d
  <2> QED  BY <1>4, <1>5, <1>2
<1>8. below = first
  BY <1>6, <1>7, FS_Subset
<1>9. \A x \in S : d <= x
  <2> SUFFICES ASSUME NEW x \in S PROVE d <= x
    OBVIOUS
  <2>1. CASE d = 0
    BY <2>1
  <2>2. CASE d # 0
    <3>1. d - 1 \in first
      <4> HIDE DEF d
      <4> QED  BY <2>2, <1>4
    <3>2. d - 1 < x /\ x \in Nat
      BY <3>1, <1>8
    <3> HIDE DEF d
    <3> QED  BY <3>2, <1>4
  <2> QED  BY <2>1, <2>2
<1>10. d \notin below
  BY <1>5, <1>4
<1>11. d <= k
  BY <1>9
<1>12. PICK x \in S : ~(d < x)
  BY <1>10, <1>11, <1>4, <1>2
<1>13. x = d
  <2> HIDE DEF d
  <2> QED  BY <1>12, <1>9, <1>4
<1> QED  BY <1>13, <1>9

(* Min and Max as FiniteSetsExt defines them.                                 *)
LEMMA MinIsLeast ==
  ASSUME NEW S, S \subseteq Nat, S # {}
  PROVE  Min(S) \in S /\ \A n \in S : Min(S) <= n
<1>1. PICK m \in S : \A n \in S : m <= n
  BY LeastExists
<1> QED  BY <1>1 DEF Min

LEMMA MaxIsGreatest ==
  ASSUME NEW S, S \subseteq Nat, S # {}, NEW k \in Nat, \A n \in S : n <= k
  PROVE  Max(S) \in S /\ \A n \in S : n <= Max(S)
<1> DEFINE T == {k - n : n \in S}
<1>1. T \subseteq Nat /\ T # {}
  <2>1. \A n \in S : k - n \in Nat
    <3> SUFFICES ASSUME NEW n \in S PROVE k - n \in Nat
      OBVIOUS
    <3>1. n \in Nat /\ n <= k
      OBVIOUS
    <3> QED  BY <3>1
  <2> QED  BY <2>1
<1>2. PICK t \in T : \A n \in T : t <= n
  <2> HIDE DEF T
  <2> QED  BY <1>1, LeastExists
<1>3. PICK m \in S : t = k - m
  BY <1>2
<1>4. ASSUME NEW n \in S PROVE n <= m
  <2>1. k - n \in T
    OBVIOUS
  <2>2. t <= k - n
    BY <2>1, <1>2
  <2>3. n \in Nat /\ m \in Nat
    OBVIOUS
  <2> QED  BY <2>2, <2>3, <1>3
<1> QED  BY <1>4 DEF Max

-----------------------------------------------------------------------------
(* The lifecycle of one recommendation.                                       *)

\* How far a state is: the table only leads further.
Rank(s) ==
  IF s = "none" THEN 0
  ELSE IF s = "awaiting_portfolio_assessment" THEN 1
  ELSE IF s = "awaiting_owner_decision" THEN 2
  ELSE IF s = "admitted_awaiting_entry" THEN 3
  ELSE IF s = "entered" THEN 4
  ELSE 5

\* The states a recommendation is moved to after the first.
Moves == States \ {"none", "abstained", "awaiting_portfolio_assessment"}

(* What the table leads to is further, and is never the state before the      *)
(* first; the first state is never reached again.                             *)
LEMMA TableLeadsFurther ==
  ASSUME NEW s \in States, NEW u \in TRANSITIONS[s]
  PROVE  /\ u \in States \ {"none"}
         /\ Rank(s) < Rank(u)
  BY DEF States, TRANSITIONS, Rank

(* A recommendation without an event can only be given its first state.       *)
LEMMA FirstIsNoMove ==
  ASSUME NEW s \in Moves
  PROVE  s \notin TRANSITIONS["none"]
  BY DEF Moves, States, TRANSITIONS

LEMMA RankIsNat == \A s : Rank(s) \in 0..5
  BY DEF Rank

\* The state a chain of events leads to.
StateOf(c) == IF c = << >> THEN "none" ELSE c[Len(c)].state

\* A chain of events of r, generated at g, none of them after t.
LegalChain(c, r, g, t) ==
  /\ c \in Seq(Event)
  /\ c = << >> <=> g = 0
  /\ c # << >> => c[1].state = InitialState(r) /\ c[1].at = g
  /\ \A k \in 1..(Len(c) - 1) : c[k + 1].state \in TRANSITIONS[c[k].state]
  /\ \A j, k \in 1..Len(c) : j < k => /\ Rank(c[j].state) < Rank(c[k].state)
                                      /\ c[j].at <= c[k].at
  /\ \A k \in 1..Len(c) : c[k].at <= t

LEMMA TimesAreNat == Times \subseteq Nat
  BY ConstantsAssumption DEF Times

LEMMA EventFields ==
  ASSUME NEW e \in Event
  PROVE  e.state \in States \ {"none"} /\ e.at \in Times /\ e.at \in Nat
  BY TimesAreNat DEF Event

(* A chain that is extended by a legal event is a legal chain.                *)
LEMMA AppendLegal ==
  ASSUME NEW c, NEW r, NEW g, NEW t \in Nat, LegalChain(c, r, g, t), c # << >>,
         NEW s \in TRANSITIONS[StateOf(c)],
         NEW at \in Times, at <= t, at >= c[Len(c)].at
  PROVE  /\ LegalChain(Append(c, [state |-> s, at |-> at]), r, g, t)
         /\ StateOf(Append(c, [state |-> s, at |-> at])) = s
<1> DEFINE e == [state |-> s, at |-> at]
           n == Len(c)
           b == Append(c, e)
<1>1. c \in Seq(Event) /\ n \in Nat /\ n >= 1
  BY EmptySeq DEF LegalChain
<1>2. \A k \in 1..n : c[k] \in Event
  BY <1>1
<1>3. StateOf(c) = c[n].state /\ c[n] \in Event /\ c[n].state \in States
  BY <1>1, <1>2, EventFields DEF StateOf
<1>4. s \in States \ {"none"} /\ Rank(c[n].state) < Rank(s)
  BY <1>3, TableLeadsFurther
<1>5. e \in Event /\ e.state = s /\ e.at = at
  BY <1>4 DEF Event
<1>6. /\ b \in Seq(Event) /\ Len(b) = n + 1 /\ b # << >>
      /\ \A k \in 1..n : b[k] = c[k]
      /\ b[n + 1] = e
  <2> HIDE DEF e
  <2> QED  BY <1>1, <1>5
<1>7. \A k \in 1..n : Rank(c[k].state) \in Int /\ c[k].at \in Int
  <2> TAKE k \in 1..n
  <2>1. Rank(c[k].state) \in 0..5
    BY RankIsNat
  <2>2. c[k].at \in Nat
    BY <1>2, EventFields
  <2> QED  BY <2>1, <2>2
<1>15. Rank(s) \in Int /\ at \in Int
  <2>1. Rank(s) \in 0..5
    BY RankIsNat
  <2> QED  BY <2>1, TimesAreNat
<1> HIDE DEF e, n, b
<1>8. \A k \in 1..(Len(b) - 1) : b[k + 1].state \in TRANSITIONS[b[k].state]
  <2> SUFFICES ASSUME NEW k \in 1..n PROVE b[k + 1].state \in TRANSITIONS[b[k].state]
    BY <1>1, <1>6
  <2>1. CASE k = n
    BY <2>1, <1>1, <1>3, <1>5, <1>6
  <2>2. CASE k # n
    <3>1. k \in 1..(n - 1) /\ k + 1 \in 1..n
      BY <2>2, <1>1
    <3> QED  BY <3>1, <1>6 DEF LegalChain, n
  <2> QED  BY <2>1, <2>2
<1>9. ASSUME NEW j \in 1..Len(b), NEW k \in 1..Len(b), j < k
      PROVE  Rank(b[j].state) < Rank(b[k].state) /\ b[j].at <= b[k].at
  <2>1. j \in 1..n /\ b[j] = c[j]
    BY <1>9, <1>1, <1>6
  <2>2. CASE k = n + 1
    <3>1. Rank(c[j].state) <= Rank(c[n].state) /\ c[j].at <= c[n].at
      <4>1. CASE j = n
        BY <4>1, <1>7, <1>1
      <4>2. CASE j # n
        <5>1. j < n /\ n \in 1..Len(c)
          BY <4>2, <2>1, <1>1 DEF n
        <5>2. Rank(c[j].state) < Rank(c[n].state) /\ c[j].at <= c[n].at
          BY <5>1, <2>1 DEF LegalChain, n
        <5>3. n \in 1..n
          BY <1>1
        <5> QED  BY <5>2, <5>3, <2>1, <1>7
      <4> QED  BY <4>1, <4>2
    <3>2. n \in 1..n /\ c[n].at <= at
      BY <1>1 DEF n
    <3>3. b[k].state = s /\ b[k].at = at
      BY <2>2, <1>5, <1>6
    <3>4. Rank(c[j].state) < Rank(s) /\ c[j].at <= at
      <4>1. /\ Rank(c[j].state) \in Int /\ Rank(c[n].state) \in Int
            /\ c[j].at \in Int /\ c[n].at \in Int
        BY <3>2, <2>1, <1>7
      <4> QED  BY <4>1, <3>1, <3>2, <1>4, <1>15
    <3> QED  BY <3>3, <3>4, <2>1
  <2>3. CASE k # n + 1
    <3>1. k \in 1..n /\ b[k] = c[k]
      BY <2>3, <1>6, <1>1
    <3> QED  BY <3>1, <2>1, <1>9 DEF LegalChain, n
  <2> QED  BY <2>2, <2>3
<1>10. ASSUME NEW k \in 1..Len(b) PROVE b[k].at <= t
  <2>1. CASE k = n + 1
    BY <2>1, <1>5, <1>6
  <2>2. CASE k # n + 1
    <3>1. k \in 1..n /\ b[k] = c[k]
      BY <2>2, <1>6, <1>1
    <3> QED  BY <3>1 DEF LegalChain, n
  <2> QED  BY <2>1, <2>2
<1>11. b[1] = c[1]
  BY <1>6, <1>1
<1>12. c[1].state = InitialState(r) /\ c[1].at = g /\ g # 0
  BY DEF LegalChain
<1>13. LegalChain(b, r, g, t)
  BY <1>6, <1>8, <1>9, <1>10, <1>11, <1>12 DEF LegalChain
<1>14. StateOf(b) = s
  BY <1>6, <1>5 DEF StateOf
<1> QED  BY <1>13, <1>14 DEF b, e

\* The chain has been in state s.
Has(c, s) == \E k \in 1..Len(c) : c[k].state = s

(* The states a legal chain has been in rank below the one it leads to.       *)
LEMMA PastRanksBelow ==
  ASSUME NEW c, NEW r, NEW g, NEW t, LegalChain(c, r, g, t)
  PROVE  /\ StateOf(c) \in States
         /\ StateOf(c) = "none" <=> c = << >>
         /\ c # << >> => Has(c, StateOf(c))
         /\ \A s : Has(c, s) => /\ s \in States \ {"none"}
                                /\ s = StateOf(c) \/ Rank(s) < Rank(StateOf(c))
<1> DEFINE n == Len(c)
<1>1. c \in Seq(Event) /\ n \in Nat
  BY DEF LegalChain
<1>2. \A k \in 1..n : c[k] \in Event /\ c[k].state \in States \ {"none"}
  BY <1>1, EventFields
<1>3. CASE c = << >>
  <2>1. StateOf(c) = "none" /\ "none" \in States /\ n = 0
    BY <1>3 DEF StateOf, States, TRANSITIONS
  <2> QED  BY <2>1, <1>3 DEF Has
<1>4. CASE c # << >>
  <2>1. n \in 1..n
    BY <1>1, <1>4, EmptySeq
  <2>2. StateOf(c) = c[n].state /\ StateOf(c) \in States \ {"none"}
    BY <2>1, <1>2, <1>4 DEF StateOf
  <2>3. Has(c, StateOf(c))
    BY <2>1, <2>2 DEF Has
  <2>4. ASSUME NEW s, Has(c, s)
        PROVE  s \in States \ {"none"} /\ (s = StateOf(c) \/ Rank(s) < Rank(StateOf(c)))
    <3>1. PICK k \in 1..n : c[k].state = s
      BY <2>4 DEF Has
    <3>2. CASE k = n
      BY <3>1, <3>2, <2>2
    <3>3. CASE k # n
      <4>1. k < n
        BY <3>3, <1>1
      <4> QED  BY <4>1, <3>1, <2>1, <2>2, <1>2 DEF LegalChain
    <3> QED  BY <3>2, <3>3
  <2> QED  BY <2>2, <2>3, <2>4, <1>4
<1> QED  BY <1>3, <1>4

(* An abstention stays one.                                                   *)
LEMMA AbstainedStays ==
  ASSUME NEW c, NEW r, NEW g, NEW t, LegalChain(c, r, g, t), Action[r] = "abstain"
  PROVE  StateOf(c) \in {"none", "abstained"}
<1>1. CASE c = << >>
  BY <1>1 DEF StateOf
<1>2. CASE c # << >>
  <2>1. c[1].state = "abstained" /\ Len(c) >= 1 /\ Len(c) \in Nat
    BY <1>2, EmptySeq DEF LegalChain, InitialState
  <2>2. Has(c, "abstained")
    BY <2>1 DEF Has
  <2>3. Rank("abstained") = 5 /\ Rank(StateOf(c)) \in 0..5
    BY RankIsNat DEF Rank
  <2> QED  BY <2>2, <2>3, PastRanksBelow
<1> QED  BY <1>1, <1>2

(* As of a time that no event is after, the projection is the last event.     *)
LEMMA ProjectedIsCurrent ==
  ASSUME NEW d, NEW r, NEW g, NEW t \in Nat, LegalChain(d.chain[r], r, g, t)
  PROVE  Projected(d, r, t) = Current(d, r) /\ Current(d, r) = StateOf(d.chain[r])
<1> DEFINE c == d.chain[r]
           n == Len(c)
           seen == {k \in DOMAIN c : c[k].at <= t}
<1>1. c \in Seq(Event) /\ n \in Nat /\ DOMAIN c = 1..n
  BY DEF LegalChain
<1>2. seen = 1..n
  BY <1>1 DEF LegalChain
<1>3. Current(d, r) = StateOf(c)
  BY DEF Current, StateOf
<1>4. CASE c = << >>
  <2>1. seen = {}
    BY <1>2, <1>4, EmptySeq
  <2> QED  BY <2>1, <1>4, <1>3 DEF Projected, Current
<1>5. CASE c # << >>
  <2>1. n >= 1
    BY <1>5, <1>1, EmptySeq
  <2>2. n \in seen /\ seen \subseteq Nat /\ seen # {} /\ \A m \in seen : m <= n
    <3> HIDE DEF seen, n
    <3> QED  BY <2>1, <1>1, <1>2
  <2>3. Max(seen) \in seen /\ \A m \in seen : m <= Max(seen)
    <3> HIDE DEF seen, n
    <3> QED  BY <2>2, <1>1, MaxIsGreatest
  <2>4. Max(seen) = n
    <3> HIDE DEF seen
    <3>1. Max(seen) \in Nat /\ Max(seen) <= n /\ n <= Max(seen)
      BY <2>2, <2>3
    <3> QED  BY <3>1, <1>1
  <2>5. Projected(d, r, t) = IF seen = {} THEN "none" ELSE c[Max(seen)].state
    BY DEF Projected
  <2>6. Current(d, r) = c[n].state
    BY <1>5 DEF Current
  <2> HIDE DEF seen
  <2> QED  BY <2>4, <2>5, <2>6, <2>2, <1>3
<1> QED  BY <1>4, <1>5

-----------------------------------------------------------------------------
(* What the operators on the rows do.                                         *)

LEMMA DbFields ==
  ASSUME NEW d \in Dbs
  PROVE  /\ d.chain \in [Recs -> Seq(Event)] /\ d.cohorts \in Seq(Cohort)
         /\ d.adm \in [Recs -> {"none", "admitted", "revoked"}]
         /\ d.refusal \in [Recs -> Refusals] /\ d.err \in Errors
  BY DEF Dbs

\* s is new to r, and r is moved to it by an event at time at.
Moved(d, e, r, s, at) ==
  /\ ~Has(d.chain[r], s) /\ Legal(d, r, s, at)
  /\ e.chain[r] = Append(d.chain[r], [state |-> s, at |-> at])

\* e is d after the recommendations of S that have not been in s are moved to
\* it; the move is refused only when one of them may not make it.
Transitioned(d, e, S, s, at) ==
  /\ e \in Dbs
  /\ e.cohorts = d.cohorts /\ e.adm = d.adm /\ e.refusal = d.refusal
  /\ e.err = "none" =>
       /\ d.err = "none"
       /\ \A r \in Recs :
            \/ e.chain[r] = d.chain[r] /\ (r \in S => Has(d.chain[r], s))
            \/ r \in S /\ Moved(d, e, r, s, at)
  /\ (\A r \in S : Has(d.chain[r], s) \/ Legal(d, r, s, at)) => e.err = d.err

(* transition moves those of S that have not been in s, or it is refused.     *)
LEMMA TransitionEffects ==
  ASSUME NEW d \in Dbs, NEW S \in SUBSET Recs, NEW s \in States \ {"none"},
         NEW at \in Times
  PROVE  Transitioned(d, Transition(d, S, s, at), S, s, at)
<1> USE DEF Transitioned
<1> DEFINE new == {r \in S : \A k \in DOMAIN d.chain[r] : d.chain[r][k].state # s}
           ev == [state |-> s, at |-> at]
           chain == [r \in Recs |-> IF r \in new THEN Append(d.chain[r], ev) ELSE d.chain[r]]
           e == Transition(d, S, s, at)
<1>1. \A r \in Recs : d.chain[r] \in Seq(Event) /\ DOMAIN d.chain[r] = 1..Len(d.chain[r])
  BY DbFields
<1>2. \A r \in S : r \in new <=> ~Has(d.chain[r], s)
  BY <1>1 DEF Has
<1>3. ev \in Event
  BY DEF Event
<1>4. chain \in [Recs -> Seq(Event)]
  <2> HIDE DEF ev, new
  <2> QED  BY <1>1, <1>3
<1>5. CASE \E r \in new : ~Legal(d, r, s, at)
  <2>1. e = Raise(d, "illegal_lifecycle_transition")
    BY <1>5 DEF Transition
  <2>2. CASE d.err = "none"
    <3>1. e = [d EXCEPT !.err = "illegal_lifecycle_transition"]
      BY <2>1, <2>2 DEF Raise
    <3>2. e \in Dbs /\ e.cohorts = d.cohorts /\ e.adm = d.adm /\ e.refusal = d.refusal
          /\ e.err # "none"
      <4> HIDE DEF e
      <4> QED  BY <3>1 DEF Dbs, Errors
    <3> HIDE DEF e
    <3> QED  BY <3>2, <1>5, <1>2 DEF e
  <2>3. CASE d.err # "none"
    <3>1. e = d
      BY <2>1, <2>3 DEF Raise
    <3> HIDE DEF e
    <3> QED  BY <3>1, <2>3, <1>5, <1>2 DEF e
  <2> QED  BY <2>2, <2>3
<1>6. CASE ~(\E r \in new : ~Legal(d, r, s, at))
  <2>1. e = [d EXCEPT !.chain = chain]
    BY <1>6 DEF Transition
  <2>2. /\ e \in Dbs /\ e.cohorts = d.cohorts /\ e.adm = d.adm /\ e.refusal = d.refusal
        /\ e.err = d.err /\ e.chain = chain
    <3> HIDE DEF e, chain
    <3> QED  BY <2>1, <1>4 DEF Dbs
  <2>3. ASSUME NEW r \in Recs
        PROVE  \/ e.chain[r] = d.chain[r] /\ (r \in S => Has(d.chain[r], s))
               \/ r \in S /\ Moved(d, e, r, s, at)
    <3> HIDE DEF e
    <3>1. CASE r \in new
      <4>1. e.chain[r] = Append(d.chain[r], ev) /\ Legal(d, r, s, at) /\ r \in S
        BY <3>1, <2>2, <1>6
      <4> QED  BY <4>1, <3>1, <1>2 DEF Moved
    <3>2. CASE r \notin new
      BY <3>2, <2>2, <1>2
    <3> QED  BY <3>1, <3>2
  <2> HIDE DEF e
  <2> QED  BY <2>2, <2>3 DEF e
<1> QED  BY <1>5, <1>6

Closures == {"selection_recorded", "new_target_superseded", "decision_deadline",
             "entry_trigger_before_selection"}

LEMMA CohortFields ==
  ASSUME NEW c \in Cohort
  PROVE  /\ c.members \in SUBSET Recs /\ c.gen \in Times /\ c.base \in SUBSET Recs
         /\ c.sels \in Seq(Selection) /\ c.deadline \in Nat
         /\ c.closure \in Closures \cup {"none"}
  BY DEF Cohort, Closures

\* What never changes about a cohort.
SameCohort(c, b) ==
  /\ b.members = c.members /\ b.gen = c.gen /\ b.base = c.base
  /\ b.deadline = c.deadline

\* The recommendations that closing the cohorts of C closes.
Pending(d, C, asOf) ==
  {r \in UNION {d.cohorts[k].members : k \in C} :
     Projected(d, r, asOf) = "awaiting_owner_decision"}

LEMMA MembersAreRecs ==
  ASSUME NEW d \in Dbs, NEW k \in DOMAIN d.cohorts
  PROVE  d.cohorts[k] \in Cohort /\ d.cohorts[k].members \in SUBSET Recs
<1>1. d.cohorts[k] \in Cohort
  BY DbFields
<1> QED  BY <1>1, CohortFields

\* e is d after the cohorts of C are closed, and their pending members with them.
CohortsClosed(d, e, C, asOf) ==
  /\ e \in Dbs
  /\ e.adm = d.adm /\ e.refusal = d.refusal
  /\ DOMAIN e.cohorts = DOMAIN d.cohorts /\ Len(e.cohorts) = Len(d.cohorts)
  /\ \A k \in DOMAIN d.cohorts :
       /\ SameCohort(d.cohorts[k], e.cohorts[k])
       /\ e.cohorts[k].sels = d.cohorts[k].sels
       /\ Closed(e.cohorts[k]) <=> Closed(d.cohorts[k]) \/ k \in C
  /\ Pending(d, C, asOf) \subseteq Recs
  /\ e.err = "none" =>
       /\ d.err = "none"
       /\ \A r \in Recs :
            \/ /\ e.chain[r] = d.chain[r]
               /\ r \in Pending(d, C, asOf) => Has(d.chain[r], "closed_unselected")
            \/ /\ r \in Pending(d, C, asOf)
               /\ Moved(d, e, r, "closed_unselected", asOf)
  /\ (\A r \in Pending(d, C, asOf) : Legal(d, r, "closed_unselected", asOf))
       => e.err = d.err

(* close_cohort records a closure once and closes the members that await the  *)
(* owner.                                                                     *)
LEMMA CloseEffects ==
  ASSUME NEW d \in Dbs, NEW C \in SUBSET DOMAIN d.cohorts, NEW why \in Closures,
         NEW asOf \in Times
  PROVE  CohortsClosed(d, CloseCohorts(d, C, why, asOf), C, asOf)
<1> USE DEF CohortsClosed
<1> DEFINE cohorts == [k \in DOMAIN d.cohorts |->
                         IF k \in C /\ ~Closed(d.cohorts[k])
                         THEN [d.cohorts[k] EXCEPT !.closure = why]
                         ELSE d.cohorts[k]]
           closed == [d EXCEPT !.cohorts = cohorts]
           P == Pending(d, C, asOf)
           e == CloseCohorts(d, C, why, asOf)
<1>1. \A k \in DOMAIN d.cohorts : d.cohorts[k] \in Cohort
  BY MembersAreRecs
<1>2. ASSUME NEW k \in DOMAIN d.cohorts
      PROVE  /\ cohorts[k] \in Cohort
             /\ SameCohort(d.cohorts[k], cohorts[k])
             /\ cohorts[k].sels = d.cohorts[k].sels
             /\ Closed(cohorts[k]) <=> Closed(d.cohorts[k]) \/ k \in C
  <2>1. cohorts[k] = IF k \in C /\ ~Closed(d.cohorts[k])
                     THEN [d.cohorts[k] EXCEPT !.closure = why]
                     ELSE d.cohorts[k]
    OBVIOUS
  <2>2. d.cohorts[k] \in Cohort
    BY <1>1
  <2> HIDE DEF cohorts
  <2>3. PICK c : c = d.cohorts[k]
    OBVIOUS
  <2>4. PICK b : b = cohorts[k]
    OBVIOUS
  <2>5. c \in Cohort /\ b = IF k \in C /\ ~Closed(c) THEN [c EXCEPT !.closure = why] ELSE c
    BY <2>1, <2>2, <2>3, <2>4
  <2>6. b \in Cohort /\ SameCohort(c, b) /\ b.sels = c.sels
        /\ (Closed(b) <=> Closed(c) \/ k \in C)
    BY <2>5 DEF Cohort, SameCohort, Closed, Closures
  <2> QED  BY <2>6, <2>3, <2>4
<1>3. cohorts \in Seq(Cohort) /\ DOMAIN cohorts = DOMAIN d.cohorts /\ Len(cohorts) = Len(d.cohorts)
  <2>1. d.cohorts \in Seq(Cohort) /\ Len(d.cohorts) \in Nat /\ DOMAIN d.cohorts = 1..Len(d.cohorts)
    BY DbFields
  <2>2. DOMAIN cohorts = 1..Len(d.cohorts) /\ \A k \in 1..Len(d.cohorts) : cohorts[k] \in Cohort
    BY <2>1, <1>2
  <2>3. cohorts = [k \in 1..Len(d.cohorts) |-> cohorts[k]]
    <3> HIDE DEF cohorts
    <3>1. cohorts = [k \in DOMAIN cohorts |-> cohorts[k]]
      BY DEF cohorts
    <3> QED  BY <3>1, <2>2
  <2> HIDE DEF cohorts
  <2>4. cohorts \in [1..Len(d.cohorts) -> Cohort]
    BY <2>2, <2>3
  <2> QED  BY <2>1, <2>2, <2>4, IsASeq, LenProperties
<1>4. closed \in Dbs /\ closed.chain = d.chain /\ closed.adm = d.adm /\ closed.refusal = d.refusal
      /\ closed.cohorts = cohorts /\ closed.err = d.err
  <2> HIDE DEF cohorts
  <2> QED  BY <1>3 DEF Dbs
<1>5. P \in SUBSET Recs
  <2>1. \A k \in C : d.cohorts[k].members \in SUBSET Recs
    BY MembersAreRecs
  <2> QED  BY <2>1 DEF Pending
<1>6. e = Transition(closed, P, "closed_unselected", asOf)
  BY DEF CloseCohorts, Pending
<1>7. "closed_unselected" \in States \ {"none"}
  BY DEF States, TRANSITIONS
<1>8. \A r \in Recs : Legal(closed, r, "closed_unselected", asOf) <=> Legal(d, r, "closed_unselected", asOf)
  <2> HIDE DEF closed
  <2> QED  BY <1>4 DEF Legal, Current
<1> HIDE DEF closed, e, P
<1>9. Transitioned(closed, e, P, "closed_unselected", asOf)
  <2>1. closed \in Dbs /\ P \in SUBSET Recs
    BY <1>4, <1>5
  <2>2. Transitioned(closed, Transition(closed, P, "closed_unselected", asOf), P, "closed_unselected", asOf)
    BY <2>1, <1>7, TransitionEffects
  <2> QED  BY <2>2, <1>6
<1> USE DEF Transitioned
<1>10. \A r \in Recs : Moved(closed, e, r, "closed_unselected", asOf)
                         => Moved(d, e, r, "closed_unselected", asOf)
  BY <1>4, <1>8 DEF Moved
<1>11. /\ e \in Dbs /\ e.adm = d.adm /\ e.refusal = d.refusal /\ e.cohorts = cohorts
  BY <1>4, <1>9
<1>12. e.err = "none" =>
         /\ d.err = "none"
         /\ \A r \in Recs :
              \/ /\ e.chain[r] = d.chain[r]
                 /\ r \in P => Has(d.chain[r], "closed_unselected")
              \/ r \in P /\ Moved(d, e, r, "closed_unselected", asOf)
  BY <1>4, <1>9, <1>10
<1>13. (\A r \in P : Legal(d, r, "closed_unselected", asOf)) => e.err = d.err
  BY <1>4, <1>5, <1>8, <1>9
<1> HIDE DEF cohorts
<1> QED  BY <1>2, <1>3, <1>5, <1>11, <1>12, <1>13 DEF e, P

-----------------------------------------------------------------------------
(* What every transaction preserves.                                          *)

\* The state r is in.
Cur(d, r) == StateOf(d.chain[r])

\* Every recommendation has a legal chain up to time t.
ChainsInv(d, gen, t) == \A r \in Recs : LegalChain(d.chain[r], r, gen[r], t)

\* The members of a cohort have been put to the owner.
MembersPut(d) ==
  \A k \in DOMAIN d.cohorts : \A r \in d.cohorts[k].members :
    Has(d.chain[r], "awaiting_owner_decision")

\* A recommendation is a member of one cohort.
MembersApart(d) ==
  \A j, k \in DOMAIN d.cohorts :
    (\E r \in Recs : r \in d.cohorts[j].members /\ r \in d.cohorts[k].members) => j = k

\* A selection is the only one of its cohort, and ends its decision.
SelectionsEnd(d) ==
  \A k \in DOMAIN d.cohorts : d.cohorts[k].sels # << >> =>
    /\ Len(d.cohorts[k].sels) = 1 /\ Closed(d.cohorts[k])
    /\ d.cohorts[k].sels[1].ids \subseteq d.cohorts[k].members
    /\ \A r \in d.cohorts[k].members : Cur(d, r) # "awaiting_owner_decision"

\* Cohort k's selection has r.
SelectedIn(d, k, r) == d.cohorts[k].sels # << >> /\ r \in d.cohorts[k].sels[1].ids

\* Admitted is what was selected, and only that is live.
AdmittedIsSelected(d) ==
  \A r \in Recs :
    /\ d.adm[r] = "admitted" <=> \E k \in DOMAIN d.cohorts : SelectedIn(d, k, r)
    /\ Cur(d, r) \in {"admitted_awaiting_entry", "entered"} => d.adm[r] = "admitted"

\* A cohort is closed once a later one was generated for one of its instruments.
LaterCloses(d, ins) ==
  \A k, n \in DOMAIN d.cohorts :
    /\ k < n /\ d.cohorts[k].gen < d.cohorts[n].gen
    /\ \E r \in d.cohorts[k].members, q \in d.cohorts[n].members : ins[r] = ins[q]
    => Closed(d.cohorts[k])

\* The members of open cohorts have targets of their own.
OpenTargetsApart(d, tgt) ==
  \A j, k \in DOMAIN d.cohorts : ~Closed(d.cohorts[j]) /\ ~Closed(d.cohorts[k]) =>
    \A r \in d.cohorts[j].members, q \in d.cohorts[k].members :
      tgt[r] = tgt[q] => r = q

\* No cohort was generated after t.
CohortsPast(d, t) == \A k \in DOMAIN d.cohorts : d.cohorts[k].gen <= t

DecisionInv(d, ins, tgt, t) ==
  /\ MembersPut(d) /\ MembersApart(d) /\ SelectionsEnd(d) /\ AdmittedIsSelected(d)
  /\ LaterCloses(d, ins) /\ OpenTargetsApart(d, tgt) /\ CohortsPast(d, t)

\* The state of r agrees with its paper entry and result.
FactsOf(d, r, ent, res) ==
  /\ Cur(d, r) = "entered" => ent[r] # 0 /\ res[r].outcome = "none"
  /\ Cur(d, r) = "admitted_awaiting_entry" => ent[r] = 0
  /\ ent[r] # 0 => Has(d.chain[r], "entered")
  /\ res[r].outcome # "none" => Cur(d, r) = OutcomeState[res[r].outcome]

FactsInv(d, ent, res) == \A r \in Recs : FactsOf(d, r, ent, res)

\* The admissions that carry risk.
LiveOf(d) ==
  {r \in Recs : /\ d.adm[r] = "admitted"
                /\ Cur(d, r) \in {"admitted_awaiting_entry", "entered"}}

\* The rows are sound: for transactions, while the clock and the facts stand.
Sound(d) ==
  /\ d \in Dbs
  /\ ChainsInv(d, genAt, now)
  /\ DecisionInv(d, inst, target, now)
  /\ FactsInv(d, entryAt, result)
  /\ Fits(LiveOf(d))

\* The facts have their types, and lie in the past.
Recorded ==
  /\ now \in 1..MaxTime
  /\ genAt \in [Recs -> Times] /\ sizedAt \in [Recs -> Times]
  /\ seenAt \in [Recs -> Times] /\ entryAt \in [Recs -> Times]
  /\ inst \in [Recs -> Instruments \cup {0}] /\ target \in [Recs -> Recs]
  /\ result \in [Recs -> [outcome : DOMAIN OutcomeState \cup {"none"},
                          at : Times]]
  /\ \A r \in Recs : genAt[r] <= now /\ seenAt[r] <= now

\* The states that nothing follows.
Ends == {s \in States : TRANSITIONS[s] = {}}

LEMMA EndStates ==
  /\ Ends = {"abstained", "portfolio_ineligible", "closed_unselected", "admission_revoked",
             "cancelled", "target_hit", "invalidated", "expired_after_entry",
             "expired_not_activated", "expired_unobserved", "missing_data"}
  /\ Moves = (Ends \ {"abstained"}) \cup
               {"awaiting_owner_decision", "admitted_awaiting_entry", "entered"}
  BY DEF Ends, States, TRANSITIONS, Moves

LEMMA OutcomesEnd ==
  ASSUME NEW o \in DOMAIN OutcomeState
  PROVE  OutcomeState[o] \in Ends \ {"abstained"}
  BY EndStates DEF OutcomeState

LEMMA NowIsTime ==
  ASSUME Recorded
  PROVE  now \in Nat /\ now \in Times /\ \A t \in 1..now : t \in Times
  BY ConstantsAssumption DEF Recorded, Times

(* A move extends a legal chain by one event, into the state it names.        *)
LEMMA MovedChain ==
  ASSUME Recorded, NEW d, NEW e, NEW r \in Recs, NEW s \in Moves,
         NEW at \in Times, at <= now,
         LegalChain(d.chain[r], r, genAt[r], now), Moved(d, e, r, s, at)
  PROVE  /\ LegalChain(e.chain[r], r, genAt[r], now)
         /\ Cur(e, r) = s /\ Cur(d, r) \in States /\ s \in TRANSITIONS[Cur(d, r)]
         /\ \A x : Has(e.chain[r], x) <=> Has(d.chain[r], x) \/ x = s
<1> DEFINE c == d.chain[r]
           b == Append(c, [state |-> s, at |-> at])
<1>1. Cur(d, r) = Current(d, r)
  BY DEF Cur, Current, StateOf
<1>2. Legal(d, r, s, at) /\ e.chain[r] = b
  BY DEF Moved
<1>3. s \in TRANSITIONS[StateOf(c)] /\ StateOf(c) \in States
  BY <1>1, <1>2, PastRanksBelow DEF Legal, Cur
<1>4. c # << >>
  BY <1>3, FirstIsNoMove DEF StateOf
<1>5. at >= c[Len(c)].at
  BY <1>2, <1>4 DEF Legal
<1>6. LegalChain(b, r, genAt[r], now) /\ StateOf(b) = s
  BY <1>3, <1>4, <1>5, NowIsTime, AppendLegal
<1>7. \A x : Has(b, x) <=> Has(c, x) \/ x = s
  <2>1. c \in Seq(Event) /\ Len(c) \in Nat
    BY DEF LegalChain
  <2>2. Len(b) = Len(c) + 1 /\ (\A k \in 1..Len(c) : b[k] = c[k])
        /\ b[Len(c) + 1].state = s
    <3>1. s \in States \ {"none"}
      BY DEF Moves
    <3>2. [state |-> s, at |-> at] \in Event
      BY <3>1 DEF Event
    <3> QED  BY <3>2, <2>1
  <2> HIDE DEF b, c
  <2>3. \A k : k \in 1..Len(b) <=> k \in 1..Len(c) \/ k = Len(c) + 1
    BY <2>1, <2>2
  <2> QED  BY <2>2, <2>3 DEF Has
<1> QED  BY <1>2, <1>3, <1>6, <1>7 DEF Cur

-----------------------------------------------------------------------------
(* Capacity.                                                                  *)

(* The units of risk of any recommendations are finitely many, and fewer      *)
(* recommendations have no more.                                              *)
LEMMA RiskIsMonotone ==
  ASSUME NEW T \in SUBSET Recs, NEW S \in SUBSET T
  PROVE  TotalRisk(S) \in Nat /\ TotalRisk(T) \in Nat /\ TotalRisk(S) <= TotalRisk(T)
<1> DEFINE f == [r \in Recs |-> {r} \X (1..Risk[r])]
           U == {f[r] : r \in Recs}
<1>1. \A r \in Recs : IsFiniteSet({r} \X (1..Risk[r]))
  <2> TAKE r \in Recs
  <2>1. Risk[r] \in Int /\ 1 \in Int
    BY ConstantsAssumption DEF Recs
  <2>2. IsFiniteSet(1..Risk[r])
    BY <2>1, FS_Interval
  <2>3. IsFiniteSet({r})
    BY FS_Singleton
  <2> QED  BY <2>2, <2>3, FS_Product
<1>2. IsFiniteSet(Recs)
  <2>1. MaxRecs \in Int /\ 1 \in Int
    BY ConstantsAssumption
  <2> QED  BY <2>1, FS_Interval DEF Recs
<1>3. f \in Surjection(Recs, U)
  BY DEF Surjection
<1>4. IsFiniteSet(U)
  <2> HIDE DEF f, U
  <2> QED  BY <1>2, <1>3, FS_Surjection
<1>5. \A V \in U : IsFiniteSet(V)
  BY <1>1
<1>6. IsFiniteSet(UNION U)
  <2> HIDE DEF U
  <2> QED  BY <1>4, <1>5, FS_UNION
<1>7. RiskUnits(S) \subseteq RiskUnits(T)
  BY DEF RiskUnits
<1>8. RiskUnits(T) \subseteq UNION U
  BY DEF RiskUnits
<1> HIDE DEF U
<1>9. IsFiniteSet(RiskUnits(T))
  BY <1>6, <1>8, FS_Subset
<1>10. IsFiniteSet(RiskUnits(S)) /\ Cardinality(RiskUnits(S)) <= Cardinality(RiskUnits(T))
  BY <1>7, <1>9, FS_Subset
<1> QED  BY <1>9, <1>10, FS_CardinalityType DEF TotalRisk

(* What fits still fits when less is asked for.                               *)
LEMMA FitsIsMonotone ==
  ASSUME NEW T \in SUBSET Recs, NEW S \in SUBSET T, Fits(T)
  PROVE  Fits(S)
<1>1. TotalRisk(S) <= AggregateCap
  <2>1. TotalRisk(T) <= AggregateCap /\ AggregateCap \in Nat
    BY ConstantsAssumption DEF Fits
  <2> QED  BY <2>1, RiskIsMonotone
<1>2. ASSUME NEW leg \in UNION {Legs(r) : r \in S}
      PROVE  TotalRisk({r \in S : leg \in Legs(r)}) <= DirectionCap
  <2> DEFINE A == {r \in S : leg \in Legs(r)}
             B == {r \in T : leg \in Legs(r)}
  <2>1. leg \in UNION {Legs(r) : r \in T}
    OBVIOUS
  <2>2. TotalRisk(B) <= DirectionCap /\ DirectionCap \in Nat
    BY <2>1, ConstantsAssumption DEF Fits
  <2>3. A \in SUBSET B /\ B \in SUBSET Recs
    OBVIOUS
  <2> HIDE DEF A, B
  <2>4. TotalRisk(A) \in Nat /\ TotalRisk(B) \in Nat /\ TotalRisk(A) <= TotalRisk(B)
    BY <2>3, RiskIsMonotone
  <2>5. TotalRisk(A) <= DirectionCap
    BY <2>2, <2>4
  <2> QED  BY <2>5 DEF A
<1> QED  BY <1>1, <1>2 DEF Fits

-----------------------------------------------------------------------------
(* Endings.                                                                   *)

\* The cohorts stand, except that some may be closed.
CohortsKept(d, e) ==
  /\ DOMAIN e.cohorts = DOMAIN d.cohorts
  /\ \A k \in DOMAIN d.cohorts : /\ SameCohort(d.cohorts[k], e.cohorts[k])
                                 /\ e.cohorts[k].sels = d.cohorts[k].sels
                                 /\ Closed(d.cohorts[k]) => Closed(e.cohorts[k])

\* r stands where it was, or is moved to its end.
Ended(d, e, r) ==
  \/ e.chain[r] = d.chain[r]
  \/ \E s \in Ends \ {"abstained"}, at \in Times : at <= now /\ Moved(d, e, r, s, at)

(* Closing cohorts and moving recommendations to their ends keeps the rows    *)
(* sound.                                                                     *)
LEMMA EndingsAreSound ==
  ASSUME Recorded, NEW d, Sound(d), NEW e \in Dbs, e.adm = d.adm, CohortsKept(d, e),
         \A r \in Recs : Ended(d, e, r)
  PROVE  Sound(e) /\ LiveOf(e) \subseteq LiveOf(d)
<1>1. ASSUME NEW r \in Recs
      PROVE  /\ LegalChain(e.chain[r], r, genAt[r], now)
             /\ \A x : Has(d.chain[r], x) => Has(e.chain[r], x)
             /\ \/ Cur(e, r) = Cur(d, r)
                \/ Cur(e, r) \in Ends \ {"abstained"} /\ Cur(d, r) \notin Ends
             /\ FactsOf(e, r, entryAt, result)
  <2>1. LegalChain(d.chain[r], r, genAt[r], now) /\ FactsOf(d, r, entryAt, result)
    BY DEF Sound, ChainsInv, FactsInv
  <2>2. CASE e.chain[r] = d.chain[r]
    BY <2>1, <2>2 DEF Cur, FactsOf
  <2>3. CASE e.chain[r] # d.chain[r]
    <3>1. PICK s \in Ends \ {"abstained"}, at \in Times : at <= now /\ Moved(d, e, r, s, at)
      BY <2>3 DEF Ended
    <3>2. s \in Moves
      BY EndStates
    <3>3. /\ LegalChain(e.chain[r], r, genAt[r], now)
          /\ Cur(e, r) = s /\ Cur(d, r) \in States /\ s \in TRANSITIONS[Cur(d, r)]
          /\ \A x : Has(e.chain[r], x) <=> Has(d.chain[r], x) \/ x = s
      BY <2>1, <3>1, <3>2, MovedChain
    <3>4. Cur(d, r) \notin Ends
      BY <3>3 DEF Ends
    <3>5. result[r].outcome = "none"
      <4>1. result[r].outcome \in DOMAIN OutcomeState \cup {"none"}
        BY DEF Recorded
      <4> QED  BY <4>1, <2>1, <3>4, OutcomesEnd DEF FactsOf
    <3>6. Cur(e, r) \notin {"entered", "admitted_awaiting_entry"}
      BY <3>3, EndStates
    <3> QED  BY <3>3, <3>4, <3>5, <3>6, <2>1 DEF FactsOf
  <2> QED  BY <2>2, <2>3
<1>2. ASSUME NEW k \in DOMAIN e.cohorts
      PROVE  /\ k \in DOMAIN d.cohorts
             /\ e.cohorts[k].members = d.cohorts[k].members
             /\ e.cohorts[k].gen = d.cohorts[k].gen
             /\ e.cohorts[k].sels = d.cohorts[k].sels
             /\ Closed(d.cohorts[k]) => Closed(e.cohorts[k])
             /\ d.cohorts[k].members \subseteq Recs
  <2>1. d \in Dbs
    BY DEF Sound
  <2> QED  BY <2>1, MembersAreRecs DEF CohortsKept, SameCohort
<1>3. DOMAIN e.cohorts = DOMAIN d.cohorts
  BY DEF CohortsKept
<1>4. \A r \in Recs : /\ Cur(e, r) \in {"admitted_awaiting_entry", "entered", "awaiting_owner_decision"}
                           => Cur(e, r) = Cur(d, r)
  BY <1>1, EndStates
<1>5. MembersPut(e)
  BY <1>1, <1>2 DEF MembersPut, Sound, DecisionInv
<1>6. MembersApart(e)
  BY <1>2 DEF MembersApart, Sound, DecisionInv
<1>7. SelectionsEnd(e)
  BY <1>2, <1>4 DEF SelectionsEnd, Sound, DecisionInv
<1>8. AdmittedIsSelected(e)
  <2>1. \A k \in DOMAIN e.cohorts, r \in Recs : SelectedIn(e, k, r) <=> SelectedIn(d, k, r)
    BY <1>2 DEF SelectedIn
  <2> QED  BY <2>1, <1>3, <1>4 DEF AdmittedIsSelected, Sound, DecisionInv
<1>9. LaterCloses(e, inst)
  BY <1>2 DEF LaterCloses, Sound, DecisionInv
<1>10. OpenTargetsApart(e, target)
  BY <1>2 DEF OpenTargetsApart, Sound, DecisionInv
<1>11. CohortsPast(e, now)
  BY <1>2 DEF CohortsPast, Sound, DecisionInv
<1>12. LiveOf(e) \subseteq LiveOf(d)
  BY <1>4 DEF LiveOf
<1>13. Fits(LiveOf(e))
  <2>1. LiveOf(d) \in SUBSET Recs /\ LiveOf(e) \in SUBSET LiveOf(d) /\ Fits(LiveOf(d))
    BY <1>12 DEF LiveOf, Sound
  <2> QED  BY <2>1, FitsIsMonotone
<1> QED  BY <1>1, <1>5, <1>6, <1>7, <1>8, <1>9, <1>10, <1>11, <1>12, <1>13
         DEF Sound, DecisionInv, ChainsInv, FactsInv

(* What the table allows now is legal.                                        *)
LEMMA NowIsLegal ==
  ASSUME Recorded, NEW d, NEW r \in Recs, LegalChain(d.chain[r], r, genAt[r], now),
         NEW s \in TRANSITIONS[Cur(d, r)]
  PROVE  Legal(d, r, s, now)
<1>1. Current(d, r) = Cur(d, r)
  BY DEF Current, Cur, StateOf
<1>2. now >= genAt[r]
  <2>1. genAt[r] \in Times /\ genAt[r] <= now
    BY DEF Recorded
  <2> QED  BY <2>1, NowIsTime, TimesAreNat
<1>3. d.chain[r] # << >> => now >= d.chain[r][Len(d.chain[r])].at
  <2> SUFFICES ASSUME d.chain[r] # << >> PROVE now >= d.chain[r][Len(d.chain[r])].at
    OBVIOUS
  <2> DEFINE c == d.chain[r]
  <2>1. c \in Seq(Event) /\ Len(c) \in 1..Len(c)
    BY EmptySeq DEF LegalChain
  <2>2. c[Len(c)] \in Event /\ c[Len(c)].at <= now
    BY <2>1 DEF LegalChain
  <2>3. c[Len(c)].at \in Nat
    BY <2>2, EventFields
  <2> QED  BY <2>2, <2>3, NowIsTime
<1> QED  BY <1>1, <1>2, <1>3 DEF Legal

(* Closing cohorts keeps the rows sound, and now it is not refused.           *)
LEMMA ClosingIsSound ==
  ASSUME Recorded, NEW d, Sound(d), NEW C \in SUBSET DOMAIN d.cohorts,
         NEW why \in Closures, NEW asOf \in Times, asOf <= now
  PROVE  LET e == CloseCohorts(d, C, why, asOf)
         IN /\ e \in Dbs /\ DOMAIN e.cohorts = DOMAIN d.cohorts /\ CohortsKept(d, e)
            /\ e.err = "none" => /\ d.err = "none"
                                 /\ Sound(e) /\ LiveOf(e) \subseteq LiveOf(d)
                                 /\ \A r \in Recs : Ended(d, e, r)
            /\ asOf = now => e.err = d.err
<1> DEFINE e == CloseCohorts(d, C, why, asOf)
           P == Pending(d, C, asOf)
<1>1. d \in Dbs
  BY DEF Sound
<1> HIDE DEF e, P
<1>2. CohortsClosed(d, e, C, asOf)
  BY <1>1, CloseEffects DEF e, P
<1> USE DEF CohortsClosed
<1>3. CohortsKept(d, e)
  BY <1>2 DEF CohortsKept
<1>4. "closed_unselected" \in Ends \ {"abstained"}
  BY EndStates
<1>5. ASSUME e.err = "none"
      PROVE  /\ d.err = "none" /\ Sound(e) /\ LiveOf(e) \subseteq LiveOf(d)
             /\ \A r \in Recs : Ended(d, e, r)
  <2>1. \A r \in Recs : Ended(d, e, r)
    BY <1>2, <1>4, <1>5 DEF Ended
  <2> QED  BY <1>2, <1>3, <1>5, <2>1, EndingsAreSound
<1>6. ASSUME asOf = now
      PROVE  e.err = d.err
  <2>1. ASSUME NEW r \in P PROVE Legal(d, r, "closed_unselected", asOf)
    <3>1. r \in Recs /\ Projected(d, r, now) = "awaiting_owner_decision"
      BY <1>2, <1>6 DEF P, Pending
    <3>2. LegalChain(d.chain[r], r, genAt[r], now)
      BY <3>1 DEF Sound, ChainsInv
    <3>3. Cur(d, r) = "awaiting_owner_decision"
      BY <3>1, <3>2, NowIsTime, ProjectedIsCurrent DEF Cur
    <3>4. "closed_unselected" \in TRANSITIONS[Cur(d, r)]
      BY <3>3 DEF TRANSITIONS
    <3> QED  BY <3>1, <3>2, <3>4, <1>6, NowIsLegal
  <2> QED  BY <1>2, <2>1 DEF P
<1> QED  BY <1>2, <1>3, <1>5, <1>6 DEF e


-----------------------------------------------------------------------------
(* A selection.                                                               *)

(* The active admissions are the admitted ones that are live.                 *)
LEMMA ActiveIsLive ==
  ASSUME Recorded, NEW d, ChainsInv(d, genAt, now)
  PROVE  Active(d) = LiveOf(d)
<1>1. \A r \in Recs : Projected(d, r, now) = Cur(d, r)
  BY NowIsTime, ProjectedIsCurrent DEF ChainsInv, Cur
<1> QED  BY <1>1 DEF Active, LiveOf

(* A move depends on the chain it extends only.                               *)
LEMMA MovedSame ==
  ASSUME NEW d, NEW e, NEW a, NEW b, NEW r, NEW s, NEW at,
         a.chain[r] = d.chain[r], b.chain[r] = e.chain[r], Moved(a, b, r, s, at)
  PROVE  Moved(d, e, r, s, at)
  BY DEF Moved, Legal, Current

\* The selection of ids is recorded for cohort k: who awaits the owner is
\* admitted or closed.
Recording(d, e, k, ids) ==
  /\ e.adm = [r \in Recs |-> IF r \in ids THEN "admitted" ELSE d.adm[r]]
  /\ DOMAIN e.cohorts = DOMAIN d.cohorts
  /\ \A j \in DOMAIN d.cohorts :
       /\ SameCohort(d.cohorts[j], e.cohorts[j])
       /\ j # k => /\ e.cohorts[j].sels = d.cohorts[j].sels
                   /\ Closed(e.cohorts[j]) <=> Closed(d.cohorts[j])
  /\ e.cohorts[k].sels # << >> /\ Len(e.cohorts[k].sels) = 1
  /\ e.cohorts[k].sels[1].ids = ids /\ Closed(e.cohorts[k])
  /\ \A r \in Recs :
       IF r \in d.cohorts[k].members /\ Cur(d, r) = "awaiting_owner_decision"
       THEN IF r \in ids THEN Moved(d, e, r, "admitted_awaiting_entry", now)
                         ELSE Moved(d, e, r, "closed_unselected", now)
       ELSE e.chain[r] = d.chain[r]

(* Recording a selection for a cohort that has none keeps the rows sound, if  *)
(* what is live then fits.                                                    *)
LEMMA RecordingIsSound ==
  ASSUME Recorded, NEW d, Sound(d), NEW e \in Dbs, NEW k \in DOMAIN d.cohorts,
         NEW ids \in SUBSET d.cohorts[k].members,
         d.cohorts[k].sels = << >>, Recording(d, e, k, ids)
  PROVE  /\ ChainsInv(e, genAt, now)
         /\ LiveOf(e) \subseteq (LiveOf(d) \ d.cohorts[k].members) \cup ids
         /\ Fits(LiveOf(e)) => Sound(e)
<1> DEFINE c == d.cohorts[k]
<1>1. d \in Dbs /\ c.members \subseteq Recs
  BY MembersAreRecs DEF Sound
<1>2. ASSUME NEW r \in Recs
      PROVE  /\ LegalChain(e.chain[r], r, genAt[r], now)
             /\ \A x : Has(d.chain[r], x) => Has(e.chain[r], x)
             /\ \/ Cur(e, r) = Cur(d, r)
                   /\ ~(r \in c.members /\ Cur(d, r) = "awaiting_owner_decision")
                \/ r \in ids /\ Cur(e, r) = "admitted_awaiting_entry"
                   /\ Cur(d, r) = "awaiting_owner_decision"
                \/ r \in c.members \ ids /\ Cur(e, r) = "closed_unselected"
                   /\ Cur(d, r) = "awaiting_owner_decision"
             /\ FactsOf(e, r, entryAt, result)
  <2>1. LegalChain(d.chain[r], r, genAt[r], now) /\ FactsOf(d, r, entryAt, result)
    BY DEF Sound, ChainsInv, FactsInv
  <2>2. CASE ~(r \in c.members /\ Cur(d, r) = "awaiting_owner_decision")
    <3>1. e.chain[r] = d.chain[r]
      BY <2>2 DEF Recording
    <3> QED  BY <2>1, <2>2, <3>1 DEF Cur, FactsOf
  <2>3. CASE r \in c.members /\ Cur(d, r) = "awaiting_owner_decision"
    <3> DEFINE s == IF r \in ids THEN "admitted_awaiting_entry" ELSE "closed_unselected"
    <3>1. Moved(d, e, r, s, now)
      BY <2>3 DEF Recording
    <3>2. s \in Moves
      BY EndStates
    <3>3. /\ LegalChain(e.chain[r], r, genAt[r], now)
          /\ Cur(e, r) = s
          /\ \A x : Has(e.chain[r], x) <=> Has(d.chain[r], x) \/ x = s
      <4> HIDE DEF s
      <4>1. now \in Times /\ now <= now
        BY NowIsTime
      <4> QED  BY <2>1, <3>1, <3>2, <4>1, MovedChain
    <3>4. result[r].outcome = "none"
      <4>1. result[r].outcome \in DOMAIN OutcomeState \cup {"none"}
        BY DEF Recorded
      <4>2. "awaiting_owner_decision" \notin Ends
        BY EndStates
      <4> QED  BY <4>1, <4>2, <2>1, <2>3, OutcomesEnd DEF FactsOf
    <3>5. entryAt[r] = 0
      <4>1. ~Has(d.chain[r], "entered")
        <5>1. ~(Rank("entered") < Rank("awaiting_owner_decision"))
          BY DEF Rank
        <5> QED  BY <5>1, <2>1, <2>3, PastRanksBelow DEF Cur
      <4> QED  BY <4>1, <2>1 DEF FactsOf
    <3>6. FactsOf(e, r, entryAt, result)
      BY <3>3, <3>4, <3>5 DEF FactsOf
    <3> QED  BY <3>3, <3>6, <2>3
  <2> QED  BY <2>2, <2>3
<1>3. ChainsInv(e, genAt, now) /\ FactsInv(e, entryAt, result)
  BY <1>2 DEF ChainsInv, FactsInv
<1>4. DOMAIN e.cohorts = DOMAIN d.cohorts
  BY DEF Recording
<1>5. ASSUME NEW j \in DOMAIN d.cohorts
      PROVE  /\ e.cohorts[j].members = d.cohorts[j].members
             /\ e.cohorts[j].gen = d.cohorts[j].gen
             /\ d.cohorts[j].members \subseteq Recs
             /\ Closed(d.cohorts[j]) => Closed(e.cohorts[j])
             /\ j # k => e.cohorts[j].sels = d.cohorts[j].sels
  BY <1>1, MembersAreRecs DEF Recording, SameCohort
<1>6. \A j \in DOMAIN d.cohorts, r \in Recs :
        SelectedIn(e, j, r) <=> IF j = k THEN r \in ids ELSE SelectedIn(d, j, r)
  BY <1>5 DEF SelectedIn, Recording
<1>7. \A r \in Recs : ~SelectedIn(d, k, r)
  BY DEF SelectedIn
<1>8. \A r \in Recs : e.adm[r] = "admitted" <=> r \in ids \/ d.adm[r] = "admitted"
  BY DEF Recording
<1>9. MembersPut(e)
  BY <1>2, <1>4, <1>5 DEF MembersPut, Sound, DecisionInv
<1>10. MembersApart(e)
  BY <1>4, <1>5 DEF MembersApart, Sound, DecisionInv
<1>11. SelectionsEnd(e)
  <2> SUFFICES ASSUME NEW j \in DOMAIN d.cohorts, e.cohorts[j].sels # << >>
               PROVE  /\ Len(e.cohorts[j].sels) = 1 /\ Closed(e.cohorts[j])
                      /\ e.cohorts[j].sels[1].ids \subseteq e.cohorts[j].members
                      /\ \A r \in e.cohorts[j].members : Cur(e, r) # "awaiting_owner_decision"
    BY <1>4 DEF SelectionsEnd
  <2>1. CASE j = k
    BY <2>1, <1>2, <1>5 DEF Recording
  <2>2. CASE j # k
    <3>1. /\ Len(d.cohorts[j].sels) = 1 /\ Closed(d.cohorts[j])
          /\ d.cohorts[j].sels[1].ids \subseteq d.cohorts[j].members
          /\ \A r \in d.cohorts[j].members : Cur(d, r) # "awaiting_owner_decision"
      BY <2>2, <1>5 DEF Sound, DecisionInv, SelectionsEnd
    <3> QED  BY <3>1, <2>2, <1>2, <1>5
  <2> QED  BY <2>1, <2>2
<1>12. AdmittedIsSelected(e)
  <2> SUFFICES ASSUME NEW r \in Recs
               PROVE  /\ e.adm[r] = "admitted" <=> \E j \in DOMAIN d.cohorts : SelectedIn(e, j, r)
                      /\ Cur(e, r) \in {"admitted_awaiting_entry", "entered"} => e.adm[r] = "admitted"
    BY <1>4 DEF AdmittedIsSelected
  <2>1. /\ d.adm[r] = "admitted" <=> \E j \in DOMAIN d.cohorts : SelectedIn(d, j, r)
        /\ Cur(d, r) \in {"admitted_awaiting_entry", "entered"} => d.adm[r] = "admitted"
    BY DEF Sound, DecisionInv, AdmittedIsSelected
  <2> QED  BY <2>1, <1>2, <1>6, <1>7, <1>8
<1>13. LaterCloses(e, inst)
  BY <1>4, <1>5 DEF LaterCloses, Sound, DecisionInv
<1>14. OpenTargetsApart(e, target)
  BY <1>4, <1>5 DEF OpenTargetsApart, Sound, DecisionInv
<1>15. CohortsPast(e, now)
  BY <1>4, <1>5 DEF CohortsPast, Sound, DecisionInv
<1>16. LiveOf(e) \subseteq (LiveOf(d) \ c.members) \cup ids
  <2> SUFFICES ASSUME NEW r \in LiveOf(e), r \notin ids
               PROVE  r \in LiveOf(d) \ c.members
    OBVIOUS
  <2>1. r \in Recs /\ e.adm[r] = "admitted" /\ Cur(e, r) \in {"admitted_awaiting_entry", "entered"}
    BY DEF LiveOf
  <2>2. d.adm[r] = "admitted" /\ Cur(d, r) \in {"admitted_awaiting_entry", "entered"}
    BY <2>1, <1>2, <1>8
  <2>3. PICK j \in DOMAIN d.cohorts : SelectedIn(d, j, r)
    BY <2>1, <2>2 DEF Sound, DecisionInv, AdmittedIsSelected
  <2>4. r \in d.cohorts[j].members /\ j # k
    BY <2>3, <1>7, <2>1 DEF SelectedIn, Sound, DecisionInv, SelectionsEnd
  <2>5. r \notin c.members
    BY <2>1, <2>4 DEF Sound, DecisionInv, MembersApart
  <2> QED  BY <2>1, <2>2, <2>5 DEF LiveOf
<1> QED  BY <1>3, <1>9, <1>10, <1>11, <1>12, <1>13, <1>14, <1>15, <1>16
         DEF Sound, DecisionInv

(* While a cohort has no selection, none of its members is admitted.          *)
LEMMA UnselectedIsNotLive ==
  ASSUME NEW d, Sound(d), NEW k \in DOMAIN d.cohorts, d.cohorts[k].sels = << >>,
         NEW r \in d.cohorts[k].members
  PROVE  Cur(d, r) \notin {"admitted_awaiting_entry", "entered"}
<1>1. d \in Dbs /\ r \in Recs
  BY MembersAreRecs DEF Sound
<1>2. SUFFICES ASSUME Cur(d, r) \in {"admitted_awaiting_entry", "entered"} PROVE FALSE
  OBVIOUS
<1>3. PICK j \in DOMAIN d.cohorts : SelectedIn(d, j, r)
  BY <1>1, <1>2 DEF Sound, DecisionInv, AdmittedIsSelected
<1>4. r \in d.cohorts[j].members /\ d.cohorts[j].sels # << >>
  BY <1>3 DEF SelectedIn, Sound, DecisionInv, SelectionsEnd
<1>5. j = k
  BY <1>1, <1>4 DEF Sound, DecisionInv, MembersApart
<1> QED  BY <1>4, <1>5

(* What _record_selection does, if the triggers let it.                       *)
LEMMA RecordEffects ==
  ASSUME Recorded, NEW d, Sound(d), NEW k \in DOMAIN d.cohorts,
         NEW ids \in SUBSET d.cohorts[k].members, NEW mode \in {"automatic", "owner"},
         d.err = "none", SelectionError(d.cohorts[k]) = "none"
  PROVE  \E e \in Dbs : /\ e.err = "none" /\ Recording(d, e, k, ids)
                        /\ RecordSelection(d, k, ids, mode) =
                             IF Fits(LiveOf(e)) THEN e ELSE Raise(e, "current_capacity_exceeded")
<1> DEFINE c == d.cohorts[k]
           sel == [ids |-> ids, mode |-> mode, at |-> now]
           selected == [c EXCEPT !.sels = Append(c.sels, sel)]
           previous == IF c.sels = << >> THEN {} ELSE c.sels[Len(c.sels)].ids
           admitted == [r \in Recs |-> IF r \in ids THEN "admitted"
                                       ELSE IF r \in previous THEN "revoked"
                                       ELSE d.adm[r]]
           cohorts == [d.cohorts EXCEPT ![k] = selected]
           d0 == [d EXCEPT !.cohorts = cohorts]
           d1 == WithSelection(d, k, ids, mode)
           A == {r \in ids : Projected(d1, r, now) = "awaiting_owner_decision"}
           d2 == Transition(d1, A, "admitted_awaiting_entry", now)
           B == {r \in d1.cohorts[k].members \ ids : Projected(d2, r, now) = "admitted_awaiting_entry"}
           d3 == Transition(d2, B, "admission_revoked", now)
           d4 == SettleCohort(d1, k, ids)
<1>20. d1 = [d0 EXCEPT !.adm = admitted]
  BY DEF WithSelection
<1>21. d4 = CloseCohorts(d3, {k}, "selection_recorded", now)
  BY DEF SettleCohort
<1>22. RecordSelection(d, k, ids, mode) =
         IF SelectionError(c) # "none" THEN Raise(d, SelectionError(c))
         ELSE IF Fits(Active(d4)) THEN d4
         ELSE Raise(d4, "current_capacity_exceeded")
  BY DEF RecordSelection
<1> HIDE DEF d4, d3, B, d2, A, d1
<1>1. d \in Dbs /\ c \in Cohort /\ c.members \subseteq Recs /\ now \in Times
  BY MembersAreRecs, NowIsTime DEF Sound
<1>2. c.sels = << >> /\ ~Closed(c)
  BY DEF SelectionError
<1>3. /\ selected \in Cohort /\ SameCohort(c, selected) /\ selected.closure = c.closure
      /\ selected.sels # << >> /\ Len(selected.sels) = 1 /\ selected.sels[1].ids = ids
  <2>1. sel \in Selection /\ sel.ids = ids
    BY <1>1 DEF Selection
  <2>2. PICK ss : ss = Append(c.sels, sel)
    OBVIOUS
  <2>3. ss \in Seq(Selection) /\ Len(ss) = 1 /\ ss[1] = sel /\ ss # << >>
    <3> HIDE DEF sel
    <3> QED  BY <2>1, <2>2, <1>2, EmptySeq
  <2>4. selected = [c EXCEPT !.sels = ss]
    BY <2>2
  <2> HIDE DEF sel, selected, c
  <2>5. selected \in Cohort /\ SameCohort(c, selected) /\ selected.closure = c.closure
        /\ selected.sels = ss
    BY <1>1, <2>3, <2>4 DEF Cohort, SameCohort
  <2> QED  BY <2>1, <2>3, <2>5
<1> HIDE DEF selected
<1>4. /\ cohorts \in Seq(Cohort) /\ DOMAIN cohorts = DOMAIN d.cohorts
      /\ \A j \in DOMAIN d.cohorts : cohorts[j] = IF j = k THEN selected ELSE d.cohorts[j]
  BY <1>1, <1>3, DbFields, ExceptSeq
<1> HIDE DEF cohorts
<1>5. /\ admitted \in [Recs -> {"none", "admitted", "revoked"}]
      /\ admitted = [r \in Recs |-> IF r \in ids THEN "admitted" ELSE d.adm[r]]
  <2>1. previous = {}
    BY <1>2
  <2> HIDE DEF previous
  <2> QED  BY <1>1, <2>1, DbFields
<1> HIDE DEF admitted
<1>6. d0 \in Dbs /\ d0.chain = d.chain /\ d0.err = d.err /\ d0.cohorts = cohorts
  BY <1>1, <1>4 DEF Dbs
<1> HIDE DEF d0
<1>7. /\ d1 \in Dbs /\ d1.chain = d.chain /\ d1.err = "none"
      /\ d1.cohorts = cohorts /\ d1.adm = admitted
  BY <1>5, <1>6, <1>20 DEF Dbs
<1>8. \A r \in Recs : /\ LegalChain(d.chain[r], r, genAt[r], now)
                      /\ Projected(d1, r, now) = Cur(d, r)
  <2> TAKE r \in Recs
  <2>1. LegalChain(d.chain[r], r, genAt[r], now)
    BY DEF Sound, ChainsInv
  <2>2. Projected(d1, r, now) = StateOf(d1.chain[r])
    BY <2>1, <1>7, NowIsTime, ProjectedIsCurrent
  <2> QED  BY <2>1, <2>2, <1>7 DEF Cur
<1>9. /\ A \in SUBSET Recs
      /\ \A r \in Recs : r \in A <=> r \in ids /\ Cur(d, r) = "awaiting_owner_decision"
  BY <1>1, <1>8 DEF A
<1>10. /\ d2 \in Dbs /\ d2.cohorts = cohorts /\ d2.adm = admitted /\ d2.err = "none"
       /\ \A r \in Recs : IF r \in A THEN Moved(d, d2, r, "admitted_awaiting_entry", now)
                                     ELSE d2.chain[r] = d.chain[r]
  <2>1. "admitted_awaiting_entry" \in States \ {"none"}
    BY DEF States, TRANSITIONS
  <2>2. Transitioned(d1, Transition(d1, A, "admitted_awaiting_entry", now), A, "admitted_awaiting_entry", now)
    <3> HIDE DEF d1
    <3>1. d1 \in Dbs /\ A \in SUBSET Recs /\ now \in Times
      BY <1>1, <1>7, <1>9
    <3> QED  BY <3>1, <2>1, TransitionEffects
  <2> USE DEF Transitioned
  <2>3. ASSUME NEW r \in A
        PROVE  /\ ~Has(d.chain[r], "admitted_awaiting_entry")
               /\ Legal(d1, r, "admitted_awaiting_entry", now)
    <3>1. r \in Recs /\ Cur(d, r) = "awaiting_owner_decision"
      BY <1>9
    <3>2. LegalChain(d.chain[r], r, genAt[r], now) /\ Cur(d1, r) = Cur(d, r)
      BY <3>1, <1>8, <1>7 DEF Cur
    <3>3. ~(Rank("admitted_awaiting_entry") < Rank("awaiting_owner_decision"))
      BY DEF Rank
    <3>4. ~Has(d.chain[r], "admitted_awaiting_entry")
      BY <3>1, <3>2, <3>3, PastRanksBelow DEF Cur
    <3>5. "admitted_awaiting_entry" \in TRANSITIONS[Cur(d1, r)]
      BY <3>1, <3>2 DEF TRANSITIONS
    <3> QED  BY <3>1, <3>2, <3>4, <3>5, <1>7, NowIsLegal
  <2>4. d2.err = "none"
    BY <2>2, <2>3, <1>7 DEF d2
  <2>5. ASSUME NEW r \in Recs
        PROVE  IF r \in A THEN Moved(d, d2, r, "admitted_awaiting_entry", now)
                          ELSE d2.chain[r] = d.chain[r]
    <3>1. \/ d2.chain[r] = d1.chain[r] /\ (r \in A => Has(d1.chain[r], "admitted_awaiting_entry"))
          \/ r \in A /\ Moved(d1, d2, r, "admitted_awaiting_entry", now)
      BY <2>2, <2>4 DEF d2
    <3>2. r \in A => ~Has(d1.chain[r], "admitted_awaiting_entry")
      BY <2>3, <1>7
    <3>3. d1.chain[r] = d.chain[r]
      BY <1>7
    <3> QED  BY <3>1, <3>2, <3>3, MovedSame
  <2> QED  BY <2>2, <2>4, <2>5, <1>7 DEF d2
<1>11. \A r \in Recs : LegalChain(d2.chain[r], r, genAt[r], now)
  <2> TAKE r \in Recs
  <2>1. CASE r \in A
    <3>1. Moved(d, d2, r, "admitted_awaiting_entry", now) /\ "admitted_awaiting_entry" \in Moves
      BY <2>1, <1>10, EndStates
    <3>2. now <= now
      BY NowIsTime
    <3> QED  BY <3>1, <3>2, <1>1, <1>8, MovedChain
  <2>2. CASE r \notin A
    BY <2>2, <1>8, <1>10
  <2> QED  BY <2>1, <2>2
<1>12. B = {}
  <2>4. d1.cohorts[k].members = c.members
    BY <1>3, <1>4, <1>7 DEF SameCohort
  <2> SUFFICES ASSUME NEW r \in c.members \ ids,
                      Projected(d2, r, now) = "admitted_awaiting_entry"
               PROVE  FALSE
    BY <2>4 DEF B
  <2>1. r \in Recs /\ r \notin A
    BY <1>1, <1>9
  <2>2. Projected(d2, r, now) = Cur(d2, r)
    BY <2>1, <1>11, NowIsTime, ProjectedIsCurrent DEF Cur
  <2>3. Cur(d2, r) = Cur(d, r)
    BY <2>1, <1>10 DEF Cur
  <2> QED  BY <2>2, <2>3, <1>2, UnselectedIsNotLive
<1>13. /\ d3 \in Dbs /\ d3.cohorts = cohorts /\ d3.adm = admitted /\ d3.err = "none"
       /\ \A r \in Recs : d3.chain[r] = d2.chain[r]
  <2>1. "admission_revoked" \in States \ {"none"}
    BY DEF States, TRANSITIONS
  <2>2. B \in SUBSET Recs
    BY <1>12
  <2>3. Transitioned(d2, Transition(d2, B, "admission_revoked", now), B, "admission_revoked", now)
    <3>1. d2 \in Dbs /\ now \in Times
      BY <1>1, <1>10
    <3> QED  BY <3>1, <2>1, <2>2, TransitionEffects
  <2> USE DEF Transitioned
  <2> QED  BY <2>3, <1>10, <1>12 DEF d3
<1> DEFINE P == Pending(d3, {k}, now)
<1>14. \A r \in Recs : r \in P <=> r \in c.members /\ Cur(d2, r) = "awaiting_owner_decision"
  <2> TAKE r \in Recs
  <2>1. d3.chain[r] = d2.chain[r]
    BY <1>13
  <2>2. LegalChain(d3.chain[r], r, genAt[r], now)
    BY <1>11, <2>1
  <2>3. Projected(d3, r, now) = Cur(d2, r)
    BY <2>1, <2>2, NowIsTime, ProjectedIsCurrent DEF Cur
  <2>4. d3.cohorts[k].members = c.members
    BY <1>3, <1>4, <1>13 DEF SameCohort
  <2> QED  BY <2>3, <2>4 DEF Pending
<1>15. /\ d4 \in Dbs /\ d4.adm = admitted /\ d4.err = "none"
       /\ DOMAIN d4.cohorts = DOMAIN d.cohorts
       /\ \A j \in DOMAIN d.cohorts :
            /\ SameCohort(cohorts[j], d4.cohorts[j])
            /\ d4.cohorts[j].sels = cohorts[j].sels
            /\ Closed(d4.cohorts[j]) <=> Closed(cohorts[j]) \/ j \in {k}
       /\ \A r \in Recs : IF r \in P THEN Moved(d3, d4, r, "closed_unselected", now)
                                     ELSE d4.chain[r] = d3.chain[r]
  <2> HIDE DEF P
  <2>1. {k} \in SUBSET DOMAIN d3.cohorts /\ "selection_recorded" \in Closures
    BY <1>4, <1>13 DEF Closures
  <2>2. CohortsClosed(d3, CloseCohorts(d3, {k}, "selection_recorded", now), {k}, now)
    BY <1>1, <1>13, <2>1, CloseEffects
  <2> USE DEF CohortsClosed
  <2>3. ASSUME NEW r \in P
        PROVE  /\ ~Has(d3.chain[r], "closed_unselected")
               /\ Legal(d3, r, "closed_unselected", now)
    <3>1. r \in Recs
      BY <2>2 DEF P
    <3>2. LegalChain(d3.chain[r], r, genAt[r], now) /\ Cur(d3, r) = "awaiting_owner_decision"
      BY <3>1, <2>3, <1>11, <1>13, <1>14 DEF Cur
    <3>3. ~(Rank("closed_unselected") < Rank("awaiting_owner_decision"))
      BY DEF Rank
    <3>4. ~Has(d3.chain[r], "closed_unselected")
      BY <3>2, <3>3, PastRanksBelow DEF Cur
    <3>5. "closed_unselected" \in TRANSITIONS[Cur(d3, r)]
      BY <3>2 DEF TRANSITIONS
    <3> QED  BY <3>1, <3>2, <3>4, <3>5, NowIsLegal
  <2>4. d4.err = "none"
    BY <2>2, <2>3, <1>13, <1>21 DEF P
  <2>5. \A r \in Recs : IF r \in P THEN Moved(d3, d4, r, "closed_unselected", now)
                                  ELSE d4.chain[r] = d3.chain[r]
    BY <2>2, <2>3, <2>4, <1>21 DEF P
  <2> QED  BY <2>2, <2>4, <2>5, <1>4, <1>13, <1>21
<1> HIDE DEF P
<1>16. ASSUME NEW r \in Recs
       PROVE  IF r \in c.members /\ Cur(d, r) = "awaiting_owner_decision"
              THEN IF r \in ids THEN Moved(d, d4, r, "admitted_awaiting_entry", now)
                                ELSE Moved(d, d4, r, "closed_unselected", now)
              ELSE d4.chain[r] = d.chain[r]
  <2>1. CASE r \in A
    <3>1. Moved(d, d2, r, "admitted_awaiting_entry", now) /\ "admitted_awaiting_entry" \in Moves
          /\ now <= now
      BY <2>1, <1>10, EndStates, NowIsTime
    <3>2. Cur(d2, r) = "admitted_awaiting_entry"
      BY <3>1, <1>1, <1>8, MovedChain
    <3>3. d4.chain[r] = d2.chain[r]
      BY <3>2, <1>13, <1>14, <1>15
    <3>4. Moved(d, d4, r, "admitted_awaiting_entry", now)
      BY <3>1, <3>3, MovedSame
    <3> QED  BY <3>4, <2>1, <1>9
  <2>2. CASE r \notin A
    <3>1. d2.chain[r] = d.chain[r] /\ d3.chain[r] = d.chain[r] /\ Cur(d2, r) = Cur(d, r)
      BY <2>2, <1>10, <1>13 DEF Cur
    <3>2. CASE r \in P
      <4>1. Moved(d, d4, r, "closed_unselected", now)
        BY <3>1, <3>2, <1>15, MovedSame
      <4> QED  BY <4>1, <3>1, <3>2, <2>2, <1>9, <1>14
    <3>3. CASE r \notin P
      <4>1. d4.chain[r] = d.chain[r]
        BY <3>1, <3>3, <1>15
      <4> QED  BY <4>1, <3>1, <3>3, <1>9, <1>14, <2>2
    <3> QED  BY <3>2, <3>3
  <2> QED  BY <2>1, <2>2
<1>17. Recording(d, d4, k, ids)
  <2>1. ASSUME NEW j \in DOMAIN d.cohorts
        PROVE  /\ SameCohort(d.cohorts[j], d4.cohorts[j])
               /\ j # k => /\ d4.cohorts[j].sels = d.cohorts[j].sels
                           /\ Closed(d4.cohorts[j]) <=> Closed(d.cohorts[j])
    BY <1>3, <1>4, <1>15 DEF SameCohort
  <2>2. /\ d4.cohorts[k].sels # << >> /\ Len(d4.cohorts[k].sels) = 1
        /\ d4.cohorts[k].sels[1].ids = ids /\ Closed(d4.cohorts[k])
    BY <1>3, <1>4, <1>15
  <2> QED  BY <2>1, <2>2, <1>5, <1>15, <1>16 DEF Recording
<1>18. Active(d4) = LiveOf(d4)
  BY <1>2, <1>15, <1>17, RecordingIsSound, ActiveIsLive
<1> QED  BY <1>15, <1>17, <1>18, <1>22

\* From d to e a cohort's selection only changes in its window, before any
\* member's entry level is seen to be reached.
Follows(d, e) ==
  /\ DOMAIN d.cohorts \subseteq DOMAIN e.cohorts
  /\ \A k \in DOMAIN d.cohorts : SameCohort(d.cohorts[k], e.cohorts[k])
  /\ \A k \in DOMAIN e.cohorts :
       /\ e.cohorts[k].sels # << >>
       /\ k \in DOMAIN d.cohorts => e.cohorts[k].sels # d.cohorts[k].sels
       => /\ now < e.cohorts[k].deadline
          /\ \A r \in e.cohorts[k].members : seenAt[r] = 0

LEMMA KeptFollows ==
  ASSUME NEW d, NEW e, CohortsKept(d, e)
  PROVE  Follows(d, e)
  BY DEF CohortsKept, Follows

LEMMA FollowsIsTransitive ==
  ASSUME NEW d, NEW e, NEW f, Follows(d, e), Follows(e, f)
  PROVE  Follows(d, f)
<1>1. DOMAIN d.cohorts \subseteq DOMAIN e.cohorts /\ DOMAIN e.cohorts \subseteq DOMAIN f.cohorts
  BY DEF Follows
<1>2. \A k \in DOMAIN d.cohorts : SameCohort(d.cohorts[k], f.cohorts[k])
  BY DEF Follows, SameCohort
<1>3. ASSUME NEW k \in DOMAIN f.cohorts, f.cohorts[k].sels # << >>,
             k \in DOMAIN d.cohorts => f.cohorts[k].sels # d.cohorts[k].sels
      PROVE  now < f.cohorts[k].deadline /\ \A r \in f.cohorts[k].members : seenAt[r] = 0
  <2>1. CASE k \in DOMAIN e.cohorts => f.cohorts[k].sels # e.cohorts[k].sels
    BY <2>1, <1>3 DEF Follows
  <2>2. CASE k \in DOMAIN e.cohorts /\ f.cohorts[k].sels = e.cohorts[k].sels
    <3>1. now < e.cohorts[k].deadline /\ \A r \in e.cohorts[k].members : seenAt[r] = 0
      BY <2>2, <1>3 DEF Follows
    <3>2. SameCohort(e.cohorts[k], f.cohorts[k])
      BY <2>2 DEF Follows
    <3> QED  BY <3>1, <3>2 DEF SameCohort
  <2> QED  BY <2>1, <2>2
<1> QED  BY <1>1, <1>2, <1>3 DEF Follows

LEMMA RaiseEffects ==
  ASSUME NEW d \in Dbs, NEW x \in Errors \ {"none"}
  PROVE  /\ Raise(d, x) \in Dbs /\ Raise(d, x).err # "none"
         /\ d.err = "none" => Raise(d, x).err = x
  BY DEF Raise, Dbs

(* A selection without hindsight.                                             *)
LEMMA RecordingFollows ==
  ASSUME Recorded, NEW d, Sound(d), NEW e, NEW k \in DOMAIN d.cohorts, NEW ids,
         Recording(d, e, k, ids), SelectionError(d.cohorts[k]) = "none"
  PROVE  Follows(d, e)
<1> DEFINE c == d.cohorts[k]
<1>1. now < c.deadline /\ ~Triggered(c, now)
  <2>1. c \in Cohort
    BY MembersAreRecs DEF Sound
  <2>2. c.deadline \in Nat
    BY <2>1, CohortFields
  <2>3. ~(now >= c.deadline) /\ ~Triggered(c, now)
    BY DEF SelectionError
  <2> QED  BY <2>2, <2>3, NowIsTime
<1>2. \A r \in c.members : seenAt[r] = 0
  <2> SUFFICES ASSUME NEW r \in c.members PROVE seenAt[r] = 0
    OBVIOUS
  <2>1. r \in Recs
    BY MembersAreRecs DEF Sound
  <2>2. seenAt[r] \in Nat /\ seenAt[r] <= now
    BY <2>1, TimesAreNat DEF Recorded
  <2>3. seenAt[r] \notin 1..now
    BY <1>1 DEF Triggered
  <2> QED  BY <2>2, <2>3, NowIsTime
<1>3. SameCohort(c, e.cohorts[k])
  BY DEF Recording
<1>4. now < e.cohorts[k].deadline /\ \A r \in e.cohorts[k].members : seenAt[r] = 0
  BY <1>1, <1>2, <1>3 DEF SameCohort
<1> QED  BY <1>4 DEF Recording, Follows

(* _record_selection, whole.                                                  *)
LEMMA RecordOutcome ==
  ASSUME Recorded, NEW d, Sound(d), NEW k \in DOMAIN d.cohorts,
         NEW ids \in SUBSET d.cohorts[k].members, NEW mode \in {"automatic", "owner"},
         d.err = "none"
  PROVE  LET e == RecordSelection(d, k, ids, mode)
         IN /\ e \in Dbs
            /\ e.err = "none" => Sound(e) /\ Recording(d, e, k, ids) /\ Follows(d, e)
            /\ SelectionError(d.cohorts[k]) # "none" => e.err = SelectionError(d.cohorts[k])
            /\ /\ SelectionError(d.cohorts[k]) = "none"
               /\ Fits((LiveOf(d) \ d.cohorts[k].members) \cup ids)
               => e.err = "none"
<1> DEFINE c == d.cohorts[k]
           e == RecordSelection(d, k, ids, mode)
<1>1. d \in Dbs /\ c.members \subseteq Recs
  BY MembersAreRecs DEF Sound
<1>2. CASE SelectionError(c) # "none"
  <2>1. SelectionError(c) \in Errors \ {"none"}
    BY <1>2 DEF SelectionError, Errors
  <2>2. e = Raise(d, SelectionError(c))
    BY <1>2 DEF RecordSelection
  <2> QED  BY <2>1, <2>2, <1>1, <1>2, RaiseEffects
<1>3. CASE SelectionError(c) = "none"
  <2>1. PICK f \in Dbs : /\ f.err = "none" /\ Recording(d, f, k, ids)
                         /\ e = IF Fits(LiveOf(f)) THEN f
                                ELSE Raise(f, "current_capacity_exceeded")
    BY <1>3, RecordEffects
  <2> HIDE DEF e
  <2>2. c.sels = << >>
    BY <1>3 DEF SelectionError
  <2>3. /\ LiveOf(f) \subseteq (LiveOf(d) \ c.members) \cup ids
        /\ Fits(LiveOf(f)) => Sound(f)
    BY <2>1, <2>2, RecordingIsSound
  <2>4. Follows(d, f)
    BY <2>1, <1>3, RecordingFollows
  <2>5. CASE Fits(LiveOf(f))
    BY <2>1, <2>3, <2>4, <2>5, <1>3 DEF e
  <2>6. CASE ~Fits(LiveOf(f))
    <3>1. "current_capacity_exceeded" \in Errors \ {"none"}
      BY DEF Errors
    <3>2. e \in Dbs /\ e.err # "none"
      BY <2>1, <2>6, <3>1, RaiseEffects
    <3>3. ~Fits((LiveOf(d) \ c.members) \cup ids)
      <4>1. (LiveOf(d) \ c.members) \cup ids \in SUBSET Recs
        BY <1>1 DEF LiveOf
      <4> QED  BY <4>1, <2>3, <2>6, FitsIsMonotone
    <3> QED  BY <3>2, <3>3, <1>3 DEF e
  <2> QED  BY <2>5, <2>6
<1> QED  BY <1>2, <1>3

-----------------------------------------------------------------------------
(* A new cohort.                                                              *)

\* The cohort `new` is put to the owner and the cohorts of old are closed.
Opening(d, e, new, old) ==
  /\ e.adm = d.adm
  /\ Len(e.cohorts) = Len(d.cohorts) + 1
  /\ \A k \in DOMAIN d.cohorts :
       /\ SameCohort(d.cohorts[k], e.cohorts[k])
       /\ e.cohorts[k].sels = d.cohorts[k].sels
       /\ Closed(e.cohorts[k]) <=> Closed(d.cohorts[k]) \/ k \in old
  /\ LET n == Len(d.cohorts) + 1
     IN /\ SameCohort(new, e.cohorts[n])
        /\ e.cohorts[n].sels = << >> /\ ~Closed(e.cohorts[n])
  /\ \A r \in Recs : IF r \in new.members
                     THEN Moved(d, e, r, "awaiting_owner_decision", now)
                     ELSE Ended(d, e, r)

\* The recommendations of S wait to be assessed, their targets differ, and no
\* open cohort decides about one of these.
Assessable(d, S) ==
  /\ S \in SUBSET Recs
  /\ \A r \in S : Cur(d, r) = "awaiting_portfolio_assessment"
  /\ \A r, q \in S : target[r] = target[q] => r = q
  /\ \A k \in DOMAIN d.cohorts : ~Closed(d.cohorts[k]) =>
       \A q \in d.cohorts[k].members, r \in S : target[q] # target[r]

(* Opening a cohort of recommendations that can be assessed, and closing the  *)
(* older ones of their instruments, keeps the rows sound.                     *)
LEMMA OpeningIsSound ==
  ASSUME Recorded, NEW d, Sound(d), NEW e \in Dbs, NEW new, new.gen \in Times,
         new.gen <= now, Assessable(d, new.members),
         Opening(d, e, new, Superseded(d, new))
  PROVE  Sound(e) /\ LiveOf(e) \subseteq LiveOf(d)
<1> DEFINE S == new.members
           n == Len(d.cohorts) + 1
           old == Superseded(d, new)
<1>1. d \in Dbs /\ S \subseteq Recs
  BY DEF Sound, Assessable
<1>2. ASSUME NEW r \in Recs
      PROVE  /\ LegalChain(e.chain[r], r, genAt[r], now)
             /\ \A x : Has(d.chain[r], x) => Has(e.chain[r], x)
             /\ r \in S => /\ Cur(e, r) = "awaiting_owner_decision"
                           /\ Has(e.chain[r], "awaiting_owner_decision")
                           /\ ~Has(d.chain[r], "awaiting_owner_decision")
             /\ r \notin S => \/ Cur(e, r) = Cur(d, r)
                              \/ Cur(e, r) \in Ends \ {"abstained"}
             /\ FactsOf(e, r, entryAt, result)
  <2>1. LegalChain(d.chain[r], r, genAt[r], now) /\ FactsOf(d, r, entryAt, result)
    BY DEF Sound, ChainsInv, FactsInv
  <2>9. result[r].outcome \in DOMAIN OutcomeState \cup {"none"}
    BY DEF Recorded
  <2>2. CASE r \in S
    <3>1. Moved(d, e, r, "awaiting_owner_decision", now)
          /\ Cur(d, r) = "awaiting_portfolio_assessment"
      BY <2>2 DEF Opening, Assessable
    <3>2. "awaiting_owner_decision" \in Moves /\ now \in Times /\ now <= now
      BY EndStates, NowIsTime
    <3>3. /\ LegalChain(e.chain[r], r, genAt[r], now)
          /\ Cur(e, r) = "awaiting_owner_decision"
          /\ \A x : Has(e.chain[r], x) <=> Has(d.chain[r], x) \/ x = "awaiting_owner_decision"
      BY <2>1, <3>1, <3>2, MovedChain
    <3>4. ~Has(d.chain[r], "awaiting_owner_decision") /\ ~Has(d.chain[r], "entered")
      <4>1. /\ ~(Rank("awaiting_owner_decision") < Rank("awaiting_portfolio_assessment"))
            /\ ~(Rank("entered") < Rank("awaiting_portfolio_assessment"))
        BY DEF Rank
      <4> QED  BY <4>1, <2>1, <3>1, PastRanksBelow DEF Cur
    <3>5. result[r].outcome = "none" /\ entryAt[r] = 0
      <4>1. "awaiting_portfolio_assessment" \notin Ends
        BY EndStates
      <4> QED  BY <4>1, <2>9, <2>1, <3>1, <3>4, OutcomesEnd DEF FactsOf
    <3>6. FactsOf(e, r, entryAt, result)
      BY <3>3, <3>5 DEF FactsOf
    <3> QED  BY <3>3, <3>4, <3>6, <2>2
  <2>3. CASE r \notin S /\ e.chain[r] = d.chain[r]
    BY <2>1, <2>3 DEF Cur, FactsOf
  <2>4. CASE r \notin S /\ e.chain[r] # d.chain[r]
    <3>1. PICK s \in Ends \ {"abstained"}, at \in Times : at <= now /\ Moved(d, e, r, s, at)
      BY <2>4 DEF Opening, Ended
    <3>2. s \in Moves
      BY EndStates
    <3>3. /\ LegalChain(e.chain[r], r, genAt[r], now)
          /\ Cur(e, r) = s /\ Cur(d, r) \in States /\ s \in TRANSITIONS[Cur(d, r)]
          /\ \A x : Has(e.chain[r], x) <=> Has(d.chain[r], x) \/ x = s
      BY <2>1, <3>1, <3>2, MovedChain
    <3>4. Cur(d, r) \notin Ends
      BY <3>3 DEF Ends
    <3>5. result[r].outcome = "none"
      BY <2>9, <2>1, <3>4, OutcomesEnd DEF FactsOf
    <3>6. Cur(e, r) \notin {"entered", "admitted_awaiting_entry"}
      BY <3>3, EndStates
    <3> QED  BY <3>3, <3>5, <3>6, <2>1, <2>4 DEF FactsOf
  <2> QED  BY <2>2, <2>3, <2>4
<1>3. ChainsInv(e, genAt, now) /\ FactsInv(e, entryAt, result)
  BY <1>2 DEF ChainsInv, FactsInv
<1>4. /\ Len(d.cohorts) \in Nat /\ n \in Nat
      /\ DOMAIN d.cohorts = 1..Len(d.cohorts) /\ DOMAIN e.cohorts = 1..n
      /\ DOMAIN e.cohorts = DOMAIN d.cohorts \cup {n} /\ n \notin DOMAIN d.cohorts
      /\ \A k \in DOMAIN d.cohorts : k < n /\ ~(n < k)
  <2>1. d.cohorts \in Seq(Cohort) /\ e.cohorts \in Seq(Cohort)
    BY <1>1, DbFields
  <2>2. Len(e.cohorts) = n
    BY DEF Opening
  <2> QED  BY <2>1, <2>2
<1> HIDE DEF n, old
<1>5. ASSUME NEW k \in DOMAIN d.cohorts
      PROVE  /\ e.cohorts[k].members = d.cohorts[k].members
             /\ e.cohorts[k].gen = d.cohorts[k].gen
             /\ e.cohorts[k].sels = d.cohorts[k].sels
             /\ Closed(e.cohorts[k]) <=> Closed(d.cohorts[k]) \/ k \in old
             /\ d.cohorts[k].members \subseteq Recs
             /\ \A r \in d.cohorts[k].members : r \notin S
  <2>1. d.cohorts[k].members \subseteq Recs
    BY <1>1, MembersAreRecs
  <2>2. \A r \in d.cohorts[k].members : Has(d.chain[r], "awaiting_owner_decision")
    BY DEF Sound, DecisionInv, MembersPut
  <2>3. \A r \in d.cohorts[k].members : r \notin S
    BY <2>1, <2>2, <1>2
  <2> QED  BY <2>1, <2>3 DEF Opening, SameCohort, old
<1>6. /\ e.cohorts[n].members = S /\ e.cohorts[n].gen = new.gen
      /\ e.cohorts[n].sels = << >> /\ ~Closed(e.cohorts[n])
  BY DEF Opening, SameCohort, n
<1>7. MembersPut(e)
  <2> SUFFICES ASSUME NEW k \in DOMAIN e.cohorts, NEW r \in e.cohorts[k].members
               PROVE  Has(e.chain[r], "awaiting_owner_decision")
    BY DEF MembersPut
  <2>1. CASE k = n
    BY <2>1, <1>1, <1>2, <1>6
  <2>2. CASE k \in DOMAIN d.cohorts
    <3>1. r \in d.cohorts[k].members /\ r \in Recs
      BY <2>2, <1>5
    <3>2. Has(d.chain[r], "awaiting_owner_decision")
      BY <2>2, <3>1 DEF Sound, DecisionInv, MembersPut
    <3> QED  BY <3>1, <3>2, <1>2
  <2> QED  BY <2>1, <2>2, <1>4
<1>8. MembersApart(e)
  <2> SUFFICES ASSUME NEW j \in DOMAIN e.cohorts, NEW k \in DOMAIN e.cohorts,
                      NEW r \in Recs, r \in e.cohorts[j].members, r \in e.cohorts[k].members
               PROVE  j = k
    BY DEF MembersApart
  <2>1. CASE j \in DOMAIN d.cohorts /\ k \in DOMAIN d.cohorts
    BY <2>1, <1>5 DEF Sound, DecisionInv, MembersApart
  <2>2. CASE j = n \/ k = n
    BY <2>2, <1>4, <1>5, <1>6
  <2> QED  BY <2>1, <2>2, <1>4
<1>9. SelectionsEnd(e)
  <2> SUFFICES ASSUME NEW k \in DOMAIN d.cohorts, e.cohorts[k].sels # << >>
               PROVE  /\ Len(e.cohorts[k].sels) = 1 /\ Closed(e.cohorts[k])
                      /\ e.cohorts[k].sels[1].ids \subseteq e.cohorts[k].members
                      /\ \A r \in e.cohorts[k].members : Cur(e, r) # "awaiting_owner_decision"
    BY <1>4, <1>6 DEF SelectionsEnd
  <2>1. /\ Len(d.cohorts[k].sels) = 1 /\ Closed(d.cohorts[k])
        /\ d.cohorts[k].sels[1].ids \subseteq d.cohorts[k].members
        /\ \A r \in d.cohorts[k].members : Cur(d, r) # "awaiting_owner_decision"
    BY <1>5 DEF Sound, DecisionInv, SelectionsEnd
  <2>2. "awaiting_owner_decision" \notin Ends
    BY EndStates
  <2>3. \A r \in d.cohorts[k].members : Cur(e, r) # "awaiting_owner_decision"
    BY <2>1, <2>2, <1>2, <1>5
  <2> QED  BY <2>1, <2>3, <1>5
<1>10. \A r \in Recs : Cur(e, r) \in {"admitted_awaiting_entry", "entered"} => Cur(e, r) = Cur(d, r)
  BY <1>2, EndStates
<1>11. AdmittedIsSelected(e)
  <2>1. \A k \in DOMAIN d.cohorts, r \in Recs : SelectedIn(e, k, r) <=> SelectedIn(d, k, r)
    BY <1>5 DEF SelectedIn
  <2>2. \A r \in Recs : ~SelectedIn(e, n, r)
    BY <1>6 DEF SelectedIn
  <2>3. e.adm = d.adm
    BY DEF Opening
  <2> SUFFICES ASSUME NEW r \in Recs
               PROVE  /\ e.adm[r] = "admitted" <=> \E k \in DOMAIN e.cohorts : SelectedIn(e, k, r)
                      /\ Cur(e, r) \in {"admitted_awaiting_entry", "entered"} => e.adm[r] = "admitted"
    BY DEF AdmittedIsSelected
  <2>4. /\ d.adm[r] = "admitted" <=> \E k \in DOMAIN d.cohorts : SelectedIn(d, k, r)
        /\ Cur(d, r) \in {"admitted_awaiting_entry", "entered"} => d.adm[r] = "admitted"
    BY DEF Sound, DecisionInv, AdmittedIsSelected
  <2> QED  BY <2>1, <2>2, <2>3, <2>4, <1>4, <1>10
<1>12. LaterCloses(e, inst)
  <2> SUFFICES ASSUME NEW k \in DOMAIN e.cohorts, NEW m \in DOMAIN e.cohorts,
                      k < m, e.cohorts[k].gen < e.cohorts[m].gen,
                      NEW r \in e.cohorts[k].members, NEW q \in e.cohorts[m].members,
                      inst[r] = inst[q]
               PROVE  Closed(e.cohorts[k])
    BY DEF LaterCloses
  <2>1. k \in DOMAIN d.cohorts
    BY <1>4
  <2>2. CASE m \in DOMAIN d.cohorts
    <3>1. Closed(d.cohorts[k])
      BY <2>1, <2>2, <1>5 DEF Sound, DecisionInv, LaterCloses
    <3> QED  BY <3>1, <2>1, <1>5
  <2>3. CASE m = n
    <3>1. q \in S /\ r \in d.cohorts[k].members /\ d.cohorts[k].gen < new.gen
      BY <2>1, <2>3, <1>5, <1>6
    <3>2. Closed(d.cohorts[k]) \/ k \in old
      BY <3>1, <2>1 DEF old, Superseded
    <3> QED  BY <3>2, <2>1, <1>5
  <2> QED  BY <2>2, <2>3, <1>4
<1>13. OpenTargetsApart(e, target)
  <2> SUFFICES ASSUME NEW j \in DOMAIN e.cohorts, NEW k \in DOMAIN e.cohorts,
                      ~Closed(e.cohorts[j]), ~Closed(e.cohorts[k]),
                      NEW r \in e.cohorts[j].members, NEW q \in e.cohorts[k].members,
                      target[r] = target[q]
               PROVE  r = q
    BY DEF OpenTargetsApart
  <2>1. CASE j \in DOMAIN d.cohorts /\ k \in DOMAIN d.cohorts
    BY <2>1, <1>5 DEF Sound, DecisionInv, OpenTargetsApart
  <2>2. CASE j = n /\ k = n
    BY <2>2, <1>6 DEF Assessable
  <2>3. CASE j \in DOMAIN d.cohorts /\ k = n
    BY <2>3, <1>5, <1>6 DEF Assessable
  <2>4. CASE j = n /\ k \in DOMAIN d.cohorts
    BY <2>4, <1>5, <1>6 DEF Assessable
  <2> QED  BY <2>1, <2>2, <2>3, <2>4, <1>4
<1>14. CohortsPast(e, now)
  BY <1>4, <1>5, <1>6 DEF CohortsPast, Sound, DecisionInv
<1>15. LiveOf(e) \subseteq LiveOf(d)
  BY <1>10 DEF LiveOf, Opening
<1>16. Fits(LiveOf(e))
  <2>1. LiveOf(d) \in SUBSET Recs /\ LiveOf(e) \in SUBSET LiveOf(d) /\ Fits(LiveOf(d))
    BY <1>15 DEF LiveOf, Sound
  <2> QED  BY <2>1, FitsIsMonotone
<1> QED  BY <1>3, <1>7, <1>8, <1>9, <1>11, <1>12, <1>13, <1>14, <1>15, <1>16
         DEF Sound, DecisionInv

LEMMA TransitionIsMove ==
  ASSUME Recorded, NEW d \in Dbs, d.err = "none", NEW S \in SUBSET Recs,
         NEW s \in States \ {"none"},
         \A r \in S : /\ LegalChain(d.chain[r], r, genAt[r], now)
                      /\ s \in TRANSITIONS[Cur(d, r)] /\ ~Has(d.chain[r], s)
  PROVE  LET e == Transition(d, S, s, now)
         IN /\ e \in Dbs /\ e.err = "none"
            /\ e.cohorts = d.cohorts /\ e.adm = d.adm /\ e.refusal = d.refusal
            /\ \A r \in Recs : IF r \in S THEN Moved(d, e, r, s, now)
                                          ELSE e.chain[r] = d.chain[r]
<1> DEFINE e == Transition(d, S, s, now)
<1>1. now \in Times
  BY NowIsTime
<1>2. Transitioned(d, e, S, s, now)
  BY <1>1, TransitionEffects
<1> HIDE DEF e
<1>3. \A r \in S : Legal(d, r, s, now)
  BY NowIsLegal
<1>4. e.err = "none"
  BY <1>2, <1>3 DEF Transitioned
<1>5. \A r \in Recs : IF r \in S THEN Moved(d, e, r, s, now)
                                 ELSE e.chain[r] = d.chain[r]
  <2> SUFFICES ASSUME NEW r \in Recs
               PROVE  IF r \in S THEN Moved(d, e, r, s, now) ELSE e.chain[r] = d.chain[r]
    OBVIOUS
  <2>1. \/ e.chain[r] = d.chain[r] /\ (r \in S => Has(d.chain[r], s))
        \/ r \in S /\ Moved(d, e, r, s, now)
    BY <1>2, <1>4 DEF Transitioned
  <2> QED  BY <2>1
<1>6. /\ e \in Dbs
      /\ e.cohorts = d.cohorts /\ e.adm = d.adm /\ e.refusal = d.refusal
  BY <1>2 DEF Transitioned
<1> QED  BY <1>4, <1>5, <1>6 DEF e

(* The times of a recommendation's decision.                                  *)
LEMMA DeadlineIsNat ==
  ASSUME Recorded, NEW r \in Recs
  PROVE  Deadline(r) \in Nat
<1>1. genAt[r] + Window \in Nat /\ Maturity(r) \in Nat
  <2>1. genAt[r] \in Nat /\ target[r] \in Recs
    BY TimesAreNat DEF Recorded
  <2>2. genAt[target[r]] \in Nat
    BY <2>1, TimesAreNat DEF Recorded
  <2>3. Window \in Nat /\ Horizon \in Nat
    BY ConstantsAssumption
  <2> QED  BY <2>1, <2>2, <2>3 DEF Maturity
<1> DEFINE T == {genAt[r] + Window, Maturity(r)}
<1>2. T \subseteq Nat /\ T # {}
  BY <1>1
<1>3. Min(T) \in T
  <2> HIDE DEF T
  <2> QED  BY <1>2, MinIsLeast
<1> QED  BY <1>2, <1>3 DEF Deadline

LEMMA NewCohortIsCohort ==
  ASSUME Recorded, NEW d, Sound(d), NEW S \in SUBSET Recs, S # {}, NEW g \in Times
  PROVE  LET new == NewCohort(d, S, g)
         IN /\ new \in Cohort /\ new.members = S /\ new.gen = g
            /\ new.base = LiveOf(d) \ S
            /\ new.sels = << >> /\ ~Closed(new)
<1> DEFINE T == {Deadline(r) : r \in S}
           new == NewCohort(d, S, g)
<1>1. T \subseteq Nat /\ T # {}
  BY DeadlineIsNat
<1>2. Min(T) \in Nat
  <2> HIDE DEF T
  <2> QED  BY <1>1, MinIsLeast
<1>3. Active(d) = LiveOf(d)
  BY ActiveIsLive DEF Sound
<1>4. PICK m \in Nat : m = Min(T)
  BY <1>2
<1>5. PICK b \in SUBSET Recs : b = LiveOf(d) \ S
  BY DEF LiveOf
<1>6. PICK ss \in Seq(Selection) : ss = << >>
  BY EmptySeq
<1>7. new = [members |-> S, gen |-> g, base |-> b, sels |-> ss, deadline |-> m,
             closure |-> "none"]
  BY <1>3, <1>4, <1>5, <1>6, Zenon DEF NewCohort
<1> HIDE DEF new
<1>8. new \in Cohort
  BY <1>7 DEF Cohort
<1> QED  BY <1>5, <1>6, <1>7, <1>8 DEF new, Closed

(* The cohort is put to the owner without an error.                           *)
LEMMA PutEffects ==
  ASSUME Recorded, NEW d, Sound(d), d.err = "none", NEW new \in Cohort,
         new.sels = << >>, ~Closed(new), Assessable(d, new.members)
  PROVE  LET e == PutToOwner(d, new)
         IN /\ e \in Dbs /\ e.err = "none" /\ Opening(d, e, new, Superseded(d, new))
            /\ \A k \in DOMAIN d.cohorts : k \in DOMAIN e.cohorts
<1> DEFINE S == new.members
           n == Len(d.cohorts) + 1
           old == Superseded(d, new)
           cohorts == Append(d.cohorts, new)
           d1 == [d EXCEPT !.cohorts = cohorts]
           d2 == Transition(d1, S, "awaiting_owner_decision", now)
           e == PutToOwner(d, new)
           P == Pending(d2, old, now)
<1>1. e = CloseCohorts(d2, old, "new_target_superseded", now)
  BY DEF PutToOwner
<1> HIDE DEF e, d2, d1, P
<1>2. d \in Dbs /\ S \in SUBSET Recs /\ now \in Times
  BY CohortFields, NowIsTime DEF Sound
<1>3. /\ cohorts \in Seq(Cohort) /\ Len(d.cohorts) \in Nat /\ Len(cohorts) = n
      /\ DOMAIN d.cohorts = 1..Len(d.cohorts) /\ DOMAIN cohorts = 1..n
      /\ \A k \in DOMAIN d.cohorts : cohorts[k] = d.cohorts[k]
      /\ cohorts[n] = new
  BY <1>2, DbFields
<1> HIDE DEF cohorts
<1>4. /\ d1 \in Dbs /\ d1.chain = d.chain /\ d1.adm = d.adm /\ d1.cohorts = cohorts
      /\ d1.err = "none"
  BY <1>2, <1>3 DEF Dbs, d1
<1>5. ASSUME NEW r \in S
      PROVE  /\ LegalChain(d1.chain[r], r, genAt[r], now)
             /\ "awaiting_owner_decision" \in TRANSITIONS[Cur(d1, r)]
             /\ ~Has(d1.chain[r], "awaiting_owner_decision")
  <2>1. LegalChain(d1.chain[r], r, genAt[r], now)
    BY <1>2, <1>4 DEF Sound, ChainsInv
  <2>2. Cur(d1, r) = "awaiting_portfolio_assessment"
    BY <1>4 DEF Assessable, Cur
  <2>3. ~(Rank("awaiting_owner_decision") < Rank("awaiting_portfolio_assessment"))
    BY DEF Rank
  <2>4. ~Has(d1.chain[r], "awaiting_owner_decision")
    BY <2>1, <2>2, <2>3, PastRanksBelow DEF Cur
  <2>5. "awaiting_owner_decision" \in TRANSITIONS[Cur(d1, r)]
    BY <2>2 DEF TRANSITIONS
  <2> QED  BY <2>1, <2>4, <2>5
<1>6. /\ d2 \in Dbs /\ d2.err = "none" /\ d2.cohorts = cohorts /\ d2.adm = d.adm
      /\ \A r \in Recs : IF r \in S THEN Moved(d1, d2, r, "awaiting_owner_decision", now)
                                    ELSE d2.chain[r] = d1.chain[r]
  <2>1. "awaiting_owner_decision" \in States \ {"none"}
    BY DEF States, TRANSITIONS
  <2>2. LET x == Transition(d1, S, "awaiting_owner_decision", now)
        IN /\ x \in Dbs /\ x.err = "none"
           /\ x.cohorts = d1.cohorts /\ x.adm = d1.adm /\ x.refusal = d1.refusal
           /\ \A r \in Recs : IF r \in S THEN Moved(d1, x, r, "awaiting_owner_decision", now)
                                         ELSE x.chain[r] = d1.chain[r]
    <3>1. d1 \in Dbs /\ d1.err = "none" /\ S \in SUBSET Recs
      BY <1>2, <1>4
    <3>2. \A r \in S : /\ LegalChain(d1.chain[r], r, genAt[r], now)
                      /\ "awaiting_owner_decision" \in TRANSITIONS[Cur(d1, r)]
                      /\ ~Has(d1.chain[r], "awaiting_owner_decision")
      BY <1>5
    <3> HIDE DEF S
    <3>3. Recorded
      OBVIOUS
    <3> QED  BY ONLY <2>1, <3>1, <3>2, <3>3, TransitionIsMove
  <2> QED  BY <2>2, <1>4 DEF d2
<1>7. ASSUME NEW r \in Recs
      PROVE  /\ LegalChain(d2.chain[r], r, genAt[r], now)
             /\ r \in S => Cur(d2, r) = "awaiting_owner_decision"
             /\ r \notin S => d2.chain[r] = d.chain[r]
  <2>1. LegalChain(d1.chain[r], r, genAt[r], now)
    BY <1>4 DEF Sound, ChainsInv
  <2>2. CASE r \in S
    <3>1. Moved(d1, d2, r, "awaiting_owner_decision", now) /\ "awaiting_owner_decision" \in Moves
          /\ now <= now
      BY <2>2, <1>6, EndStates, NowIsTime
    <3> QED  BY <2>1, <2>2, <3>1, <1>2, MovedChain
  <2>3. CASE r \notin S
    BY <2>1, <2>3, <1>4, <1>6
  <2> QED  BY <2>2, <2>3
<1>8. old \in SUBSET DOMAIN d2.cohorts /\ old \subseteq DOMAIN d.cohorts
      /\ "new_target_superseded" \in Closures
  <2>1. old \subseteq DOMAIN d.cohorts
    BY DEF Superseded
  <2>2. DOMAIN d.cohorts \subseteq DOMAIN d2.cohorts
    BY <1>3, <1>6
  <2> QED  BY <2>1, <2>2 DEF Closures
<1> HIDE DEF old
<1>9. /\ e \in Dbs
      /\ e.adm = d2.adm /\ e.refusal = d2.refusal
      /\ DOMAIN e.cohorts = DOMAIN d2.cohorts /\ Len(e.cohorts) = Len(d2.cohorts)
      /\ \A k \in DOMAIN d2.cohorts :
           /\ SameCohort(d2.cohorts[k], e.cohorts[k])
           /\ e.cohorts[k].sels = d2.cohorts[k].sels
           /\ Closed(e.cohorts[k]) <=> Closed(d2.cohorts[k]) \/ k \in old
      /\ P \subseteq Recs
      /\ e.err = "none" =>
           /\ d2.err = "none"
           /\ \A r \in Recs :
                \/ /\ e.chain[r] = d2.chain[r]
                   /\ r \in P => Has(d2.chain[r], "closed_unselected")
                \/ /\ r \in P
                   /\ Moved(d2, e, r, "closed_unselected", now)
      /\ (\A r \in P : Legal(d2, r, "closed_unselected", now)) => e.err = d2.err
  <2>1. d2 \in Dbs
    BY <1>6
  <2>2. old \in SUBSET DOMAIN d2.cohorts /\ "new_target_superseded" \in Closures /\ now \in Times
    BY <1>2, <1>8
  <2>3. CohortsClosed(d2, CloseCohorts(d2, old, "new_target_superseded", now), old, now)
    BY <2>1, <2>2, CloseEffects
  <2> USE DEF CohortsClosed
  <2> QED  BY <2>3, <1>1 DEF P
<1>10. ASSUME NEW r \in P
       PROVE  /\ r \notin S /\ Legal(d2, r, "closed_unselected", now)
  <2>1. r \in Recs
    BY <1>9
  <2>2. PICK k \in old : r \in d2.cohorts[k].members
    BY DEF P, Pending
  <2>3. k \in DOMAIN d.cohorts /\ r \in d.cohorts[k].members
    BY <2>2, <1>3, <1>6, <1>8
  <2>4. Has(d1.chain[r], "awaiting_owner_decision")
    BY <2>3, <1>4 DEF Sound, DecisionInv, MembersPut
  <2>5. r \notin S
    BY <2>4, <1>5
  <2>6. Projected(d2, r, now) = "awaiting_owner_decision"
    BY DEF P, Pending
  <2>7. Cur(d2, r) = "awaiting_owner_decision" /\ LegalChain(d2.chain[r], r, genAt[r], now)
    BY <2>1, <2>6, <1>7, NowIsTime, ProjectedIsCurrent DEF Cur
  <2>8. "closed_unselected" \in TRANSITIONS[Cur(d2, r)]
    BY <2>7 DEF TRANSITIONS
  <2> QED  BY <2>1, <2>5, <2>7, <2>8, NowIsLegal
<1>11. e.err = "none"
  BY <1>6, <1>9, <1>10
<1>12. ASSUME NEW r \in Recs
       PROVE  IF r \in S THEN Moved(d, e, r, "awaiting_owner_decision", now)
                         ELSE Ended(d, e, r)
  <2>1. CASE r \in S
    <3>1. e.chain[r] = d2.chain[r]
      BY <2>1, <1>9, <1>10, <1>11
    <3>2. Moved(d1, d2, r, "awaiting_owner_decision", now) /\ d1.chain[r] = d.chain[r]
      BY <2>1, <1>4, <1>6
    <3> QED  BY <2>1, <3>1, <3>2, MovedSame
  <2>2. CASE r \notin S
    <3>1. d2.chain[r] = d.chain[r]
      BY <2>2, <1>7
    <3>2. CASE e.chain[r] = d2.chain[r]
      BY <3>1, <3>2, <2>2 DEF Ended
    <3>3. CASE Moved(d2, e, r, "closed_unselected", now)
      <4>1. Moved(d, e, r, "closed_unselected", now)
        BY <3>1, <3>3, MovedSame
      <4>2. "closed_unselected" \in Ends \ {"abstained"} /\ now <= now
        BY EndStates, NowIsTime
      <4> QED  BY <4>1, <4>2, <1>2, <2>2 DEF Ended
    <3> QED  BY <3>2, <3>3, <1>9, <1>11
  <2> QED  BY <2>1, <2>2
<1>13. /\ Len(e.cohorts) = n /\ DOMAIN e.cohorts = 1..n /\ n \in DOMAIN cohorts
       /\ n \notin DOMAIN d.cohorts /\ DOMAIN d.cohorts \subseteq DOMAIN e.cohorts
  BY <1>3, <1>6, <1>9
<1>14. \A k \in DOMAIN d.cohorts :
         /\ SameCohort(d.cohorts[k], e.cohorts[k])
         /\ e.cohorts[k].sels = d.cohorts[k].sels
         /\ Closed(e.cohorts[k]) <=> Closed(d.cohorts[k]) \/ k \in old
  BY <1>3, <1>6, <1>9, <1>13
<1>15. SameCohort(new, e.cohorts[n]) /\ e.cohorts[n].sels = << >> /\ ~Closed(e.cohorts[n])
  BY <1>3, <1>6, <1>8, <1>9, <1>13
<1>16. Opening(d, e, new, old)
  BY <1>6, <1>9, <1>12, <1>13, <1>14, <1>15 DEF Opening
<1> QED  BY <1>9, <1>11, <1>13, <1>16 DEF e, old

\* What an assessment may be aborted by: it is too late, or too early.
AssessErrors ==
  {"none", "membership_evidence_mismatch", "decision_window_closed",
   "decision_price_triggered"}

(* A new cohort has no selection, and the others keep theirs.                 *)
LEMMA OpeningFollows ==
  ASSUME NEW d \in Dbs, NEW e \in Dbs, NEW new, NEW old, Opening(d, e, new, old)
  PROVE  /\ Follows(d, e)
         /\ Len(e.cohorts) \in DOMAIN e.cohorts
         /\ e.cohorts[Len(e.cohorts)].members = new.members
<1> DEFINE n == Len(d.cohorts) + 1
<1>1. /\ Len(d.cohorts) \in Nat /\ DOMAIN d.cohorts = 1..Len(d.cohorts)
      /\ DOMAIN e.cohorts = 1..Len(e.cohorts)
  BY DbFields
<1>2. Len(e.cohorts) = n /\ SameCohort(new, e.cohorts[n]) /\ e.cohorts[n].sels = << >>
  BY DEF Opening
<1>3. \A k \in DOMAIN e.cohorts : k \in DOMAIN d.cohorts \/ k = n
  BY <1>1, <1>2
<1>4. DOMAIN d.cohorts \subseteq DOMAIN e.cohorts /\ n \in DOMAIN e.cohorts
  BY <1>1, <1>2
<1>5. \A k \in DOMAIN d.cohorts : /\ SameCohort(d.cohorts[k], e.cohorts[k])
                                  /\ e.cohorts[k].sels = d.cohorts[k].sels
  BY DEF Opening
<1> HIDE DEF n
<1>6. Follows(d, e)
  BY <1>2, <1>3, <1>4, <1>5 DEF Follows
<1> QED  BY <1>2, <1>4, <1>6 DEF SameCohort

(* The older cohorts of the instruments decide about other targets, as the    *)
(* database demands.                                                          *)
LEMMA SupersededHaveOtherTargets ==
  ASSUME Recorded, NEW d, Sound(d), NEW new, Assessable(d, new.members),
         NEW k \in Superseded(d, new), new.gen \in Nat
  PROVE  Supersedes(new, d.cohorts[k])
<1>1. k \in DOMAIN d.cohorts /\ ~Closed(d.cohorts[k]) /\ d.cohorts[k].gen < new.gen
  BY DEF Superseded
<1>2. PICK r \in new.members, q \in d.cohorts[k].members : inst[r] = inst[q]
  BY DEF Superseded
<1>3. target[q] # target[r]
  BY <1>1, <1>2 DEF Assessable
<1>4. d.cohorts[k].gen \in Nat
  BY <1>1, MembersAreRecs, CohortFields, TimesAreNat DEF Sound
<1> QED  BY <1>1, <1>2, <1>3, <1>4 DEF Supersedes

(* The cohort of an assessment, opened and perhaps selected at once.  If it   *)
(* fits it is selected within capacity, as what is live then is its base.     *)
LEMMA OpenOutcome ==
  ASSUME Recorded, NEW d, Sound(d), d.err = "none", NEW S, Assessable(d, S), S # {},
         NEW g \in Times, g <= now
  PROVE  LET e == OpenCohort(d, S, g)
         IN /\ e \in Dbs /\ e.err \in AssessErrors
            /\ e.err = "none" => Sound(e) /\ Follows(d, e)
<1> DEFINE new == NewCohort(d, S, g)
           d1 == PutToOwner(d, new)
           n == Len(d1.cohorts)
           f == RecordSelection(d1, n, S, "automatic")
           e == OpenCohort(d, S, g)
<1>0. S \in SUBSET Recs /\ d \in Dbs /\ g \in Nat
  BY TimesAreNat DEF Assessable, Sound
<1>1. /\ new \in Cohort /\ new.members = S /\ new.gen = g /\ new.base = LiveOf(d) \ S
      /\ new.sels = << >> /\ ~Closed(new)
  <2>1. LET x == NewCohort(d, S, g)
        IN /\ x \in Cohort /\ x.members = S /\ x.gen = g
           /\ x.base = LiveOf(d) \ S
           /\ x.sels = << >> /\ ~Closed(x)
    BY <1>0, NewCohortIsCohort, Zenon
  <2> QED  BY <2>1 DEF new
<1>2. e = IF MemberError(new) # "none" THEN Raise(d, MemberError(new))
          ELSE IF \E k \in Superseded(d, new) : ~Supersedes(new, d.cohorts[k])
          THEN Raise(d, "material_new_target_required")
          ELSE IF Fits(new.base \cup S) THEN f ELSE d1
  BY DEF OpenCohort
<1> HIDE DEF new, e
<1>3. d1 \in Dbs /\ d1.err = "none" /\ Opening(d, d1, new, Superseded(d, new))
  BY <1>1, PutEffects, Zenon
<1> HIDE DEF d1
<1>4. Sound(d1) /\ LiveOf(d1) \subseteq LiveOf(d)
  BY <1>1, <1>3, OpeningIsSound
<1>5. Follows(d, d1) /\ n \in DOMAIN d1.cohorts /\ d1.cohorts[n].members = S
  BY <1>0, <1>1, <1>3, OpeningFollows
<1> HIDE DEF n
<1>6. MemberError(new) \in {"none", "membership_evidence_mismatch"}
  BY DEF MemberError
<1>7. ~ \E k \in Superseded(d, new) : ~Supersedes(new, d.cohorts[k])
  BY <1>0, <1>1, SupersededHaveOtherTargets
<1>8. /\ f \in Dbs
      /\ f.err = "none" => Sound(f) /\ Follows(d1, f)
      /\ SelectionError(d1.cohorts[n]) # "none" => f.err = SelectionError(d1.cohorts[n])
      /\ /\ SelectionError(d1.cohorts[n]) = "none"
         /\ Fits((LiveOf(d1) \ d1.cohorts[n].members) \cup S)
         => f.err = "none"
  <2>1. S \in SUBSET d1.cohorts[n].members /\ "automatic" \in {"automatic", "owner"}
    BY <1>5
  <2> QED  BY <1>3, <1>4, <1>5, <2>1, RecordOutcome
<1> HIDE DEF f
<1>9. SelectionError(d1.cohorts[n]) \in AssessErrors
  BY DEF SelectionError, AssessErrors
<1>10. CASE MemberError(new) # "none"
  <2>1. e = Raise(d, "membership_evidence_mismatch")
    BY <1>2, <1>6, <1>10
  <2>2. "membership_evidence_mismatch" \in Errors \ {"none"}
        /\ "membership_evidence_mismatch" \in AssessErrors
    BY DEF Errors, AssessErrors
  <2>3. e \in Dbs /\ e.err # "none" /\ e.err = "membership_evidence_mismatch"
    BY <1>0, <2>1, <2>2, RaiseEffects
  <2> QED  BY <2>2, <2>3 DEF e
<1>11. CASE MemberError(new) = "none" /\ ~Fits(new.base \cup S)
  <2>1. e = d1
    BY <1>2, <1>7, <1>11
  <2> QED  BY <2>1, <1>3, <1>4, <1>5 DEF e, AssessErrors
<1>12. CASE MemberError(new) = "none" /\ Fits(new.base \cup S)
  <2>1. e = f
    BY <1>2, <1>7, <1>12
  <2>2. Fits((LiveOf(d1) \ d1.cohorts[n].members) \cup S)
    <3>1. new.base \cup S \in SUBSET Recs
      BY <1>0, <1>1 DEF LiveOf
    <3>2. (LiveOf(d1) \ d1.cohorts[n].members) \cup S \in SUBSET (new.base \cup S)
      BY <1>1, <1>4, <1>5
    <3> QED  BY <1>12, <3>1, <3>2, FitsIsMonotone
  <2>3. f.err \in AssessErrors
    BY <1>8, <1>9, <2>2 DEF AssessErrors
  <2>4. f.err = "none" => Sound(f) /\ Follows(d, f)
    BY <1>5, <1>8, FollowsIsTransitive
  <2> QED  BY <2>1, <1>8, <2>3, <2>4 DEF e
<1> QED  BY <1>10, <1>11, <1>12

(* assess_recommendation_batch: who cannot be in a cohort is ineligible, for  *)
(* a recorded reason, and the rest has targets without an open decision.      *)
LEMMA AssessOutcome ==
  ASSUME Recorded, NEW d, Sound(d), d.err = "none", NEW S \in SUBSET Recs,
         \A r, q \in S : target[r] = target[q] => r = q,
         NEW g \in Times, g <= now
  PROVE  LET e == Assess(d, S, g)
         IN /\ e \in Dbs /\ e.err \in AssessErrors
            /\ e.err = "none" => Sound(e) /\ Follows(d, e)
<1> DEFINE waiting == {r \in S : Projected(d, r, now) = "awaiting_portfolio_assessment"}
           refused == {r \in waiting : Refusal(d, r, g) # "none"}
           refusal == [r \in Recs |-> IF r \in refused THEN Refusal(d, r, g)
                                                       ELSE d.refusal[r]]
           d0 == Transition(d, refused, "portfolio_ineligible", now)
           d1 == [d0 EXCEPT !.refusal = refusal]
           rest == waiting \ refused
           e == Assess(d, S, g)
<1>1. e = IF waiting = refused THEN d1 ELSE OpenCohort(d1, rest, g)
  BY DEF Assess
<1> HIDE DEF e
<1>2. d \in Dbs /\ refused \in SUBSET Recs /\ rest \in SUBSET Recs /\ rest \subseteq S
      /\ now \in Times /\ now \in Nat /\ now <= now
  BY NowIsTime DEF Sound
<1>3. ASSUME NEW r \in waiting
      PROVE  /\ LegalChain(d.chain[r], r, genAt[r], now)
             /\ Cur(d, r) = "awaiting_portfolio_assessment"
  <2>1. r \in Recs
    OBVIOUS
  <2>2. LegalChain(d.chain[r], r, genAt[r], now)
    BY <2>1 DEF Sound, ChainsInv
  <2>3. Cur(d, r) = Projected(d, r, now)
    BY <2>2, <1>2, ProjectedIsCurrent DEF Cur
  <2> QED  BY <2>2, <2>3
<1>4. \A r \in rest : Refusal(d, r, g) = "none"
  OBVIOUS
<1>5. refusal \in [Recs -> Refusals]
  <2> SUFFICES ASSUME NEW r \in Recs PROVE refusal[r] \in Refusals
    OBVIOUS
  <2>1. Refusal(d, r, g) \in Refusals
    BY DEF Refusal, Refusals
  <2>2. d.refusal[r] \in Refusals
    BY <1>2, DbFields
  <2> QED  BY <2>1, <2>2
<1>6. \A r \in refused : r \in waiting
  OBVIOUS
<1>11. \A r \in rest : r \in waiting
  OBVIOUS
<1>12. rest # {} \/ waiting = refused
  OBVIOUS
<1> HIDE DEF d0, refusal, waiting, refused, rest
<1>7. /\ d0 \in Dbs /\ d0.err = "none"
      /\ d0.cohorts = d.cohorts /\ d0.adm = d.adm
      /\ \A r \in Recs : IF r \in refused THEN Moved(d, d0, r, "portfolio_ineligible", now)
                                          ELSE d0.chain[r] = d.chain[r]
  <2>1. "portfolio_ineligible" \in States \ {"none"}
    BY DEF States, TRANSITIONS
  <2>2. ASSUME NEW r \in refused
        PROVE  /\ LegalChain(d.chain[r], r, genAt[r], now)
               /\ "portfolio_ineligible" \in TRANSITIONS[Cur(d, r)]
               /\ ~Has(d.chain[r], "portfolio_ineligible")
    <3>1. /\ LegalChain(d.chain[r], r, genAt[r], now)
          /\ Cur(d, r) = "awaiting_portfolio_assessment"
      BY <1>3, <1>6
    <3>2. ~(Rank("portfolio_ineligible") < Rank("awaiting_portfolio_assessment"))
      BY DEF Rank
    <3>3. ~Has(d.chain[r], "portfolio_ineligible")
      BY <3>1, <3>2, PastRanksBelow DEF Cur
    <3> QED  BY <3>1, <3>3 DEF TRANSITIONS
  <2>3. LET x == Transition(d, refused, "portfolio_ineligible", now)
        IN /\ x \in Dbs /\ x.err = "none"
           /\ x.cohorts = d.cohorts /\ x.adm = d.adm /\ x.refusal = d.refusal
           /\ \A r \in Recs : IF r \in refused THEN Moved(d, x, r, "portfolio_ineligible", now)
                                               ELSE x.chain[r] = d.chain[r]
    <3>1. \A r \in refused : /\ LegalChain(d.chain[r], r, genAt[r], now)
                            /\ "portfolio_ineligible" \in TRANSITIONS[Cur(d, r)]
                            /\ ~Has(d.chain[r], "portfolio_ineligible")
      BY <2>2
    <3>2. Recorded /\ d.err = "none"
      OBVIOUS
    <3> QED  BY ONLY <2>1, <3>1, <3>2, <1>2, TransitionIsMove
  <2> QED  BY <2>3 DEF d0
<1>8. /\ d1 \in Dbs /\ d1.err = "none" /\ d1.chain = d0.chain
      /\ d1.cohorts = d.cohorts /\ d1.adm = d.adm
  BY <1>5, <1>7 DEF Dbs
<1> HIDE DEF d1
<1>9. Sound(d1) /\ Follows(d, d1)
  <2>1. CohortsKept(d, d1)
    BY <1>8 DEF CohortsKept, SameCohort
  <2>2. ASSUME NEW r \in Recs PROVE Ended(d, d1, r)
    <3>1. CASE r \in refused
      <4>1. Moved(d, d0, r, "portfolio_ineligible", now)
        BY <1>7, <3>1
      <4>2. Moved(d, d1, r, "portfolio_ineligible", now)
        BY <4>1, <1>8 DEF Moved
      <4>3. "portfolio_ineligible" \in Ends \ {"abstained"}
        BY EndStates
      <4> QED  BY <4>2, <4>3, <1>2 DEF Ended
    <3>2. CASE r \notin refused
      BY <1>7, <1>8, <3>2 DEF Ended
    <3> QED  BY <3>1, <3>2
  <2> QED  BY <1>8, <2>1, <2>2, EndingsAreSound, KeptFollows
<1>10. Assessable(d1, rest)
  <2>1. ASSUME NEW r \in rest PROVE Cur(d1, r) = "awaiting_portfolio_assessment"
    <3>1. r \in Recs /\ r \notin refused
      BY <1>2 DEF rest
    <3>2. d1.chain[r] = d.chain[r]
      BY <3>1, <1>7, <1>8
    <3> QED  BY <3>2, <1>3, <1>11 DEF Cur
  <2>2. \A r, q \in rest : target[r] = target[q] => r = q
    BY <1>2
  <2>3. ASSUME NEW k \in DOMAIN d1.cohorts, ~Closed(d1.cohorts[k]),
               NEW q \in d1.cohorts[k].members, NEW r \in rest
        PROVE  target[q] # target[r]
    BY <2>3, <1>4, <1>8 DEF Refusal
  <2> QED  BY <1>2, <2>1, <2>2, <2>3 DEF Assessable
<1>13. CASE waiting = refused
  BY <1>1, <1>8, <1>9, <1>13 DEF e, AssessErrors
<1>14. CASE waiting # refused
  <2>1. e = OpenCohort(d1, rest, g) /\ rest # {}
    BY <1>1, <1>12, <1>14
  <2>2. LET x == OpenCohort(d1, rest, g)
        IN /\ x \in Dbs /\ x.err \in AssessErrors
           /\ x.err = "none" => Sound(x) /\ Follows(d1, x)
    BY <2>1, <1>8, <1>9, <1>10, OpenOutcome, Zenon
  <2>3. /\ e \in Dbs /\ e.err \in AssessErrors
        /\ e.err = "none" => Sound(e) /\ Follows(d1, e)
    BY <2>1, <2>2
  <2>4. e.err = "none" => Follows(d, e)
    BY <2>3, <1>9, FollowsIsTransitive
  <2> QED  BY <2>3, <2>4 DEF e
<1> QED  BY <1>13, <1>14

-----------------------------------------------------------------------------
(* Reconciliation.                                                            *)

(* A state that r has been in is not recorded again.                          *)
LEMMA RepeatIsSound ==
  ASSUME Recorded, NEW d, Sound(d), NEW r \in Recs, NEW s \in States \ {"none"},
         Has(d.chain[r], s), NEW at \in Times
  PROVE  LET e == Transition(d, {r}, s, at)
         IN /\ e \in Dbs /\ e.err = d.err
            /\ d.err = "none" => /\ Sound(e) /\ CohortsKept(d, e)
                                 /\ \A q \in Recs : e.chain[q] = d.chain[q]
<1> DEFINE e == Transition(d, {r}, s, at)
<1>1. d \in Dbs /\ {r} \in SUBSET Recs
  BY DEF Sound
<1>2. Transitioned(d, e, {r}, s, at)
  BY <1>1, TransitionEffects
<1> USE DEF Transitioned
<1> HIDE DEF e
<1>3. e.err = d.err
  BY <1>2
<1>4. ASSUME d.err = "none"
      PROVE  /\ Sound(e) /\ CohortsKept(d, e)
             /\ \A q \in Recs : e.chain[q] = d.chain[q]
  <2>1. \A q \in Recs : e.chain[q] = d.chain[q]
    BY <1>2, <1>3, <1>4 DEF Moved
  <2>2. CohortsKept(d, e)
    BY <1>2 DEF CohortsKept, SameCohort
  <2>3. \A q \in Recs : Ended(d, e, q)
    BY <2>1 DEF Ended
  <2> QED  BY <1>2, <2>1, <2>2, <2>3, EndingsAreSound
<1> QED  BY <1>2, <1>3, <1>4 DEF e

\* What reconciliation repeats of r's paper entry and of its result.
EntryRepeated(d, r, asOf) ==
  IF entryAt[r] \in 1..asOf /\ Projected(d, r, asOf) = "admitted_awaiting_entry"
  THEN Transition(d, {r}, "entered", asOf) ELSE d

ResultRepeated(d, r, asOf) ==
  IF result[r].outcome = "none" \/ result[r].at > asOf THEN d
  ELSE Transition(d, {r}, OutcomeState[result[r].outcome], asOf)

\* The transaction goes on, with the same chains.
Unmoved(d, e) ==
  /\ e \in Dbs
  /\ e.err = "none" <=> d.err = "none"
  /\ d.err = "none" => /\ Sound(e) /\ CohortsKept(d, e)
                       /\ \A q \in Recs : e.chain[q] = d.chain[q]

(* What paper trading recorded has its lifecycle event already.               *)
LEMMA RepeatsAreUnmoved ==
  ASSUME Recorded, NEW d \in Dbs, d.err = "none" => Sound(d), NEW r \in Recs,
         NEW asOf \in Times
  PROVE  Unmoved(d, EntryRepeated(d, r, asOf)) /\ Unmoved(d, ResultRepeated(d, r, asOf))
<1>1. ASSUME d.err = "none" PROVE Unmoved(d, d)
  BY <1>1 DEF Unmoved, CohortsKept, SameCohort
<1>2. ASSUME d.err # "none", NEW s \in States \ {"none"}
      PROVE  Unmoved(d, d) /\ Unmoved(d, Transition(d, {r}, s, asOf))
  <2> DEFINE e == Transition(d, {r}, s, asOf)
  <2>1. Transitioned(d, e, {r}, s, asOf)
    BY TransitionEffects
  <2> USE DEF Transitioned
  <2> HIDE DEF e
  <2>2. Unmoved(d, e) /\ Unmoved(d, d)
    BY <1>2, <2>1 DEF Unmoved
  <2> QED  BY <2>2 DEF e
<1>3. ASSUME d.err = "none", NEW s \in States \ {"none"}, Has(d.chain[r], s)
      PROVE  Unmoved(d, Transition(d, {r}, s, asOf))
  <2> DEFINE e == Transition(d, {r}, s, asOf)
  <2>1. Sound(d)
    BY <1>3
  <2>2. /\ e \in Dbs /\ e.err = d.err
        /\ d.err = "none" => /\ Sound(e) /\ CohortsKept(d, e)
                             /\ \A q \in Recs : e.chain[q] = d.chain[q]
    BY <2>1, <1>3, RepeatIsSound
  <2> HIDE DEF e
  <2>3. Unmoved(d, e)
    BY <2>2 DEF Unmoved
  <2> QED  BY <2>3 DEF e
<1>4. Unmoved(d, EntryRepeated(d, r, asOf))
  <2>1. CASE ~(entryAt[r] \in 1..asOf /\ Projected(d, r, asOf) = "admitted_awaiting_entry")
    <3>1. EntryRepeated(d, r, asOf) = d
      BY <2>1 DEF EntryRepeated
    <3>2. Unmoved(d, d)
      BY <1>1, <1>2 DEF States, TRANSITIONS
    <3> QED  BY <3>1, <3>2
  <2>2. CASE entryAt[r] \in 1..asOf /\ Projected(d, r, asOf) = "admitted_awaiting_entry"
    <3>1. EntryRepeated(d, r, asOf) = Transition(d, {r}, "entered", asOf)
      BY <2>2 DEF EntryRepeated
    <3>2. "entered" \in States \ {"none"}
      BY DEF States, TRANSITIONS
    <3>3. d.err = "none" => Has(d.chain[r], "entered")
      <4>1. entryAt[r] # 0
        BY <2>2, TimesAreNat
      <4> QED  BY <4>1 DEF Sound, FactsInv, FactsOf
    <3> QED  BY <3>1, <3>2, <3>3, <1>2, <1>3
  <2> QED  BY <2>1, <2>2
<1>5. Unmoved(d, ResultRepeated(d, r, asOf))
  <2>1. CASE result[r].outcome = "none" \/ result[r].at > asOf
    <3>1. ResultRepeated(d, r, asOf) = d
      BY <2>1 DEF ResultRepeated
    <3>2. Unmoved(d, d)
      BY <1>1, <1>2 DEF States, TRANSITIONS
    <3> QED  BY <3>1, <3>2
  <2>2. CASE ~(result[r].outcome = "none" \/ result[r].at > asOf)
    <3> DEFINE s == OutcomeState[result[r].outcome]
    <3>1. ResultRepeated(d, r, asOf) = Transition(d, {r}, s, asOf)
      BY <2>2 DEF ResultRepeated
    <3>2. s \in Ends \ {"abstained"}
      <4>1. result[r].outcome \in DOMAIN OutcomeState
        BY <2>2 DEF Recorded
      <4> QED  BY <4>1, OutcomesEnd
    <3>3. s \in States \ {"none"}
      BY <3>2, EndStates DEF Ends
    <3>4. ASSUME d.err = "none" PROVE Has(d.chain[r], s)
      <4>1. Cur(d, r) = s /\ LegalChain(d.chain[r], r, genAt[r], now)
        BY <3>4, <2>2 DEF Sound, FactsInv, FactsOf, ChainsInv
      <4> HIDE DEF s
      <4> QED  BY <4>1, <3>3, PastRanksBelow DEF Cur
    <3> HIDE DEF s
    <3> QED  BY <3>1, <3>3, <3>4, <1>2, <1>3
  <2> QED  BY <2>1, <2>2
<1> QED  BY <1>4, <1>5

LEMMA UnmovedIsTransitive ==
  ASSUME NEW d, NEW e, NEW f, Unmoved(d, e), Unmoved(e, f)
  PROVE  Unmoved(d, f)
BY DEF Unmoved, CohortsKept, SameCohort

\* r, and nothing else, may be moved to s.
OnlyMoved(d, e, r, s, at) ==
  /\ e \in Dbs /\ CohortsKept(d, e)
  /\ e.err = "none" => /\ d.err = "none" /\ Sound(e)
                       /\ \A q \in Recs : \/ /\ e.chain[q] = d.chain[q]
                                             /\ q = r => Has(d.chain[q], s)
                                          \/ q = r /\ Moved(d, e, q, s, at)
  /\ Legal(d, r, s, at) => e.err = d.err

(* One recommendation is moved to its end.                                    *)
LEMMA EndingOfOne ==
  ASSUME Recorded, NEW d, Sound(d), NEW r \in Recs, NEW s \in Ends \ {"abstained"},
         NEW at \in Times, at <= now
  PROVE  OnlyMoved(d, Transition(d, {r}, s, at), r, s, at)
<1> DEFINE S == {r}
           e == Transition(d, S, s, at)
<1>1. d \in Dbs /\ S \in SUBSET Recs
  BY DEF Sound
<1>2. s \in States \ {"none"}
  BY EndStates DEF Ends
<1> HIDE DEF S
<1>3. Transitioned(d, e, S, s, at)
  BY <1>1, <1>2, TransitionEffects
<1> USE DEF Transitioned
<1> HIDE DEF e
<1>4. CohortsKept(d, e)
  BY <1>3 DEF CohortsKept, SameCohort
<1>5. e.err = "none" => \A q \in Recs : Ended(d, e, q)
  BY <1>3 DEF Ended
<1>6. e.err = "none" => Sound(e)
  BY <1>3, <1>4, <1>5, EndingsAreSound
<1>7. OnlyMoved(d, e, r, s, at)
  BY <1>3, <1>4, <1>6 DEF S, OnlyMoved
<1> QED  BY <1>7 DEF e, S

\* The transaction goes on soundly, or has failed.
GoesOn(d, e) ==
  /\ e \in Dbs
  /\ e.err = "none" => d.err = "none" /\ Sound(e) /\ Follows(d, e)

LEMMA GoesOnIsTransitive ==
  ASSUME NEW d, NEW e, NEW f, GoesOn(d, e), GoesOn(e, f)
  PROVE  GoesOn(d, f)
BY FollowsIsTransitive DEF GoesOn

LEMMA UnmovedGoesOn ==
  ASSUME NEW d, NEW e, Unmoved(d, e)
  PROVE  GoesOn(d, e)
BY KeptFollows DEF Unmoved, GoesOn

\* The rows after the missed assessment of r is made or cancelled.
MissedAssessed(d, r, asOf) ==
  IF Projected(d, r, asOf) # "awaiting_portfolio_assessment" THEN d
  ELSE IF asOf >= genAt[r] + Window
  THEN Transition(d, {r}, "cancelled", asOf)
  ELSE Assess(d, {r}, asOf)

LEMMA ReconcileSteps ==
  ASSUME NEW d, NEW r, NEW asOf
  PROVE  ReconcileRec(d, r, asOf) =
           ResultRepeated(EntryRepeated(MissedAssessed(d, r, asOf), r, asOf), r, asOf)
BY DEF ReconcileRec, ResultRepeated, EntryRepeated, MissedAssessed

LEMMA MissedAssessedGoesOn ==
  ASSUME Recorded, NEW d, Sound(d), d.err = "none", NEW r \in Recs,
         NEW asOf \in Times, asOf <= now
  PROVE  GoesOn(d, MissedAssessed(d, r, asOf))
<1> DEFINE e == MissedAssessed(d, r, asOf)
<1>1. CASE Projected(d, r, asOf) # "awaiting_portfolio_assessment"
  <2>1. e = d
    BY <1>1 DEF MissedAssessed
  <2> HIDE DEF e
  <2>2. CohortsKept(d, e) /\ d \in Dbs
    BY <2>1 DEF CohortsKept, SameCohort, Sound
  <2> QED  BY <2>1, <2>2, KeptFollows DEF GoesOn, e
<1>2. CASE /\ Projected(d, r, asOf) = "awaiting_portfolio_assessment"
           /\ asOf >= genAt[r] + Window
  <2>1. e = Transition(d, {r}, "cancelled", asOf)
    BY <1>2 DEF MissedAssessed
  <2> HIDE DEF e
  <2>2. "cancelled" \in Ends \ {"abstained"}
    BY EndStates
  <2>3. OnlyMoved(d, e, r, "cancelled", asOf)
    BY <2>1, <2>2, EndingOfOne
  <2>4. e \in Dbs /\ CohortsKept(d, e) /\ (e.err = "none" => Sound(e))
    BY <2>3 DEF OnlyMoved
  <2> QED  BY <2>4, KeptFollows DEF GoesOn, e
<1>3. CASE /\ Projected(d, r, asOf) = "awaiting_portfolio_assessment"
           /\ ~(asOf >= genAt[r] + Window)
  <2>1. e = Assess(d, {r}, asOf)
    BY <1>3 DEF MissedAssessed
  <2>2. {r} \in SUBSET Recs /\ \A p, q \in {r} : target[p] = target[q] => p = q
    OBVIOUS
  <2>3. LET x == Assess(d, {r}, asOf)
        IN /\ x \in Dbs /\ x.err \in AssessErrors
           /\ x.err = "none" => Sound(x) /\ Follows(d, x)
    BY <2>2, AssessOutcome, Zenon
  <2> HIDE DEF e
  <2> QED  BY <2>1, <2>3 DEF GoesOn, e
<1> QED  BY <1>1, <1>2, <1>3

(* One recommendation's reconciliation keeps the rows sound, if it is not     *)
(* refused.                                                                   *)
LEMMA ReconcileRecGoesOn ==
  ASSUME Recorded, NEW d, Sound(d), d.err = "none", NEW r \in Recs,
         NEW asOf \in Times, asOf <= now
  PROVE  GoesOn(d, ReconcileRec(d, r, asOf))
<1> DEFINE d1 == MissedAssessed(d, r, asOf)
           d2 == EntryRepeated(d1, r, asOf)
           d3 == ResultRepeated(d2, r, asOf)
<1>1. ReconcileRec(d, r, asOf) = d3
  BY ReconcileSteps
<1>2. GoesOn(d, d1)
  BY MissedAssessedGoesOn
<1> HIDE DEF d1
<1>3. Unmoved(d1, d2)
  BY <1>2, RepeatsAreUnmoved DEF GoesOn
<1> HIDE DEF d2
<1>4. Unmoved(d2, d3)
  <2>1. d2 \in Dbs /\ (d2.err = "none" => Sound(d2))
    BY <1>3 DEF Unmoved
  <2> QED  BY <2>1, RepeatsAreUnmoved
<1> HIDE DEF d3
<1>5. GoesOn(d1, d2) /\ GoesOn(d2, d3)
  BY <1>3, <1>4, UnmovedGoesOn
<1>6. GoesOn(d1, d3)
  BY <1>5, GoesOnIsTransitive
<1>7. GoesOn(d, d3)
  BY <1>2, <1>6, GoesOnIsTransitive
<1> QED  BY <1>1, <1>7

\* From d to e nothing comes to await assessment.
NoneAwaits(d, e) ==
  \A q \in Recs : Cur(e, q) = "awaiting_portfolio_assessment" => Cur(d, q) = Cur(e, q)

(* A day after it was made, a recommendation is cancelled if it still awaits  *)
(* assessment, and now that is legal.                                         *)
LEMMA LateRecEnds ==
  ASSUME Recorded, NEW d, Sound(d), d.err = "none", NEW r \in Recs,
         now >= genAt[r] + Window
  PROVE  /\ ReconcileRec(d, r, now).err = "none"
         /\ Cur(ReconcileRec(d, r, now), r) # "awaiting_portfolio_assessment"
         /\ NoneAwaits(d, ReconcileRec(d, r, now))
<1> DEFINE d1 == MissedAssessed(d, r, now)
           d2 == EntryRepeated(d1, r, now)
           d3 == ResultRepeated(d2, r, now)
<1>1. ReconcileRec(d, r, now) = d3
  BY ReconcileSteps
<1>2. /\ GoesOn(d, d1) /\ now \in Times /\ now \in Nat /\ now <= now
      /\ LegalChain(d.chain[r], r, genAt[r], now)
  BY MissedAssessedGoesOn, NowIsTime DEF Sound, ChainsInv
<1>3. d1.err = "none" /\ Cur(d1, r) # "awaiting_portfolio_assessment" /\ NoneAwaits(d, d1)
  <2>1. Projected(d, r, now) = Cur(d, r)
    BY <1>2, ProjectedIsCurrent DEF Cur
  <2>2. CASE Cur(d, r) # "awaiting_portfolio_assessment"
    <3>1. d1 = d
      BY <2>1, <2>2 DEF MissedAssessed
    <3> QED  BY <3>1, <2>2 DEF NoneAwaits
  <2>3. CASE Cur(d, r) = "awaiting_portfolio_assessment"
    <3>1. d1 = Transition(d, {r}, "cancelled", now)
      BY <2>1, <2>3 DEF MissedAssessed
    <3> HIDE DEF d1
    <3>2. "cancelled" \in Ends \ {"abstained"} /\ "cancelled" \in Moves
          /\ "cancelled" \in TRANSITIONS[Cur(d, r)]
      BY <2>3, EndStates DEF TRANSITIONS
    <3>3. OnlyMoved(d, d1, r, "cancelled", now)
      BY <3>1, <3>2, <1>2, EndingOfOne
    <3>4. d1.err = "none"
      BY <3>2, <3>3, <1>2, NowIsLegal DEF OnlyMoved
    <3>5. ~Has(d.chain[r], "cancelled")
      <4>1. ~(Rank("cancelled") < Rank("awaiting_portfolio_assessment"))
        BY DEF Rank
      <4> QED  BY <4>1, <2>3, <1>2, PastRanksBelow DEF Cur
    <3>6. Moved(d, d1, r, "cancelled", now)
      BY <3>3, <3>4, <3>5 DEF OnlyMoved
    <3>7. Cur(d1, r) = "cancelled"
      BY <3>2, <3>6, <1>2, MovedChain
    <3>8. NoneAwaits(d, d1)
      BY <3>3, <3>4, <3>7 DEF OnlyMoved, NoneAwaits, Cur
    <3> QED  BY <3>4, <3>7, <3>8
  <2> QED  BY <2>2, <2>3
<1> HIDE DEF d1
<1>4. Unmoved(d1, d2)
  BY <1>2, RepeatsAreUnmoved DEF GoesOn
<1> HIDE DEF d2
<1>5. Unmoved(d2, d3)
  <2>1. d2 \in Dbs /\ (d2.err = "none" => Sound(d2))
    BY <1>4 DEF Unmoved
  <2> QED  BY <2>1, <1>2, RepeatsAreUnmoved
<1> HIDE DEF d3
<1>6. Unmoved(d1, d3)
  BY <1>4, <1>5, UnmovedIsTransitive
<1>7. d3.err = "none" /\ \A q \in Recs : d3.chain[q] = d1.chain[q]
  BY <1>3, <1>6 DEF Unmoved
<1>8. \A q \in Recs : Cur(d3, q) = Cur(d1, q)
  BY <1>7 DEF Cur
<1>9. NoneAwaits(d, d3)
  BY <1>3, <1>8 DEF NoneAwaits
<1> QED  BY <1>1, <1>3, <1>7, <1>8, <1>9

\* f[n] is the rows after the n newest recommendations are reconciled.
IsPass(f, i, asOf, d, m) ==
  f = [n \in 0..m |-> IF n = 0 THEN d
                      ELSE ReconcileOf(i, f[n - 1], MaxRecs + 1 - n, asOf)]

LEMMA PassExists ==
  ASSUME NEW i, NEW asOf, NEW d, NEW m \in Nat
  PROVE  \E f : IsPass(f, i, asOf, d, m)
<1> DEFINE Bad == {k \in Nat : ~ \E f : IsPass(f, i, asOf, d, k)}
<1>1. SUFFICES ASSUME Bad # {} PROVE FALSE
  OBVIOUS
<1>2. PICK k \in Bad : \A n \in Bad : k <= n
  BY <1>1, LeastExists
<1>3. k \in Nat /\ ~ \E f : IsPass(f, i, asOf, d, k)
  OBVIOUS
<1>4. k # 0
  <2> DEFINE f == [n \in 0..0 |-> d]
  <2>1. f = [n \in 0..0 |-> IF n = 0 THEN d
                           ELSE ReconcileOf(i, f[n - 1], MaxRecs + 1 - n, asOf)]
    OBVIOUS
  <2> HIDE DEF f
  <2>2. IsPass(f, i, asOf, d, 0)
    BY <2>1 DEF IsPass
  <2> QED  BY <2>2, <1>3
<1>5. k - 1 \in Nat /\ k - 1 \notin Bad
  BY <1>2, <1>3, <1>4
<1>6. PICK f : IsPass(f, i, asOf, d, k - 1)
  BY <1>5
<1> HIDE DEF Bad
<1> DEFINE g == [n \in 0..k |-> IF n = k THEN ReconcileOf(i, f[k - 1], MaxRecs + 1 - k, asOf)
                                ELSE f[n]]
<1>7. \A n \in 0..(k - 1) :
        f[n] = IF n = 0 THEN d ELSE ReconcileOf(i, f[n - 1], MaxRecs + 1 - n, asOf)
  BY <1>6 DEF IsPass
<1>8. /\ g[k] = ReconcileOf(i, f[k - 1], MaxRecs + 1 - k, asOf)
      /\ \A n \in 0..(k - 1) : n \in 0..k /\ n # k /\ g[n] = f[n]
  BY <1>3
<1>9. g = [n \in 0..k |-> g[n]]
  OBVIOUS
<1> HIDE DEF g
<1>10. ASSUME NEW n \in 0..k
       PROVE  g[n] = IF n = 0 THEN d ELSE ReconcileOf(i, g[n - 1], MaxRecs + 1 - n, asOf)
  <2>1. CASE n = k
    <3>1. k - 1 \in 0..(k - 1)
      BY <1>3, <1>5
    <3>2. g[k - 1] = f[k - 1]
      BY <3>1, <1>8
    <3> QED  BY <2>1, <3>2, <1>4, <1>8
  <2>2. CASE n = 0
    <3>1. 0 \in 0..(k - 1)
      BY <1>3, <1>5
    <3> QED  BY <2>2, <3>1, <1>7, <1>8
  <2>3. CASE n # k /\ n # 0
    <3>1. n \in 0..(k - 1) /\ n - 1 \in 0..(k - 1)
      BY <2>3, <1>3
    <3>2. g[n] = f[n] /\ g[n - 1] = f[n - 1]
      BY <3>1, <1>8
    <3>3. f[n] = ReconcileOf(i, f[n - 1], MaxRecs + 1 - n, asOf)
      BY <3>1, <2>3, <1>7
    <3> QED  BY <2>3, <3>2, <3>3
  <2> QED  BY <2>1, <2>2, <2>3
<1>11. IsPass(g, i, asOf, d, k)
  BY <1>9, <1>10 DEF IsPass
<1> QED  BY <1>3, <1>11

LEMMA ReconciledIsPass ==
  ASSUME NEW i, NEW asOf
  PROVE  \E f : /\ IsPass(f, i, asOf, db, MaxRecs)
                /\ Reconciled(i, asOf) = ReconcileCohorts(f[MaxRecs], asOf)
<1> DEFINE f == CHOOSE h : IsPass(h, i, asOf, db, MaxRecs)
<1>1. Reconciled(i, asOf) = ReconcileCohorts(f[MaxRecs], asOf)
  BY DEF Reconciled, IsPass
<1>2. IsPass(f, i, asOf, db, MaxRecs)
  BY PassExists, ConstantsAssumption, Zenon
<1> HIDE DEF f
<1> QED  BY <1>1, <1>2

LEMMA PassSteps ==
  ASSUME NEW f, NEW i, NEW asOf, NEW d, IsPass(f, i, asOf, d, MaxRecs)
  PROVE  /\ f[0] = d
         /\ \A n \in 1..MaxRecs : /\ n - 1 \in 0..MaxRecs /\ MaxRecs + 1 - n \in Recs
                                  /\ f[n] = ReconcileOf(i, f[n - 1], MaxRecs + 1 - n, asOf)
<1>1. MaxRecs \in Nat
  BY ConstantsAssumption
<1>2. \A n \in 0..MaxRecs :
        f[n] = IF n = 0 THEN d ELSE ReconcileOf(i, f[n - 1], MaxRecs + 1 - n, asOf)
  BY DEF IsPass
<1>3. 0 \in 0..MaxRecs
  BY <1>1
<1>4. ASSUME NEW n \in 1..MaxRecs
      PROVE  /\ n - 1 \in 0..MaxRecs /\ MaxRecs + 1 - n \in Recs
             /\ n \in 0..MaxRecs /\ n # 0
  BY <1>1 DEF Recs
<1> QED  BY <1>2, <1>3, <1>4

(* The passes up to the last: what holds first and is kept holds then.        *)
LEMMA CountUp ==
  ASSUME NEW G \in SUBSET (0..MaxRecs), 0 \in G,
         \A n \in 1..MaxRecs : n - 1 \in G => n \in G
  PROVE  MaxRecs \in G
<1>1. MaxRecs \in Nat
  BY ConstantsAssumption
<1> DEFINE Bad == (0..MaxRecs) \ G
<1>2. SUFFICES ASSUME Bad # {} PROVE FALSE
  BY <1>1
<1>3. PICK k \in Bad : \A n \in Bad : k <= n
  <2>1. Bad \subseteq Nat
    BY <1>1
  <2> QED  BY <1>2, <2>1, LeastExists
<1>4. k \in 1..MaxRecs /\ k - 1 \notin Bad /\ k - 1 \in 0..MaxRecs
  BY <1>1, <1>3
<1> QED  BY <1>3, <1>4

LEMMA SameGoesOn ==
  ASSUME NEW d \in Dbs, d.err = "none" => Sound(d)
  PROVE  GoesOn(d, d)
BY DEF GoesOn, Follows, SameCohort

LEMMA ReconcileOfGoesOn ==
  ASSUME Recorded, NEW i, NEW d \in Dbs, d.err = "none" => Sound(d), NEW r \in Recs,
         NEW asOf \in Times, asOf <= now
  PROVE  GoesOn(d, ReconcileOf(i, d, r, asOf))
<1>1. CASE d.err = "none" /\ r \in Generated /\ inst[r] = i /\ genAt[r] <= asOf
  <2>1. ReconcileOf(i, d, r, asOf) = ReconcileRec(d, r, asOf)
    BY <1>1 DEF ReconcileOf
  <2>2. GoesOn(d, ReconcileRec(d, r, asOf))
    BY <1>1, ReconcileRecGoesOn
  <2> QED  BY <2>1, <2>2
<1>2. CASE ~(d.err = "none" /\ r \in Generated /\ inst[r] = i /\ genAt[r] <= asOf)
  <2>1. ReconcileOf(i, d, r, asOf) = d
    BY <1>2 DEF ReconcileOf
  <2> QED  BY <2>1, SameGoesOn
<1> QED  BY <1>1, <1>2

(* Reconciling the recommendations keeps the rows sound.                      *)
LEMMA PassGoesOn ==
  ASSUME Recorded, NEW d, Sound(d), d.err = "none", NEW i,
         NEW asOf \in Times, asOf <= now,
         NEW f, IsPass(f, i, asOf, d, MaxRecs)
  PROVE  GoesOn(d, f[MaxRecs])
<1> DEFINE G == {n \in 0..MaxRecs : GoesOn(d, f[n])}
<1>1. MaxRecs \in Nat /\ d \in Dbs
  BY ConstantsAssumption DEF Sound
<1>2. 0 \in G
  <2>1. GoesOn(d, d)
    BY <1>1, SameGoesOn
  <2> QED  BY <1>1, <2>1, PassSteps
<1>3. ASSUME NEW n \in 1..MaxRecs, n - 1 \in G
      PROVE  n \in G
  <2>1. /\ GoesOn(d, f[n - 1]) /\ n \in 0..MaxRecs /\ MaxRecs + 1 - n \in Recs
        /\ f[n] = ReconcileOf(i, f[n - 1], MaxRecs + 1 - n, asOf)
    BY <1>1, <1>3, PassSteps
  <2>2. GoesOn(f[n - 1], f[n])
    BY <2>1, ReconcileOfGoesOn DEF GoesOn
  <2>3. GoesOn(d, f[n])
    BY <2>1, <2>2, GoesOnIsTransitive
  <2> QED  BY <2>1, <2>3
<1>4. G \in SUBSET (0..MaxRecs)
  OBVIOUS
<1> HIDE DEF G
<1>5. MaxRecs \in G
  BY <1>2, <1>3, <1>4, CountUp
<1> QED  BY <1>5 DEF G

\* What close_cohort does to sound rows.
Closing(d, e) ==
  /\ GoesOn(d, e) /\ DOMAIN e.cohorts = DOMAIN d.cohorts
  /\ e.err = "none" => \A r \in Recs : Ended(d, e, r)

LEMMA ClosingGoesOn ==
  ASSUME Recorded, NEW d \in Dbs, d.err = "none" => Sound(d),
         NEW C \in SUBSET DOMAIN d.cohorts, NEW why \in Closures,
         NEW asOf \in Times, asOf <= now
  PROVE  /\ Closing(d, CloseCohorts(d, C, why, asOf))
         /\ d.err = "none" /\ asOf = now => CloseCohorts(d, C, why, asOf).err = "none"
<1> DEFINE e == CloseCohorts(d, C, why, asOf)
<1>1. CASE d.err = "none"
  <2>1. /\ e \in Dbs /\ DOMAIN e.cohorts = DOMAIN d.cohorts /\ CohortsKept(d, e)
        /\ e.err = "none" => /\ d.err = "none"
                             /\ Sound(e) /\ LiveOf(e) \subseteq LiveOf(d)
                             /\ \A r \in Recs : Ended(d, e, r)
        /\ asOf = now => e.err = d.err
    <3>1. Recorded /\ Sound(d)
      BY <1>1
    <3> QED  BY ONLY <3>1, C \in SUBSET DOMAIN d.cohorts, why \in Closures, asOf \in Times,
                asOf <= now, ClosingIsSound
  <2> HIDE DEF e
  <2>2. Closing(d, e)
    BY <2>1, KeptFollows DEF Closing, GoesOn
  <2> QED  BY <1>1, <2>1, <2>2 DEF e
<1>2. CASE d.err # "none"
  <2>1. CohortsClosed(d, CloseCohorts(d, C, why, asOf), C, asOf)
    BY CloseEffects
  <2> USE DEF CohortsClosed
  <2>2. e \in Dbs /\ DOMAIN e.cohorts = DOMAIN d.cohorts /\ (e.err = "none" => d.err = "none")
    BY <2>1
  <2> HIDE DEF e
  <2>3. Closing(d, e)
    BY <1>2, <2>2 DEF Closing, GoesOn
  <2> QED  BY <1>2, <2>3 DEF e
<1> QED  BY <1>1, <1>2

LEMMA EndedAwaitsNot ==
  ASSUME Recorded, NEW d, Sound(d), NEW e, \A r \in Recs : Ended(d, e, r)
  PROVE  NoneAwaits(d, e)
<1> SUFFICES ASSUME NEW q \in Recs, Cur(e, q) = "awaiting_portfolio_assessment"
             PROVE  Cur(d, q) = Cur(e, q)
  BY DEF NoneAwaits
<1>1. CASE e.chain[q] = d.chain[q]
  BY <1>1 DEF Cur
<1>2. CASE \E s \in Ends \ {"abstained"}, at \in Times : at <= now /\ Moved(d, e, q, s, at)
  <2>1. PICK s \in Ends \ {"abstained"}, at \in Times : at <= now /\ Moved(d, e, q, s, at)
    BY <1>2
  <2>2. s \in Moves /\ LegalChain(d.chain[q], q, genAt[q], now)
    BY EndStates DEF Sound, ChainsInv
  <2>3. Cur(e, q) = s
    BY <2>1, <2>2, MovedChain
  <2> QED  BY <2>2, <2>3, EndStates
<1> QED  BY <1>1, <1>2 DEF Ended

(* The cohorts that are over are closed, and now that is not refused.         *)
LEMMA CohortsGoOn ==
  ASSUME Recorded, NEW d \in Dbs, d.err = "none" => Sound(d),
         NEW asOf \in Times, asOf <= now
  PROVE  /\ GoesOn(d, ReconcileCohorts(d, asOf))
         /\ d.err = "none" /\ asOf = now =>
              /\ ReconcileCohorts(d, asOf).err = "none"
              /\ NoneAwaits(d, ReconcileCohorts(d, asOf))
<1> DEFINE open == {k \in DOMAIN d.cohorts : ~Closed(d.cohorts[k])
                                             /\ d.cohorts[k].gen <= asOf}
           late == {k \in open : d.cohorts[k].deadline <= asOf}
           hit == {k \in open \ late : Triggered(d.cohorts[k], asOf)}
           d1 == CloseCohorts(d, late, "decision_deadline", asOf)
           e == CloseCohorts(d1, hit, "entry_trigger_before_selection", asOf)
<1>1. ReconcileCohorts(d, asOf) = e
  BY DEF ReconcileCohorts
<1>2. late \in SUBSET DOMAIN d.cohorts /\ hit \in SUBSET DOMAIN d.cohorts
  OBVIOUS
<1>3. "decision_deadline" \in Closures /\ "entry_trigger_before_selection" \in Closures
  BY DEF Closures
<1> HIDE DEF open, late, hit
<1>4. Closing(d, d1) /\ (d.err = "none" /\ asOf = now => d1.err = "none")
  BY <1>2, <1>3, ClosingGoesOn
<1> HIDE DEF d1
<1>5. d1 \in Dbs /\ (d1.err = "none" => Sound(d1)) /\ hit \in SUBSET DOMAIN d1.cohorts
  BY <1>2, <1>4 DEF Closing, GoesOn
<1>6. Closing(d1, e) /\ (d1.err = "none" /\ asOf = now => e.err = "none")
  BY <1>3, <1>5, ClosingGoesOn
<1> HIDE DEF e
<1>7. GoesOn(d, e)
  BY <1>4, <1>6, GoesOnIsTransitive DEF Closing
<1>8. ASSUME d.err = "none", asOf = now
      PROVE  e.err = "none" /\ NoneAwaits(d, e)
  <2>1. d1.err = "none" /\ e.err = "none"
    BY <1>4, <1>6, <1>8
  <2>2. NoneAwaits(d, d1)
    BY <1>4, <1>8, <2>1, EndedAwaitsNot DEF Closing
  <2>3. NoneAwaits(d1, e)
    BY <1>5, <1>6, <2>1, EndedAwaitsNot DEF Closing
  <2> QED  BY <2>1, <2>2, <2>3 DEF NoneAwaits
<1> QED  BY <1>1, <1>7, <1>8

(* A whole reconciliation.                                                    *)
LEMMA ReconciledGoesOn ==
  ASSUME Recorded, Sound(db), db.err = "none", NEW i, NEW asOf \in Times, asOf <= now
  PROVE  GoesOn(db, Reconciled(i, asOf))
<1>1. PICK f : /\ IsPass(f, i, asOf, db, MaxRecs)
               /\ Reconciled(i, asOf) = ReconcileCohorts(f[MaxRecs], asOf)
  BY ReconciledIsPass, Zenon
<1>2. GoesOn(db, f[MaxRecs])
  BY <1>1, PassGoesOn
<1>3. GoesOn(f[MaxRecs], ReconcileCohorts(f[MaxRecs], asOf))
  BY <1>2, CohortsGoOn DEF GoesOn
<1> QED  BY <1>1, <1>2, <1>3, GoesOnIsTransitive

(* When the day of all of them is over, reconciling an instrument's           *)
(* recommendations is not refused and leaves none awaiting assessment.        *)
LEMMA LatePass ==
  ASSUME Recorded, NEW d, Sound(d), d.err = "none", NEW i,
         \A r \in Generated : inst[r] = i => now >= genAt[r] + Window,
         NEW f, IsPass(f, i, now, d, MaxRecs)
  PROVE  /\ GoesOn(d, f[MaxRecs]) /\ f[MaxRecs].err = "none"
         /\ \A r \in Generated : inst[r] = i =>
              Cur(f[MaxRecs], r) # "awaiting_portfolio_assessment"
<1> DEFINE Done(n) == {r \in Generated : inst[r] = i /\ r > MaxRecs - n}
           G == {n \in 0..MaxRecs :
                   /\ GoesOn(d, f[n]) /\ f[n].err = "none"
                   /\ \A r \in Done(n) : Cur(f[n], r) # "awaiting_portfolio_assessment"}
<1>1. /\ MaxRecs \in Nat /\ d \in Dbs /\ now \in Times /\ now <= now
      /\ \A r \in Generated : r \in 1..MaxRecs /\ r \in Recs
  BY ConstantsAssumption, NowIsTime DEF Sound, Generated, Recs
<1>2. 0 \in G
  <2>1. GoesOn(d, d) /\ f[0] = d
    BY <1>1, SameGoesOn, PassSteps
  <2>2. Done(0) = {}
    BY <1>1
  <2> QED  BY <1>1, <2>1, <2>2
<1>3. ASSUME NEW n \in 1..MaxRecs, n - 1 \in G
      PROVE  n \in G
  <2> DEFINE e == f[n - 1]
             r == MaxRecs + 1 - n
  <2>1. /\ GoesOn(d, e) /\ e.err = "none" /\ n \in 0..MaxRecs /\ r \in Recs
        /\ \A q \in Done(n - 1) : Cur(e, q) # "awaiting_portfolio_assessment"
        /\ f[n] = ReconcileOf(i, e, r, now)
    BY <1>1, <1>3, PassSteps
  <2>2. \A q \in Done(n) : q \in Done(n - 1) \/ q = r
    BY <1>1
  <2>3. \A q \in Done(n) : q \in Generated /\ inst[q] = i
    OBVIOUS
  <2>4. Sound(e)
    BY <2>1 DEF GoesOn
  <2> HIDE DEF Done, e, r
  <2>5. GoesOn(e, f[n])
    BY <1>1, <2>1, <2>4, ReconcileOfGoesOn DEF GoesOn
  <2>6. CASE r \in Generated /\ inst[r] = i
    <3>1. genAt[r] <= now /\ now >= genAt[r] + Window
      BY <2>1, <2>6 DEF Recorded
    <3>2. f[n] = ReconcileRec(e, r, now)
      BY <2>1, <2>6, <3>1 DEF ReconcileOf
    <3>3. /\ f[n].err = "none" /\ Cur(f[n], r) # "awaiting_portfolio_assessment"
          /\ NoneAwaits(e, f[n])
      BY <2>1, <2>4, <3>1, <3>2, LateRecEnds
    <3>4. \A q \in Done(n) : Cur(f[n], q) # "awaiting_portfolio_assessment"
      BY <1>1, <2>1, <2>2, <2>3, <3>3 DEF NoneAwaits
    <3>5. GoesOn(d, f[n])
      BY <2>1, <2>5, GoesOnIsTransitive
    <3> QED  BY <2>1, <3>3, <3>4, <3>5
  <2>7. CASE ~(r \in Generated /\ inst[r] = i)
    <3>1. f[n] = e
      BY <2>1, <2>7 DEF ReconcileOf
    <3>2. \A q \in Done(n) : Cur(f[n], q) # "awaiting_portfolio_assessment"
      BY <2>1, <2>2, <2>3, <2>7, <3>1
    <3> QED  BY <2>1, <3>1, <3>2
  <2> QED  BY <2>6, <2>7
<1>4. G \in SUBSET (0..MaxRecs)
  OBVIOUS
<1>5. \A r \in Generated : inst[r] = i => r \in Done(MaxRecs)
  BY <1>1
<1> HIDE DEF Done
<1>6. MaxRecs \in G
  <2> HIDE DEF G
  <2> QED  BY <1>2, <1>3, <1>4, CountUp
<1> QED  BY <1>5, <1>6

LEMMA LateReconciliation ==
  ASSUME Recorded, Sound(db), db.err = "none"
  PROVE  AssessmentEnds
<1> SUFFICES ASSUME NEW i \in Instruments,
                    \A r \in {q \in Generated : inst[q] = i} : now >= genAt[r] + Window
             PROVE  /\ Reconciled(i, now).err = "none"
                    /\ \A r \in {q \in Generated : inst[q] = i} :
                         Current(Reconciled(i, now), r) # "awaiting_portfolio_assessment"
  BY Zenon DEF AssessmentEnds
<1>0. \A r \in Generated : inst[r] = i => now >= genAt[r] + Window
  OBVIOUS
<1>1. PICK f : /\ IsPass(f, i, now, db, MaxRecs)
               /\ Reconciled(i, now) = ReconcileCohorts(f[MaxRecs], now)
  BY ReconciledIsPass, Zenon
<1> DEFINE d == f[MaxRecs]
           e == ReconcileCohorts(d, now)
<1>2. /\ GoesOn(db, d) /\ d.err = "none"
      /\ \A r \in Generated : inst[r] = i => Cur(d, r) # "awaiting_portfolio_assessment"
  BY <1>0, <1>1, LatePass
<1> HIDE DEF d
<1>3. GoesOn(d, e) /\ e.err = "none" /\ NoneAwaits(d, e)
  BY <1>2, NowIsTime, CohortsGoOn DEF GoesOn
<1> HIDE DEF e
<1>4. ASSUME NEW r \in Generated, inst[r] = i
      PROVE  Current(e, r) # "awaiting_portfolio_assessment"
  <2>1. r \in Recs
    BY DEF Generated
  <2>2. Cur(e, r) # "awaiting_portfolio_assessment"
    BY <1>2, <1>3, <1>4, <2>1 DEF NoneAwaits
  <2>3. LegalChain(e.chain[r], r, genAt[r], now) /\ now \in Nat
    BY <1>3, <2>1, NowIsTime DEF GoesOn, Sound, ChainsInv
  <2>4. Current(e, r) = Cur(e, r)
    BY <2>3, ProjectedIsCurrent DEF Cur
  <2> QED  BY <2>2, <2>4
<1>5. Reconciled(i, now) = e
  BY <1>1 DEF d, e
<1> QED  BY <1>3, <1>4, <1>5

-----------------------------------------------------------------------------
(* The inductive invariant.                                                   *)

\* Targets are named by recommendations of the same instrument.
TargetInv(gen, ins, tgt) ==
  \A r \in Recs : gen[r] # 0 =>
    /\ ins[r] \in Instruments
    /\ tgt[r] \in Recs /\ gen[tgt[r]] # 0 /\ ins[tgt[r]] = ins[r]

\* What the batch works with: the recommendation that is not sized yet, too.
InHand(b) == b.made \cup ({b.cur} \ {0})

\* A batch has one recommendation of an instrument whose turn is over.
BatchInv(b, gen, ins, t) ==
  /\ b \in [phase : {"idle", "running"}, count : Nat, at : Times,
            todo : SUBSET Instruments, cur : Recs \cup {0}, made : SUBSET Recs,
            failed : BOOLEAN]
  /\ b.at <= t
  /\ b.phase = "running" => b.at # 0
  /\ \A r \in InHand(b) : gen[r] # 0 /\ ins[r] \notin b.todo
  /\ \A r, q \in InHand(b) : ins[r] = ins[q] => r = q

IInv ==
  /\ Recorded /\ db.err = "none" /\ Sound(db)
  /\ BatchInv(batch, genAt, inst, now)
  /\ TargetInv(genAt, inst, target)

(* The batch's recommendations have targets of their own.                     *)
LEMMA BatchTargetsApart ==
  ASSUME IInv
  PROVE  /\ batch.made \in SUBSET Recs /\ batch.at \in Times /\ batch.at <= now
         /\ \A r, q \in batch.made : target[r] = target[q] => r = q
<1>1. batch.made \in SUBSET Recs /\ batch.at \in Times /\ batch.at <= now
  BY DEF IInv, BatchInv
<1>2. ASSUME NEW r \in batch.made, NEW q \in batch.made, target[r] = target[q]
      PROVE  r = q
  <2>1. r \in InHand(batch) /\ q \in InHand(batch) /\ r \in Recs /\ q \in Recs
    BY <1>1 DEF InHand
  <2>2. genAt[r] # 0 /\ genAt[q] # 0
    BY <2>1 DEF IInv, BatchInv
  <2>3. inst[target[r]] = inst[r] /\ inst[target[q]] = inst[q]
    BY <2>1, <2>2 DEF IInv, TargetInv
  <2> QED  BY <1>2, <2>1, <2>3 DEF IInv, BatchInv
<1> QED  BY <1>1, <1>2

(* The checks before a selection leave nothing to the triggers.               *)
LEMMA SelectionIsRecorded ==
  ASSUME IInv, NEW k \in DOMAIN db.cohorts, NEW ids \in SUBSET db.cohorts[k].members,
         MaySelect(k, ids)
  PROVE  RecordSelection(db, k, ids, "owner").err = "none"
<1> DEFINE c == db.cohorts[k]
           e == RecordSelection(db, k, ids, "owner")
<1>1. Recorded /\ Sound(db) /\ db.err = "none"
  BY DEF IInv
<1>2. c \in Cohort
  BY <1>1, MembersAreRecs DEF Sound
<1>3. c.deadline \in Nat /\ c.gen \in Nat /\ now \in Nat /\ c.gen <= now
  BY <1>1, <1>2, CohortFields, TimesAreNat, NowIsTime DEF Sound, DecisionInv, CohortsPast
<1>4. c.sels = << >> /\ ~Closed(c) /\ now < c.deadline /\ ~Triggered(c, now)
  BY DEF MaySelect, IsOpen
<1>5. SelectionError(c) = "none"
  <2>1. ~(now >= c.deadline) /\ ~(now < c.gen)
    BY <1>3, <1>4
  <2> QED  BY <1>4, <2>1 DEF SelectionError
<1>6. Fits((LiveOf(db) \ c.members) \cup ids)
  <2>1. Active(db) = LiveOf(db)
    BY <1>1, ActiveIsLive DEF Sound
  <2>2. Fits((Active(db) \ c.members) \cup ids)
    BY DEF MaySelect
  <2> QED  BY <2>1, <2>2
<1>7. "owner" \in {"automatic", "owner"}
  OBVIOUS
<1>8. /\ e \in Dbs
      /\ e.err = "none" => Sound(e) /\ Recording(db, e, k, ids) /\ Follows(db, e)
      /\ SelectionError(db.cohorts[k]) # "none" => e.err = SelectionError(db.cohorts[k])
      /\ /\ SelectionError(db.cohorts[k]) = "none"
         /\ Fits((LiveOf(db) \ db.cohorts[k].members) \cup ids)
         => e.err = "none"
  BY <1>1, <1>7, RecordOutcome
<1> HIDE DEF e
<1>9. e.err = "none"
  BY <1>5, <1>6, <1>8
<1> QED  BY <1>9 DEF e

LEMMA BackstopsHold ==
  ASSUME IInv
  PROVE  BackstopsNeverFire
<1>1. ASSUME NEW k \in DOMAIN db.cohorts, NEW ids \in SUBSET db.cohorts[k].members,
             MaySelect(k, ids)
      PROVE  RecordSelection(db, k, ids, "owner").err = "none"
  BY <1>1, SelectionIsRecorded
<1>2. Assess(db, batch.made, batch.at).err \in
        {"none", "decision_window_closed", "decision_price_triggered",
         "membership_evidence_mismatch"}
  <2> DEFINE S == batch.made
             g == batch.at
  <2>1. /\ S \in SUBSET Recs /\ g \in Times /\ g <= now
        /\ \A r, q \in S : target[r] = target[q] => r = q
    BY BatchTargetsApart
  <2>2. Recorded /\ Sound(db) /\ db.err = "none"
    BY DEF IInv
  <2> HIDE DEF S, g
  <2>3. LET x == Assess(db, S, g)
        IN /\ x \in Dbs /\ x.err \in AssessErrors
           /\ x.err = "none" => Sound(x) /\ Follows(db, x)
    BY <2>1, <2>2, AssessOutcome
  <2>4. Assess(db, S, g).err \in AssessErrors
    BY <2>3
  <2> QED  BY <2>4 DEF S, g, AssessErrors
<1> QED  BY <1>1, <1>2, Zenon DEF BackstopsNeverFire

\* Sound, with the facts and the time as arguments.
LegsAt(r, ins) ==
  IF Action[r] = "buy" THEN {<<Base[ins[r]], 1>>, <<Quote[ins[r]], -1>>}
                       ELSE {<<Base[ins[r]], -1>>, <<Quote[ins[r]], 1>>}

FitsAt(S, ins) ==
  /\ TotalRisk(S) <= AggregateCap
  /\ \A leg \in UNION {LegsAt(r, ins) : r \in S} :
       TotalRisk({r \in S : leg \in LegsAt(r, ins)}) <= DirectionCap

SoundAt(d, gen, ins, tgt, ent, res, t) ==
  /\ d \in Dbs
  /\ ChainsInv(d, gen, t)
  /\ DecisionInv(d, ins, tgt, t)
  /\ FactsInv(d, ent, res)
  /\ FitsAt(LiveOf(d), ins)

LEMMA FitsAtIsFits ==
  ASSUME NEW S
  PROVE  Fits(S) <=> FitsAt(S, inst)
<1>1. \A r : Legs(r) = LegsAt(r, inst)
  BY DEF Legs, LegsAt
<1>2. /\ UNION {Legs(r) : r \in S} = UNION {LegsAt(r, inst) : r \in S}
      /\ \A leg : {r \in S : leg \in Legs(r)} = {r \in S : leg \in LegsAt(r, inst)}
  BY <1>1
<1> QED  BY <1>2 DEF Fits, FitsAt

LEMMA SoundIsSoundAt ==
  ASSUME NEW d
  PROVE  Sound(d) <=> SoundAt(d, genAt, inst, target, entryAt, result, now)
BY FitsAtIsFits DEF Sound, SoundAt

LEMMA NextSoundIsSoundAt ==
  Sound(db)' <=> SoundAt(db', genAt', inst', target', entryAt', result', now')
<1> DEFINE S == LiveOf(db)'
<1>1. \A r : Legs(r)' = LegsAt(r, inst')
  BY DEF Legs, LegsAt
<1>2. Fits(LiveOf(db))' <=> FitsAt(S, inst')
  <2>1. /\ UNION {Legs(r)' : r \in S} = UNION {LegsAt(r, inst') : r \in S}
        /\ \A leg : {r \in S : leg \in Legs(r)'} = {r \in S : leg \in LegsAt(r, inst')}
    BY <1>1
  <2>2. Fits(LiveOf(db))' <=> /\ TotalRisk(S) <= AggregateCap
                              /\ \A leg \in UNION {Legs(r)' : r \in S} :
                                   TotalRisk({r \in S : leg \in Legs(r)'}) <= DirectionCap
    BY DEF Fits, TotalRisk, RiskUnits
  <2> QED  BY <2>1, <2>2 DEF FitsAt
<1>3. Sound(db)' <=> /\ db' \in Dbs
                     /\ ChainsInv(db', genAt', now')
                     /\ DecisionInv(db', inst', target', now')
                     /\ FactsInv(db', entryAt', result')
                     /\ Fits(LiveOf(db))'
  BY DEF Sound
<1>4. S = LiveOf(db')
  BY DEF LiveOf, Cur
<1> HIDE DEF S
<1> QED  BY <1>2, <1>3, <1>4 DEF SoundAt

(* A transaction while clock and facts stand.                                 *)
LEMMA CommitIsSound ==
  ASSUME IInv, NEW d, GoesOn(db, d), Commit(d), UNCHANGED <<now, facts>>
  PROVE  Recorded' /\ db'.err = "none" /\ Sound(db)' /\ Follows(db, db')
<1>1. Recorded /\ Sound(db) /\ db.err = "none"
  BY DEF IInv
<1>2. Recorded'
  BY <1>1 DEF Recorded, facts
<1>3. Sound(db') /\ db'.err = "none" /\ Follows(db, db')
  <2>1. CASE d.err = "none"
    BY <2>1 DEF Commit, GoesOn
  <2>2. CASE d.err # "none"
    <3>1. db' = db
      BY <2>2 DEF Commit
    <3> QED  BY <3>1, <1>1 DEF Follows, SameCohort
  <2> QED  BY <2>1, <2>2
<1>4. SoundAt(db', genAt, inst, target, entryAt, result, now)
  BY <1>3, SoundIsSoundAt
<1>5. SoundAt(db', genAt', inst', target', entryAt', result', now')
  BY <1>4 DEF facts
<1> QED  BY <1>2, <1>3, <1>5, NextSoundIsSoundAt

(* Without a transaction of the lifecycle.                                    *)
LEMMA StandsIsSound ==
  ASSUME IInv, UNCHANGED <<now, genAt, inst, target, entryAt, result, db>>
  PROVE  Sound(db)' /\ db'.err = "none"
<1>1. SoundAt(db, genAt, inst, target, entryAt, result, now)
  BY SoundIsSoundAt DEF IInv
<1>2. SoundAt(db', genAt', inst', target', entryAt', result', now')
  BY <1>1
<1> QED  BY <1>2, NextSoundIsSoundAt DEF IInv

LEMMA TickKeeps ==
  ASSUME IInv, Tick
  PROVE  IInv'
<1>1. /\ now' = now + 1 /\ UNCHANGED <<facts, db, batch>>
      /\ now \in Nat /\ now < LastTick(Cardinality(Generated))
  BY NowIsTime DEF Tick, IInv
<1>2. now' \in 1..MaxTime
  <2>1. LastTick(Cardinality(Generated)) \in {MaxTime, CrowdTime}
    BY DEF LastTick
  <2>2. MaxTime \in Nat /\ CrowdTime \in 1..MaxTime
    BY ConstantsAssumption
  <2>3. LastTick(Cardinality(Generated)) \in Nat
        /\ LastTick(Cardinality(Generated)) <= MaxTime
    BY <2>1, <2>2
  <2> HIDE DEF LastTick
  <2> QED  BY <1>1, <2>2, <2>3
<1>3. Recorded'
  <2>1. \A r \in Recs : genAt[r] \in Nat /\ seenAt[r] \in Nat
                       /\ genAt[r] <= now /\ seenAt[r] <= now
    BY TimesAreNat DEF IInv, Recorded
  <2>2. \A r \in Recs : genAt'[r] <= now' /\ seenAt'[r] <= now'
    BY <1>1, <2>1 DEF facts
  <2> QED  BY <1>1, <1>2, <2>2 DEF IInv, Recorded, facts
<1>4. SoundAt(db, genAt, inst, target, entryAt, result, now + 1)
  <2>1. SoundAt(db, genAt, inst, target, entryAt, result, now)
    BY SoundIsSoundAt DEF IInv
  <2>2. ASSUME NEW r \in Recs PROVE LegalChain(db.chain[r], r, genAt[r], now + 1)
    <3>1. LegalChain(db.chain[r], r, genAt[r], now) /\ db.chain[r] \in Seq(Event)
      BY <2>1 DEF SoundAt, ChainsInv, LegalChain
    <3>2. \A k \in 1..Len(db.chain[r]) : db.chain[r][k] \in Event
      BY <3>1
    <3>3. \A k \in 1..Len(db.chain[r]) : db.chain[r][k].at <= now + 1
      <4> SUFFICES ASSUME NEW k \in 1..Len(db.chain[r]) PROVE db.chain[r][k].at <= now + 1
        OBVIOUS
      <4>1. db.chain[r][k].at \in Nat /\ db.chain[r][k].at <= now
        BY <3>1, <3>2, EventFields DEF LegalChain
      <4> QED  BY <4>1, <1>1
    <3> QED  BY <3>1, <3>3 DEF LegalChain
  <2>3. CohortsPast(db, now + 1)
    <3> SUFFICES ASSUME NEW k \in DOMAIN db.cohorts PROVE db.cohorts[k].gen <= now + 1
      BY DEF CohortsPast
    <3>1. db.cohorts[k].gen \in Nat /\ db.cohorts[k].gen <= now
      BY <2>1, MembersAreRecs, CohortFields, TimesAreNat DEF SoundAt, DecisionInv, CohortsPast
    <3> QED  BY <3>1, <1>1
  <2> QED  BY <2>1, <2>2, <2>3 DEF SoundAt, ChainsInv, DecisionInv
<1>5. SoundAt(db', genAt', inst', target', entryAt', result', now')
  BY <1>1, <1>4 DEF facts
<1>6. BatchInv(batch', genAt', inst', now')
  <2>1. batch.at \in Nat /\ batch.at <= now
    BY TimesAreNat DEF IInv, BatchInv
  <2>2. batch.at <= now + 1
    BY <1>1, <2>1
  <2> QED  BY <1>1, <2>2 DEF IInv, BatchInv, facts
<1>7. TargetInv(genAt', inst', target') /\ db'.err = "none"
  BY <1>1 DEF IInv, facts
<1> QED  BY <1>3, <1>5, <1>6, <1>7, NextSoundIsSoundAt DEF IInv

LEMMA EntryLevelReachedKeeps ==
  ASSUME IInv, NEW r \in Recs, EntryLevelReached(r)
  PROVE  IInv'
<1>1. /\ seenAt' = [seenAt EXCEPT ![r] = now]
      /\ UNCHANGED <<now, genAt, inst, target, sizedAt, entryAt, result, db, batch>>
  BY DEF EntryLevelReached
<1>2. Recorded'
  <2>1. now \in Times /\ now \in Nat /\ seenAt \in [Recs -> Times]
    BY NowIsTime DEF IInv, Recorded
  <2>2. seenAt' \in [Recs -> Times]
    BY <1>1, <2>1
  <2>3. \A q \in Recs : seenAt'[q] <= now
    BY <1>1, <2>1 DEF IInv, Recorded
  <2> QED  BY <1>1, <2>2, <2>3 DEF IInv, Recorded
<1>3. Sound(db)' /\ db'.err = "none"
  BY <1>1, StandsIsSound
<1>4. BatchInv(batch', genAt', inst', now') /\ TargetInv(genAt', inst', target')
  BY <1>1 DEF IInv
<1> QED  BY <1>2, <1>3, <1>4 DEF IInv

(* The batch between its transactions.                                        *)
LEMMA IdleIsSound ==
  ASSUME NEW n \in Nat, NEW gen, NEW ins, NEW t \in Nat
  PROVE  BatchInv(IdleBatch(n), gen, ins, t)
<1>1. 0 \in Times
  BY ConstantsAssumption DEF Times
<1>2. /\ IdleBatch(n).phase = "idle" /\ IdleBatch(n).at = 0
      /\ InHand(IdleBatch(n)) = {}
  BY DEF IdleBatch, InHand
<1>3. IdleBatch(n) \in [phase : {"idle", "running"}, count : Nat, at : Times,
                        todo : SUBSET Instruments, cur : Recs \cup {0},
                        made : SUBSET Recs, failed : BOOLEAN]
  BY <1>1 DEF IdleBatch
<1> QED  BY <1>2, <1>3 DEF BatchInv

\* What the batch does to its own state.
BatchMoves ==
  \/ BatchStart
  \/ \E i \in Instruments : GenerateFails(i) \/ \E r \in Recs : GenerateExisting(i, r)
  \/ SizingFails \/ BatchEnds

LEMMA BatchFields ==
  ASSUME IInv
  PROVE  /\ batch \in [phase : {"idle", "running"}, count : Nat, at : Times,
                       todo : SUBSET Instruments, cur : Recs \cup {0},
                       made : SUBSET Recs, failed : BOOLEAN]
         /\ batch.at \in Nat /\ batch.at <= now
         /\ batch.phase = "running" => batch.at # 0
         /\ \A r \in InHand(batch) : genAt[r] # 0 /\ inst[r] \notin batch.todo
         /\ \A r, q \in InHand(batch) : inst[r] = inst[q] => r = q
BY TimesAreNat DEF IInv, BatchInv

LEMMA BatchMovesKeep ==
  ASSUME IInv, BatchMoves
  PROVE  IInv'
<1>1. UNCHANGED <<now, facts, db>>
  BY DEF BatchMoves, BatchStart, GenerateFails, GenerateExisting, SizingFails, BatchEnds
<1>2. Recorded'
  BY <1>1 DEF IInv, Recorded, facts
<1>3. Sound(db)' /\ db'.err = "none"
  BY <1>1, StandsIsSound DEF facts
<1>4. TargetInv(genAt', inst', target')
  BY <1>1 DEF IInv, facts
<1>5. BatchInv(batch', genAt, inst, now)
  <2>1. now \in Nat /\ now \in Times /\ now # 0 /\ now <= now
    BY NowIsTime DEF IInv, Recorded
  <2>2. CASE BatchStart
    <3>1. batch' = [phase |-> "running", count |-> batch.count + 1, at |-> now,
                    todo |-> Instruments, cur |-> 0, made |-> {}, failed |-> FALSE]
      BY <2>2 DEF BatchStart
    <3>2. batch.count + 1 \in Nat
      BY BatchFields
    <3>3. InHand(batch') = {}
      BY <3>1 DEF InHand
    <3>4. batch' \in [phase : {"idle", "running"}, count : Nat, at : Times,
                      todo : SUBSET Instruments, cur : Recs \cup {0},
                      made : SUBSET Recs, failed : BOOLEAN]
      BY <2>1, <3>1, <3>2
    <3> QED  BY <2>1, <3>1, <3>3, <3>4 DEF BatchInv
  <2>3. CASE \E i \in Instruments : GenerateFails(i)
    <3>1. PICK i \in Instruments : GenerateFails(i)
      BY <2>3
    <3>2. batch' = [Turned(i) EXCEPT !.failed = TRUE] /\ batch.cur = 0
      BY <3>1 DEF GenerateFails, BatchTurn
    <3>3. /\ batch'.phase = batch.phase /\ batch'.count = batch.count
          /\ batch'.at = batch.at /\ batch'.todo = batch.todo \ {i}
          /\ batch'.cur = batch.cur /\ batch'.made = batch.made
          /\ batch' \in [phase : {"idle", "running"}, count : Nat, at : Times,
                         todo : SUBSET Instruments, cur : Recs \cup {0},
                         made : SUBSET Recs, failed : BOOLEAN]
      BY <3>2, BatchFields DEF Turned
    <3>4. InHand(batch') = InHand(batch)
      BY <3>3 DEF InHand
    <3> QED  BY <3>3, <3>4, BatchFields DEF BatchInv
  <2>4. CASE \E i \in Instruments, r \in Recs : GenerateExisting(i, r)
    <3>1. PICK i \in Instruments, r \in Recs : GenerateExisting(i, r)
      BY <2>4
    <3>2. /\ batch' = [Turned(i) EXCEPT !.cur = r] /\ batch.cur = 0 /\ i \in batch.todo
          /\ genAt[r] # 0 /\ inst[r] = i
      BY <3>1 DEF GenerateExisting, BatchTurn, Latest, Generated
    <3>3. /\ batch'.phase = batch.phase /\ batch'.count = batch.count
          /\ batch'.at = batch.at /\ batch'.todo = batch.todo \ {i}
          /\ batch'.cur = r /\ batch'.made = batch.made
          /\ batch' \in [phase : {"idle", "running"}, count : Nat, at : Times,
                         todo : SUBSET Instruments, cur : Recs \cup {0},
                         made : SUBSET Recs, failed : BOOLEAN]
      BY <3>2, BatchFields DEF Turned
    <3>4. \A q \in InHand(batch') : q = r \/ q \in InHand(batch)
      BY <3>3 DEF InHand
    <3>5. \A q \in InHand(batch') : genAt[q] # 0 /\ inst[q] \notin batch'.todo
      BY <3>2, <3>3, <3>4, BatchFields
    <3>6. \A p, q \in InHand(batch') : inst[p] = inst[q] => p = q
      BY <3>2, <3>4, BatchFields
    <3> QED  BY <3>3, <3>5, <3>6, BatchFields DEF BatchInv
  <2>5. CASE SizingFails
    <3>1. batch' = [[batch EXCEPT !.failed = TRUE] EXCEPT !.cur = 0]
      BY <2>5 DEF SizingFails
    <3>2. /\ batch'.phase = batch.phase /\ batch'.count = batch.count
          /\ batch'.at = batch.at /\ batch'.todo = batch.todo
          /\ batch'.cur = 0 /\ batch'.made = batch.made
          /\ batch' \in [phase : {"idle", "running"}, count : Nat, at : Times,
                         todo : SUBSET Instruments, cur : Recs \cup {0},
                         made : SUBSET Recs, failed : BOOLEAN]
      BY <3>1, BatchFields
    <3>3. InHand(batch') \subseteq InHand(batch)
      BY <3>2 DEF InHand
    <3> QED  BY <3>2, <3>3, BatchFields DEF BatchInv
  <2>6. CASE BatchEnds
    <3>1. batch' = IdleBatch(batch.count) /\ batch.count \in Nat
      BY <2>6, BatchFields DEF BatchEnds
    <3> QED  BY <2>1, <3>1, IdleIsSound
  <2> QED  BY <2>2, <2>3, <2>4, <2>5, <2>6 DEF BatchMoves
<1>6. BatchInv(batch', genAt', inst', now')
  BY <1>1, <1>5 DEF facts
<1> QED  BY <1>2, <1>3, <1>4, <1>6 DEF IInv

LEMMA SizeRecommendationKeeps ==
  ASSUME IInv, SizeRecommendation
  PROVE  IInv'
<1> DEFINE r == batch.cur
<1>1. /\ r # 0
      /\ sizedAt' = IF Action[r] # "abstain" /\ sizedAt[r] = 0
                    THEN [sizedAt EXCEPT ![r] = batch.at] ELSE sizedAt
      /\ batch' = [[batch EXCEPT !.made = batch.made \cup {r}] EXCEPT !.cur = 0]
      /\ UNCHANGED <<now, genAt, inst, target, seenAt, entryAt, result, db>>
  BY DEF SizeRecommendation
<1>2. Recorded'
  <2>1. sizedAt' \in [Recs -> Times]
    BY <1>1, BatchFields DEF IInv, Recorded
  <2> QED  BY <1>1, <2>1 DEF IInv, Recorded
<1>3. Sound(db)' /\ db'.err = "none"
  BY <1>1, StandsIsSound
<1>4. TargetInv(genAt', inst', target')
  BY <1>1 DEF IInv
<1>5. BatchInv(batch', genAt', inst', now')
  <2>1. /\ batch'.phase = batch.phase /\ batch'.count = batch.count
        /\ batch'.at = batch.at /\ batch'.todo = batch.todo
        /\ batch'.cur = 0 /\ batch'.made = batch.made \cup {r}
        /\ batch' \in [phase : {"idle", "running"}, count : Nat, at : Times,
                       todo : SUBSET Instruments, cur : Recs \cup {0},
                       made : SUBSET Recs, failed : BOOLEAN]
    BY <1>1, BatchFields
  <2>2. InHand(batch') = InHand(batch)
    BY <1>1, <2>1 DEF InHand
  <2> QED  BY <1>1, <2>1, <2>2, BatchFields DEF BatchInv
<1> QED  BY <1>2, <1>3, <1>4, <1>5 DEF IInv

(* The transactions of the lifecycle.                                         *)
LEMMA BatchAssessKeeps ==
  ASSUME IInv, BatchAssess
  PROVE  IInv' /\ Follows(db, db')
<1> DEFINE S == batch.made
           g == batch.at
<1>1. /\ Commit(Assess(db, S, g)) /\ batch' = IdleBatch(batch.count)
      /\ UNCHANGED <<now, facts>>
  BY DEF BatchAssess
<1>2. /\ S \in SUBSET Recs /\ g \in Times /\ g <= now
      /\ \A r, q \in S : target[r] = target[q] => r = q
  BY BatchTargetsApart
<1>3. Recorded /\ Sound(db) /\ db.err = "none"
  BY DEF IInv
<1> HIDE DEF S, g
<1>4. LET x == Assess(db, S, g)
      IN /\ x \in Dbs /\ x.err \in AssessErrors
         /\ x.err = "none" => Sound(x) /\ Follows(db, x)
  BY <1>2, <1>3, AssessOutcome
<1>5. GoesOn(db, Assess(db, S, g))
  BY <1>3, <1>4 DEF GoesOn
<1>6. Recorded' /\ db'.err = "none" /\ Sound(db)' /\ Follows(db, db')
  BY <1>1, <1>5, CommitIsSound
<1>7. BatchInv(batch', genAt', inst', now') /\ TargetInv(genAt', inst', target')
  BY <1>1, <1>3, BatchFields, IdleIsSound, NowIsTime DEF IInv, facts
<1> QED  BY <1>6, <1>7 DEF IInv

LEMMA ReconcileKeeps ==
  ASSUME IInv, NEW i \in Instruments, NEW asOf \in 1..now, Reconcile(i, asOf)
  PROVE  IInv' /\ Follows(db, db')
<1>1. Commit(Reconciled(i, asOf)) /\ UNCHANGED <<now, facts, batch>>
  BY DEF Reconcile
<1>2. Recorded /\ Sound(db) /\ db.err = "none"
  BY DEF IInv
<1>3. asOf \in Times /\ asOf <= now
  BY <1>2, NowIsTime
<1>4. GoesOn(db, Reconciled(i, asOf))
  BY <1>2, <1>3, ReconciledGoesOn
<1>5. Recorded' /\ db'.err = "none" /\ Sound(db)' /\ Follows(db, db')
  BY <1>1, <1>4, CommitIsSound
<1>6. BatchInv(batch', genAt', inst', now') /\ TargetInv(genAt', inst', target')
  BY <1>1 DEF IInv, facts
<1> QED  BY <1>5, <1>6 DEF IInv

LEMMA SelectKeeps ==
  ASSUME IInv, NEW k \in DOMAIN db.cohorts, NEW ids \in SUBSET db.cohorts[k].members,
         Select(k, ids)
  PROVE  IInv' /\ Follows(db, db')
<1> DEFINE e == RecordSelection(db, k, ids, "owner")
<1>1. Commit(e) /\ UNCHANGED <<now, facts, batch>>
  BY DEF Select
<1>2. Recorded /\ Sound(db) /\ db.err = "none" /\ "owner" \in {"automatic", "owner"}
  BY DEF IInv
<1>3. /\ e \in Dbs
      /\ e.err = "none" => Sound(e) /\ Recording(db, e, k, ids) /\ Follows(db, e)
      /\ SelectionError(db.cohorts[k]) # "none" => e.err = SelectionError(db.cohorts[k])
      /\ /\ SelectionError(db.cohorts[k]) = "none"
         /\ Fits((LiveOf(db) \ db.cohorts[k].members) \cup ids)
         => e.err = "none"
  BY <1>2, RecordOutcome
<1> HIDE DEF e
<1>4. GoesOn(db, e)
  BY <1>2, <1>3 DEF GoesOn
<1>5. Recorded' /\ db'.err = "none" /\ Sound(db)' /\ Follows(db, db')
  BY <1>1, <1>4, CommitIsSound
<1>6. BatchInv(batch', genAt', inst', now') /\ TargetInv(genAt', inst', target')
  BY <1>1 DEF IInv, facts
<1> QED  BY <1>5, <1>6 DEF IInv

(* A generated recommendation starts a legal chain.                           *)
LEMMA FirstEventIsLegal ==
  ASSUME NEW r \in Recs, NEW g \in Times, g # 0, NEW t \in Nat, g <= t
  PROVE  LET c == <<[state |-> InitialState(r), at |-> g]>>
         IN LegalChain(c, r, g, t) /\ StateOf(c) = InitialState(r)
<1> DEFINE ev == [state |-> InitialState(r), at |-> g]
           c == <<ev>>
<1>1. ev \in Event /\ ev.state = InitialState(r) /\ ev.at = g
  BY DEF Event, InitialState, States, TRANSITIONS
<1> HIDE DEF ev
<1>2. c \in Seq(Event) /\ Len(c) = 1 /\ c[1] = ev /\ c # << >>
  BY <1>1
<1> HIDE DEF c
<1>3. \A k \in 1..Len(c) : k = 1
  BY <1>2
<1>4. \A k \in 1..(Len(c) - 1) : FALSE
  BY <1>2
<1>5. \A j, k \in 1..Len(c) : ~(j < k)
  BY <1>2
<1>6. LegalChain(c, r, g, t) /\ StateOf(c) = InitialState(r)
  BY <1>1, <1>2, <1>3, <1>4, <1>5 DEF LegalChain, StateOf
<1> QED  BY <1>6 DEF c, ev

\* r is generated at g: its rows, and the facts about it.
Generates(d, e, r, g) ==
  /\ e \in Dbs /\ e.cohorts = d.cohorts /\ e.adm = d.adm
  /\ e.chain[r] = <<[state |-> InitialState(r), at |-> g]>>
  /\ \A q \in Recs \ {r} : e.chain[q] = d.chain[q]

Extends(gen, ins, tgt, r, g) ==
  /\ gen[r] = g
  /\ \A q \in Recs \ {r} : gen[q] = genAt[q] /\ ins[q] = inst[q] /\ tgt[q] = target[q]

(* A recommendation that is generated is new to the decisions.                *)
LEMMA GeneratedIsSound ==
  ASSUME Recorded, NEW d, Sound(d), NEW r \in Recs, genAt[r] = 0,
         NEW g \in Times, g # 0, g <= now, NEW e,
         NEW gen, NEW ins, NEW tgt, Generates(d, e, r, g), Extends(gen, ins, tgt, r, g)
  PROVE  SoundAt(e, gen, ins, tgt, entryAt, result, now)
<1> USE DEF Generates, Extends
<1>1. now \in Nat /\ LegalChain(d.chain[r], r, genAt[r], now) /\ d.chain[r] = << >>
  BY NowIsTime DEF Sound, ChainsInv, LegalChain
<1>2. \A s : ~Has(d.chain[r], s)
  BY <1>1 DEF Has
<1>3. LegalChain(e.chain[r], r, g, now) /\ Cur(e, r) = InitialState(r)
  <2>1. LET c == <<[state |-> InitialState(r), at |-> g]>>
        IN LegalChain(c, r, g, now) /\ StateOf(c) = InitialState(r)
    BY <1>1, FirstEventIsLegal
  <2> QED  BY <2>1 DEF Cur
<1>4. ChainsInv(e, gen, now)
  BY <1>3 DEF ChainsInv, Sound
<1>5. \A q \in Recs \ {r} : /\ Cur(e, q) = Cur(d, q)
                            /\ \A s : Has(e.chain[q], s) <=> Has(d.chain[q], s)
  BY DEF Cur
<1>6. \A k \in DOMAIN d.cohorts : \A q \in d.cohorts[k].members : q \in Recs \ {r}
  <2> SUFFICES ASSUME NEW k \in DOMAIN d.cohorts, NEW q \in d.cohorts[k].members
               PROVE  q \in Recs \ {r}
    OBVIOUS
  <2>1. q \in Recs
    BY MembersAreRecs DEF Sound
  <2>2. Has(d.chain[q], "awaiting_owner_decision")
    BY DEF Sound, DecisionInv, MembersPut
  <2> QED  BY <2>1, <2>2, <1>2
<1>7. Cur(e, r) \in {"abstained", "awaiting_portfolio_assessment"}
  BY <1>3 DEF InitialState
<1>8. Cur(d, r) = "none"
  BY <1>1 DEF Cur, StateOf
<1>9. DecisionInv(e, ins, tgt, now)
  <2>1. MembersPut(e)
    BY <1>5, <1>6 DEF Sound, DecisionInv, MembersPut
  <2>2. MembersApart(e)
    BY DEF Sound, DecisionInv, MembersApart
  <2>3. SelectionsEnd(e)
    BY <1>5, <1>6 DEF Sound, DecisionInv, SelectionsEnd
  <2>4. AdmittedIsSelected(e)
    BY <1>5, <1>7 DEF Sound, DecisionInv, AdmittedIsSelected, SelectedIn
  <2>5. LaterCloses(e, ins)
    <3>1. ASSUME NEW k \in DOMAIN d.cohorts, NEW n \in DOMAIN d.cohorts,
                 \E p \in d.cohorts[k].members, q \in d.cohorts[n].members : ins[p] = ins[q]
          PROVE  \E p \in d.cohorts[k].members, q \in d.cohorts[n].members : inst[p] = inst[q]
      BY <1>6, <3>1
    <3> QED  BY <3>1 DEF Sound, DecisionInv, LaterCloses
  <2>6. OpenTargetsApart(e, tgt)
    <3> SUFFICES ASSUME NEW j \in DOMAIN d.cohorts, NEW k \in DOMAIN d.cohorts,
                        ~Closed(d.cohorts[j]), ~Closed(d.cohorts[k]),
                        NEW p \in d.cohorts[j].members, NEW q \in d.cohorts[k].members,
                        tgt[p] = tgt[q]
                 PROVE  p = q
      BY DEF OpenTargetsApart
    <3>1. target[p] = target[q]
      BY <1>6
    <3> QED  BY <3>1 DEF Sound, DecisionInv, OpenTargetsApart
  <2>7. CohortsPast(e, now)
    BY DEF Sound, DecisionInv, CohortsPast
  <2> QED  BY <2>1, <2>2, <2>3, <2>4, <2>5, <2>6, <2>7 DEF DecisionInv
<1>10. FactsInv(e, entryAt, result)
  <2> SUFFICES ASSUME NEW q \in Recs PROVE FactsOf(e, q, entryAt, result)
    BY DEF FactsInv
  <2>1. FactsOf(d, q, entryAt, result)
    BY DEF Sound, FactsInv
  <2>2. CASE q # r
    BY <2>1, <2>2, <1>5 DEF FactsOf
  <2>3. CASE q = r
    <3>1. entryAt[q] = 0
      BY <2>1, <2>3, <1>2 DEF FactsOf
    <3>2. result[q].outcome = "none"
      <4>1. SUFFICES ASSUME result[q].outcome # "none" PROVE FALSE
        OBVIOUS
      <4>2. result[q].outcome \in DOMAIN OutcomeState
        BY <4>1 DEF Recorded
      <4>3. OutcomeState[result[q].outcome] # "none"
        BY <4>2, OutcomesEnd, EndStates
      <4> QED  BY <2>1, <2>3, <4>1, <4>3, <1>8 DEF FactsOf
    <3> QED  BY <2>3, <3>1, <3>2, <1>7 DEF FactsOf
  <2> QED  BY <2>2, <2>3
<1>11. LiveOf(e) = LiveOf(d) /\ LiveOf(d) \subseteq Recs \ {r}
  <2>1. r \notin LiveOf(e) /\ r \notin LiveOf(d)
    BY <1>7, <1>8 DEF LiveOf
  <2>2. \A q \in Recs \ {r} : q \in LiveOf(e) <=> q \in LiveOf(d)
    BY <1>5 DEF LiveOf
  <2>3. \A q : (q \in LiveOf(e) => q \in Recs) /\ (q \in LiveOf(d) => q \in Recs)
    BY DEF LiveOf
  <2>4. \A q : q \in LiveOf(e) <=> q \in LiveOf(d)
    BY <2>1, <2>2, <2>3
  <2> DEFINE L == LiveOf(d)
             K == LiveOf(e)
  <2>5. /\ \A q : q \in K <=> q \in L
        /\ \A q : q \in L => q \in Recs /\ q # r
    BY <2>1, <2>3, <2>4
  <2> QED  BY <2>5
<1>12. FitsAt(LiveOf(e), ins)
  <2> DEFINE L == LiveOf(d)
  <2>1. FitsAt(L, inst)
    BY FitsAtIsFits DEF Sound
  <2>2. L \subseteq Recs \ {r}
    BY <1>11
  <2> HIDE DEF L
  <2>3. \A q \in L : LegsAt(q, ins) = LegsAt(q, inst)
    BY <2>2 DEF LegsAt
  <2>4. /\ UNION {LegsAt(q, ins) : q \in L} = UNION {LegsAt(q, inst) : q \in L}
        /\ \A leg : {q \in L : leg \in LegsAt(q, ins)} = {q \in L : leg \in LegsAt(q, inst)}
    BY <2>3
  <2>5. FitsAt(L, ins)
    BY <2>1, <2>4 DEF FitsAt
  <2> QED  BY <2>5, <1>11 DEF L
<1> QED  BY <1>4, <1>9, <1>10, <1>12 DEF SoundAt

LEMMA GenerateKeeps ==
  ASSUME IInv, NEW i \in Instruments, NEW r \in Recs, NEW t \in Recs, Generate(i, r, t)
  PROVE  IInv' /\ db'.cohorts = db.cohorts
<1> DEFINE g == batch.at
           ev == [state |-> InitialState(r), at |-> g]
           chain == [db.chain EXCEPT ![r] = <<ev>>]
<1>1. /\ batch.phase = "running" /\ batch.cur = 0 /\ i \in batch.todo
      /\ genAt[r] = 0
      /\ t \in {r} \cup {target[q] : q \in Latest(i)}
      /\ genAt' = [genAt EXCEPT ![r] = g]
      /\ inst' = [inst EXCEPT ![r] = i]
      /\ target' = [target EXCEPT ![r] = t]
      /\ db' = [db EXCEPT !.chain = chain]
      /\ batch' = [Turned(i) EXCEPT !.cur = r]
      /\ UNCHANGED <<now, sizedAt, seenAt, entryAt, result>>
  BY DEF Generate, BatchTurn, Generated
<1>2. g \in Times /\ g \in Nat /\ g # 0 /\ g <= now /\ now \in Nat
  BY <1>1, BatchFields, NowIsTime DEF IInv
<1>3. /\ genAt' \in [Recs -> Times] /\ genAt'[r] = g
      /\ inst' \in [Recs -> Instruments \cup {0}] /\ inst'[r] = i
      /\ target' \in [Recs -> Recs] /\ target'[r] = t
      /\ \A q \in Recs \ {r} : /\ genAt'[q] = genAt[q] /\ inst'[q] = inst[q]
                               /\ target'[q] = target[q]
  BY <1>1, <1>2 DEF IInv, Recorded
<1>4. Recorded'
  <2>1. \A q \in Recs : genAt'[q] <= now
    BY <1>2, <1>3 DEF IInv, Recorded
  <2> QED  BY <1>1, <1>3, <2>1 DEF IInv, Recorded
<1>5. /\ db.chain \in [Recs -> Seq(Event)] /\ db \in Dbs
  BY DbFields DEF IInv, Sound
<1>6. ev \in Event
  BY <1>2 DEF Event, InitialState, States, TRANSITIONS
<1>7. /\ chain \in [Recs -> Seq(Event)] /\ chain[r] = <<ev>>
      /\ \A q \in Recs \ {r} : chain[q] = db.chain[q]
  <2> HIDE DEF ev
  <2>1. <<ev>> \in Seq(Event)
    BY <1>6
  <2> QED  BY <1>5, <2>1
<1> HIDE DEF chain
<1>8. /\ db' \in Dbs /\ db'.chain = chain /\ db'.cohorts = db.cohorts /\ db'.adm = db.adm
      /\ db'.err = "none"
  BY <1>1, <1>5, <1>7 DEF Dbs, IInv
<1>9. SoundAt(db', genAt', inst', target', entryAt, result, now)
  <2>1. /\ db'.chain[r] = <<[state |-> InitialState(r), at |-> g]>>
        /\ \A q \in Recs \ {r} : db'.chain[q] = db.chain[q]
    BY <1>7, <1>8
  <2>2. Recorded /\ Sound(db)
    BY DEF IInv
  <2>3. Generates(db, db', r, g) /\ Extends(genAt', inst', target', r, g)
    BY <1>3, <1>8, <2>1 DEF Generates, Extends
  <2> HIDE DEF g
  <2> QED  BY <1>1, <1>2, <2>2, <2>3, GeneratedIsSound
<1>10. Sound(db)'
  BY <1>1, <1>9, NextSoundIsSoundAt
<1>11. BatchInv(batch', genAt', inst', now)
  <2>1. /\ batch'.phase = batch.phase /\ batch'.count = batch.count
        /\ batch'.at = batch.at /\ batch'.todo = batch.todo \ {i}
        /\ batch'.cur = r /\ batch'.made = batch.made
        /\ batch' \in [phase : {"idle", "running"}, count : Nat, at : Times,
                       todo : SUBSET Instruments, cur : Recs \cup {0},
                       made : SUBSET Recs, failed : BOOLEAN]
    BY <1>1, BatchFields DEF Turned
  <2>2. \A q \in InHand(batch') : q = r \/ q \in InHand(batch)
    BY <2>1 DEF InHand
  <2>3. \A q \in InHand(batch) : q \in Recs \ {r} /\ genAt[q] # 0 /\ inst[q] \notin batch.todo
    <3>1. \A q \in InHand(batch) : q \in Recs
      BY BatchFields DEF InHand
    <3> QED  BY <1>1, <3>1, BatchFields
  <2>4. \A q \in InHand(batch') : genAt'[q] # 0 /\ inst'[q] \notin batch'.todo
    BY <1>2, <1>3, <2>1, <2>2, <2>3
  <2>5. ASSUME NEW p \in InHand(batch'), NEW q \in InHand(batch'), inst'[p] = inst'[q]
        PROVE  p = q
    <3>1. CASE p \in InHand(batch) /\ q \in InHand(batch)
      <4>1. inst[p] = inst[q]
        BY <1>3, <2>3, <2>5, <3>1
      <4> QED  BY <3>1, <4>1, BatchFields
    <3>2. CASE p = r /\ q \in InHand(batch)
      BY <1>1, <1>3, <2>3, <2>5, <3>2
    <3>3. CASE q = r /\ p \in InHand(batch)
      BY <1>1, <1>3, <2>3, <2>5, <3>3
    <3> QED  BY <2>2, <3>1, <3>2, <3>3
  <2> QED  BY <2>1, <2>4, <2>5, BatchFields DEF BatchInv
<1>12. TargetInv(genAt', inst', target')
  <2> SUFFICES ASSUME NEW p \in Recs, genAt'[p] # 0
               PROVE  /\ inst'[p] \in Instruments
                      /\ target'[p] \in Recs /\ genAt'[target'[p]] # 0
                      /\ inst'[target'[p]] = inst'[p]
    BY DEF TargetInv
  <2>1. CASE p # r
    <3>1. /\ genAt[p] # 0 /\ inst'[p] = inst[p] /\ target'[p] = target[p]
      BY <1>3, <2>1
    <3>2. /\ inst[p] \in Instruments /\ target[p] \in Recs /\ genAt[target[p]] # 0
          /\ inst[target[p]] = inst[p]
      BY <3>1 DEF IInv, TargetInv
    <3>3. target[p] \in Recs \ {r}
      BY <1>1, <3>2
    <3> QED  BY <1>3, <3>1, <3>2, <3>3
  <2>2. CASE p = r /\ t = r
    BY <1>2, <1>3, <2>2
  <2>3. CASE p = r /\ t # r
    <3>1. PICK q \in Latest(i) : t = target[q]
      BY <1>1, <2>3
    <3>2. q \in Recs /\ genAt[q] # 0 /\ inst[q] = i
      BY <3>1 DEF Latest, Generated
    <3>3. genAt[t] # 0 /\ inst[t] = i
      BY <3>1, <3>2 DEF IInv, TargetInv
    <3> QED  BY <1>3, <2>3, <3>3
  <2> QED  BY <2>1, <2>2, <2>3
<1> QED  BY <1>1, <1>4, <1>8, <1>10, <1>11, <1>12 DEF IInv

-----------------------------------------------------------------------------
(* Paper trading.                                                             *)

Live == {"admitted_awaiting_entry", "entered"}

\* From d to e the trade of r goes on or ends.
Traded(d, e, r) ==
  /\ e \in Dbs /\ e.cohorts = d.cohorts /\ e.adm = d.adm
  /\ \A q \in Recs \ {r} : e.chain[q] = d.chain[q]
  /\ LegalChain(e.chain[r], r, genAt[r], now)
  /\ \A s : Has(d.chain[r], s) => Has(e.chain[r], s)
  /\ Cur(e, r) # "awaiting_owner_decision"

\* Only r's entry and result may change.
OthersStand(ent, res, r) ==
  \A q \in Recs \ {r} : ent[q] = entryAt[q] /\ res[q] = result[q]

(* A step of a live trade, with its entry and result.                         *)
LEMMA PaperIsSound ==
  ASSUME Recorded, NEW d, Sound(d), NEW r \in Recs, Cur(d, r) \in Live,
         d.adm[r] = "admitted", NEW e, Traded(d, e, r),
         NEW ent, NEW res, FactsOf(e, r, ent, res), OthersStand(ent, res, r)
  PROVE  SoundAt(e, genAt, inst, target, ent, res, now)
<1> USE DEF Traded, OthersStand
<1>1. ChainsInv(e, genAt, now)
  BY DEF Sound, ChainsInv
<1>2. \A q \in Recs \ {r} : /\ Cur(e, q) = Cur(d, q)
                            /\ \A s : Has(e.chain[q], s) <=> Has(d.chain[q], s)
  BY DEF Cur
<1>3. \A k \in DOMAIN d.cohorts : \A q \in d.cohorts[k].members : q \in Recs
  BY MembersAreRecs DEF Sound
<1>4. DecisionInv(e, inst, target, now)
  <2>1. MembersPut(e)
    BY <1>2, <1>3 DEF Sound, DecisionInv, MembersPut
  <2>2. MembersApart(e)
    BY DEF Sound, DecisionInv, MembersApart
  <2>3. SelectionsEnd(e)
    BY <1>2, <1>3 DEF Sound, DecisionInv, SelectionsEnd
  <2>4. AdmittedIsSelected(e)
    BY <1>2 DEF Sound, DecisionInv, AdmittedIsSelected, SelectedIn
  <2>5. LaterCloses(e, inst)
    BY DEF Sound, DecisionInv, LaterCloses
  <2>6. OpenTargetsApart(e, target)
    BY DEF Sound, DecisionInv, OpenTargetsApart
  <2>7. CohortsPast(e, now)
    BY DEF Sound, DecisionInv, CohortsPast
  <2> QED  BY <2>1, <2>2, <2>3, <2>4, <2>5, <2>6, <2>7 DEF DecisionInv
<1>5. FactsInv(e, ent, res)
  <2> SUFFICES ASSUME NEW q \in Recs PROVE FactsOf(e, q, ent, res)
    BY DEF FactsInv
  <2>1. FactsOf(d, q, entryAt, result)
    BY DEF Sound, FactsInv
  <2>2. CASE q # r
    BY <2>1, <2>2, <1>2 DEF FactsOf
  <2> QED  BY <2>2
<1>6. FitsAt(LiveOf(e), inst)
  <2> DEFINE L == LiveOf(d)
             K == LiveOf(e)
  <2>1. r \in L
    BY DEF LiveOf, Live
  <2>2. \A q : q \in K => q \in L
    BY <1>2, <2>1 DEF LiveOf
  <2>3. L \in SUBSET Recs /\ Fits(L)
    BY DEF LiveOf, Sound
  <2> HIDE DEF L, K
  <2>4. K \in SUBSET L
    BY <2>2
  <2>5. Fits(K)
    BY <2>3, <2>4, FitsIsMonotone
  <2> QED  BY <2>5, FitsAtIsFits DEF K
<1> QED  BY <1>1, <1>4, <1>5, <1>6 DEF SoundAt

\* r is moved to s in rows that stay the same otherwise.
PaperMoved(d, e, r, s) ==
  /\ e \in Dbs /\ e.cohorts = d.cohorts /\ e.adm = d.adm
  /\ \A q \in Recs \ {r} : e.chain[q] = d.chain[q]
  /\ LegalChain(e.chain[r], r, genAt[r], now)
  /\ \A x : Has(e.chain[r], x) <=> Has(d.chain[r], x) \/ x = s
  /\ Cur(e, r) = s

LEMMA PaperMoves ==
  ASSUME Recorded, NEW d \in Dbs, NEW r \in Recs, LegalChain(d.chain[r], r, genAt[r], now),
         Cur(d, r) \in Live, NEW s \in (Ends \ {"abstained"}) \cup {"entered"},
         s = "entered" => Cur(d, r) = "admitted_awaiting_entry",
         Transition(d, {r}, s, now).err = "none"
  PROVE  PaperMoved(d, Transition(d, {r}, s, now), r, s)
<1> DEFINE S == {r}
           e == Transition(d, S, s, now)
<1>1. S \in SUBSET Recs /\ now \in Times /\ now \in Nat /\ now <= now
  BY NowIsTime
<1>2. s \in States \ {"none"} /\ s \in Moves
  BY EndStates DEF Ends, States, TRANSITIONS
<1>3. e.err = "none"
  OBVIOUS
<1>4. \A q : q \in S <=> q = r
  OBVIOUS
<1> HIDE DEF S
<1>5. Transitioned(d, e, S, s, now)
  BY <1>1, <1>2, TransitionEffects
<1> USE DEF Transitioned
<1> HIDE DEF e
<1>6. ~Has(d.chain[r], s)
  <2>1. s # Cur(d, r) /\ ~(Rank(s) < Rank(Cur(d, r)))
    BY EndStates DEF Rank, Live
  <2> QED  BY <2>1, PastRanksBelow DEF Cur
<1>7. Moved(d, e, r, s, now)
  BY <1>3, <1>4, <1>5, <1>6
<1>8. /\ LegalChain(e.chain[r], r, genAt[r], now) /\ Cur(e, r) = s
      /\ \A x : Has(e.chain[r], x) <=> Has(d.chain[r], x) \/ x = s
  BY <1>1, <1>2, <1>7, MovedChain
<1>9. PaperMoved(d, e, r, s)
  BY <1>3, <1>4, <1>5, <1>8 DEF PaperMoved
<1> QED  BY <1>9 DEF e, S

(* The result that is recorded for an end is the one that means it.           *)
LEMMA ResultMeansEnd ==
  ASSUME Recorded, NEW s
  PROVE  /\ RecordedResult(s) \in [outcome : DOMAIN OutcomeState \cup {"none"}, at : Times]
         /\ RecordedResult(s).outcome # "none" => OutcomeState[RecordedResult(s).outcome] = s
         /\ s \in {"none", "entered"} => RecordedResult(s).outcome = "none"
<1>1. now \in Times /\ 0 \in Times
  BY NowIsTime, ConstantsAssumption DEF Times
<1>2. CASE \E o \in DOMAIN OutcomeState : OutcomeState[o] = s
  <2> DEFINE o == CHOOSE o \in DOMAIN OutcomeState : OutcomeState[o] = s
  <2>1. o \in DOMAIN OutcomeState /\ OutcomeState[o] = s
    BY <1>2
  <2>2. RecordedResult(s) = [outcome |-> o, at |-> now]
    BY <1>2 DEF RecordedResult
  <2>3. s \in Ends \ {"abstained"}
    BY <2>1, OutcomesEnd
  <2> HIDE DEF o
  <2> QED  BY <1>1, <2>1, <2>2, <2>3, EndStates
<1>3. CASE ~ \E o \in DOMAIN OutcomeState : OutcomeState[o] = s
  BY <1>1, <1>3 DEF RecordedResult
<1> QED  BY <1>2, <1>3

LEMMA MayResolveIsLive ==
  ASSUME IInv, NEW r \in Recs, MayResolve(r)
  PROVE  /\ Cur(db, r) \in Live /\ db.adm[r] = "admitted" /\ db \in Dbs
         /\ LegalChain(db.chain[r], r, genAt[r], now)
         /\ entryAt[r] = 0 <=> Cur(db, r) = "admitted_awaiting_entry"
         /\ Traded(db, db, r)
<1>1. LegalChain(db.chain[r], r, genAt[r], now) /\ now \in Nat /\ db \in Dbs
  BY NowIsTime DEF IInv, Sound, ChainsInv
<1>2. Projected(db, r, now) = Cur(db, r)
  BY <1>1, ProjectedIsCurrent DEF Cur
<1>3. Cur(db, r) \in Live /\ db.adm[r] = "admitted"
  BY <1>2 DEF MayResolve, Live
<1>4. FactsOf(db, r, entryAt, result)
  BY DEF IInv, Sound, FactsInv
<1>5. entryAt[r] = 0 <=> Cur(db, r) = "admitted_awaiting_entry"
  BY <1>3, <1>4 DEF FactsOf, Live
<1>6. Traded(db, db, r)
  BY <1>1, <1>3 DEF Traded, Live
<1> QED  BY <1>1, <1>3, <1>5, <1>6

LEMMA TradedKeeps ==
  ASSUME IInv, NEW r \in Recs, MayResolve(r), Traded(db, db', r), db'.err = "none",
         entryAt' \in [Recs -> Times], \A q \in Recs \ {r} : entryAt'[q] = entryAt[q],
         NEW s, result' = [result EXCEPT ![r] = RecordedResult(s)],
         FactsOf(db', r, entryAt', result'),
         UNCHANGED <<now, genAt, inst, target, sizedAt, seenAt, batch>>
  PROVE  IInv' /\ db'.cohorts = db.cohorts
<1>1. Recorded /\ Sound(db)
  BY DEF IInv
<1>2. /\ result' \in [Recs -> [outcome : DOMAIN OutcomeState \cup {"none"}, at : Times]]
      /\ \A q \in Recs \ {r} : result'[q] = result[q]
  <2>1. RecordedResult(s) \in [outcome : DOMAIN OutcomeState \cup {"none"}, at : Times]
    BY <1>1, ResultMeansEnd
  <2> QED  BY <1>1, <2>1 DEF Recorded
<1>3. Recorded'
  BY <1>1, <1>2 DEF Recorded
<1>4. SoundAt(db', genAt, inst, target, entryAt', result', now)
  <2>1. Cur(db, r) \in Live /\ db.adm[r] = "admitted"
    BY MayResolveIsLive
  <2>2. \A q \in Recs \ {r} : entryAt'[q] = entryAt[q] /\ result'[q] = result[q]
    BY <1>2
  <2>3. OthersStand(entryAt', result', r)
    BY <2>2 DEF OthersStand
  <2> QED  BY <1>1, <2>1, <2>3, PaperIsSound
<1>5. Sound(db)'
  BY <1>4, NextSoundIsSoundAt
<1>6. BatchInv(batch', genAt', inst', now') /\ TargetInv(genAt', inst', target')
  BY DEF IInv
<1> QED  BY <1>3, <1>5, <1>6 DEF IInv, Traded

(* The end of a trade in the rows d, which were moved from db before.         *)
LEMMA EndIsTraded ==
  ASSUME IInv, NEW r \in Recs, NEW d, Traded(db, d, r), Cur(d, r) \in Live,
         NEW s \in (Ends \ {"abstained"}) \cup {"none"}, PaperEnds(r, d, s)
  PROVE  /\ Traded(db, db', r) /\ db'.err = "none"
         /\ Cur(db', r) = IF s = "none" THEN Cur(d, r) ELSE s
         /\ \A x : Has(d.chain[r], x) => Has(db'.chain[r], x)
         /\ result' = [result EXCEPT ![r] = RecordedResult(s)]
         /\ UNCHANGED <<now, genAt, inst, target, sizedAt, seenAt, batch>>
<1>1. /\ db' = IF s = "none" THEN d ELSE Transition(d, {r}, s, now)
      /\ db'.err = "none"
      /\ result' = [result EXCEPT ![r] = RecordedResult(s)]
      /\ UNCHANGED <<now, genAt, inst, target, sizedAt, seenAt, batch>>
  BY DEF PaperEnds
<1>2. CASE s = "none"
  BY <1>1, <1>2
<1>3. CASE s # "none"
  <2>1. d \in Dbs /\ LegalChain(d.chain[r], r, genAt[r], now) /\ Recorded
    BY DEF Traded, IInv
  <2>2. s \in (Ends \ {"abstained"}) \cup {"entered"} /\ s # "entered"
        /\ s # "awaiting_owner_decision"
    BY <1>3, EndStates
  <2>3. Transition(d, {r}, s, now).err = "none"
    BY <1>1, <1>3
  <2>4. PaperMoved(d, Transition(d, {r}, s, now), r, s)
    BY <2>1, <2>2, <2>3, PaperMoves
  <2>5. PaperMoved(d, db', r, s)
    BY <1>1, <1>3, <2>4
  <2>6. Traded(db, db', r)
    BY <2>2, <2>5 DEF PaperMoved, Traded
  <2> QED  BY <1>1, <1>3, <2>5, <2>6 DEF PaperMoved
<1> QED  BY <1>2, <1>3

LEMMA OutcomesAreEnds ==
  /\ \A r : EnteredOutcomes(r) \subseteq (Ends \ {"abstained"}) \cup {"none"}
  /\ \A r : PendingOutcomes(r) \subseteq Ends \ {"abstained"}
<1>1. /\ {"target_hit", "invalidated", "expired_after_entry", "missing_data"}
           \subseteq Ends \ {"abstained"}
      /\ {"expired_unobserved", "expired_not_activated", "missing_data"}
           \subseteq Ends \ {"abstained"}
  BY EndStates
<1> QED  BY <1>1 DEF EnteredOutcomes, PendingOutcomes

LEMMA PaperEnterKeeps ==
  ASSUME IInv, NEW r \in Recs, NEW s \in States, PaperEnter(r, s)
  PROVE  IInv' /\ db'.cohorts = db.cohorts
<1> DEFINE d == Transition(db, {r}, "entered", now)
<1>1. /\ MayResolve(r) /\ entryAt[r] = 0 /\ s \in EnteredOutcomes(r)
      /\ entryAt' = [entryAt EXCEPT ![r] = now]
      /\ PaperEnds(r, d, s)
  BY DEF PaperEnter
<1>2. /\ Cur(db, r) = "admitted_awaiting_entry" /\ db \in Dbs /\ Cur(db, r) \in Live
      /\ LegalChain(db.chain[r], r, genAt[r], now)
  BY <1>1, MayResolveIsLive
<1>3. Recorded /\ Sound(db) /\ db.err = "none" /\ now \in Times /\ now # 0
      /\ s \in (Ends \ {"abstained"}) \cup {"none"}
  BY <1>1, OutcomesAreEnds, NowIsTime DEF IInv, Recorded
<1>4. d.err = "none"
  <2>1. "entered" \in TRANSITIONS[Cur(db, r)]
    BY <1>2 DEF TRANSITIONS
  <2>2. Legal(db, r, "entered", now)
    BY <1>2, <1>3, <2>1, NowIsLegal
  <2> DEFINE new == {q \in {r} : \A k \in DOMAIN db.chain[q] : db.chain[q][k].state # "entered"}
  <2>3. ~ \E q \in new : ~Legal(db, q, "entered", now)
    BY <2>2
  <2>4. d = [db EXCEPT !.chain =
              [q \in Recs |->
                IF q \in new THEN Append(db.chain[q], [state |-> "entered", at |-> now])
                             ELSE db.chain[q]]]
    BY <2>3 DEF Transition
  <2> HIDE DEF new, d
  <2> QED  BY <1>2, <1>3, <2>4 DEF Dbs
<1>5. PaperMoved(db, d, r, "entered")
  <2>1. "entered" \in (Ends \ {"abstained"}) \cup {"entered"}
    OBVIOUS
  <2> QED  BY <1>2, <1>3, <1>4, <2>1, PaperMoves
<1> HIDE DEF d
<1>6. Traded(db, d, r) /\ Cur(d, r) = "entered" /\ Has(d.chain[r], "entered")
      /\ Cur(d, r) \in Live
  BY <1>5 DEF PaperMoved, Traded, Live
<1>7. /\ Traded(db, db', r) /\ db'.err = "none"
      /\ Cur(db', r) = IF s = "none" THEN Cur(d, r) ELSE s
      /\ \A x : Has(d.chain[r], x) => Has(db'.chain[r], x)
      /\ result' = [result EXCEPT ![r] = RecordedResult(s)]
      /\ UNCHANGED <<now, genAt, inst, target, sizedAt, seenAt, batch>>
  BY <1>1, <1>3, <1>6, EndIsTraded
<1>8. /\ entryAt' \in [Recs -> Times] /\ entryAt'[r] = now
      /\ \A q \in Recs \ {r} : entryAt'[q] = entryAt[q]
  BY <1>1, <1>3 DEF Recorded
<1>9. FactsOf(db', r, entryAt', result')
  <2>1. result'[r] = RecordedResult(s)
    BY <1>3, <1>7 DEF Recorded
  <2>2. /\ RecordedResult(s).outcome # "none" => OutcomeState[RecordedResult(s).outcome] = s
        /\ s \in {"none", "entered"} => RecordedResult(s).outcome = "none"
    BY <1>3, ResultMeansEnd
  <2>3. s # "admitted_awaiting_entry" /\ s # "entered"
    BY <1>3, EndStates
  <2> QED  BY <1>3, <1>6, <1>7, <1>8, <2>1, <2>2, <2>3 DEF FactsOf
<1> QED  BY <1>1, <1>7, <1>8, <1>9, TradedKeeps

(* A trade that ends where it stands.                                         *)
LEMMA PaperEndsKeeps ==
  ASSUME IInv, NEW r \in Recs, MayResolve(r), NEW s \in Ends \ {"abstained"},
         UNCHANGED entryAt, PaperEnds(r, db, s)
  PROVE  IInv' /\ db'.cohorts = db.cohorts
<1>1. /\ Cur(db, r) \in Live /\ Traded(db, db, r) /\ Recorded /\ Sound(db)
      /\ s \in (Ends \ {"abstained"}) \cup {"none"} /\ s # "none"
  BY MayResolveIsLive, EndStates DEF IInv
<1>2. /\ Traded(db, db', r) /\ db'.err = "none"
      /\ Cur(db', r) = IF s = "none" THEN Cur(db, r) ELSE s
      /\ \A x : Has(db.chain[r], x) => Has(db'.chain[r], x)
      /\ result' = [result EXCEPT ![r] = RecordedResult(s)]
      /\ UNCHANGED <<now, genAt, inst, target, sizedAt, seenAt, batch>>
  BY <1>1, EndIsTraded
<1>3. entryAt' \in [Recs -> Times] /\ \A q \in Recs \ {r} : entryAt'[q] = entryAt[q]
  BY <1>1 DEF Recorded
<1>4. FactsOf(db', r, entryAt', result')
  <2>1. result'[r] = RecordedResult(s)
    BY <1>1, <1>2 DEF Recorded
  <2>2. RecordedResult(s).outcome # "none" => OutcomeState[RecordedResult(s).outcome] = s
    BY <1>1, ResultMeansEnd
  <2>3. s # "admitted_awaiting_entry" /\ s # "entered"
    BY EndStates
  <2>4. entryAt[r] # 0 => Has(db.chain[r], "entered")
    BY <1>1 DEF Sound, FactsInv, FactsOf
  <2> QED  BY <1>1, <1>2, <2>1, <2>2, <2>3, <2>4 DEF FactsOf
<1> QED  BY <1>2, <1>3, <1>4, TradedKeeps

LEMMA PaperKeeps ==
  ASSUME IInv, NEW r \in Recs, NEW s \in States,
         PaperEnter(r, s) \/ PaperExit(r, s) \/ PaperLapse(r, s)
  PROVE  IInv' /\ db'.cohorts = db.cohorts
<1>1. CASE PaperEnter(r, s)
  BY <1>1, PaperEnterKeeps
<1>2. CASE PaperExit(r, s)
  <2>1. /\ MayResolve(r) /\ s \in EnteredOutcomes(r) \ {"none"} /\ UNCHANGED entryAt
        /\ PaperEnds(r, db, s)
    BY <1>2 DEF PaperExit
  <2>2. s \in Ends \ {"abstained"}
    BY <2>1, OutcomesAreEnds
  <2> QED  BY <2>1, <2>2, PaperEndsKeeps
<1>3. CASE PaperLapse(r, s)
  <2>1. /\ MayResolve(r) /\ s \in PendingOutcomes(r) /\ UNCHANGED entryAt
        /\ PaperEnds(r, db, s)
    BY <1>3 DEF PaperLapse
  <2>2. s \in Ends \ {"abstained"}
    BY <2>1, OutcomesAreEnds
  <2> QED  BY <2>1, <2>2, PaperEndsKeeps
<1> QED  BY <1>1, <1>2, <1>3

-----------------------------------------------------------------------------
(* The theorems.                                                              *)

LEMMA NothingFits == Fits({})
<1>1. RiskUnits({}) = {}
  BY DEF RiskUnits
<1>2. TotalRisk({}) = 0
  BY <1>1, FS_EmptySet DEF TotalRisk
<1> QED  BY <1>2, ConstantsAssumption DEF Fits

LEMMA InitIsSound ==
  ASSUME Init
  PROVE  IInv
<1>1. /\ now = 1 /\ MaxTime \in Nat /\ MaxTime >= 1 /\ 0 \in Times
  BY ConstantsAssumption DEF Init, Times
<1>2. Recorded
  <2>1. 0 <= now
    BY <1>1
  <2>2. \A r \in Recs : genAt[r] <= now /\ seenAt[r] <= now
    BY <2>1 DEF Init
  <2>3. now \in 1..MaxTime
    BY <1>1
  <2> QED  BY <1>1, <2>2, <2>3 DEF Init, Recorded
<1>3. /\ \A r \in Recs : db.chain[r] = << >> /\ db.adm[r] = "none"
      /\ db.cohorts = << >> /\ db.err = "none"
      /\ \A r \in Recs : genAt[r] = 0 /\ entryAt[r] = 0 /\ result[r].outcome = "none"
  BY DEF Init
<1>4. db \in Dbs
  <2>1. << >> \in Seq(Event) /\ << >> \in Seq(Cohort)
    OBVIOUS
  <2>2. "none" \in Refusals /\ "none" \in Errors
    BY DEF Refusals, Errors
  <2> QED  BY <2>1, <2>2 DEF Init, Dbs
<1>5. \A r \in Recs : Cur(db, r) = "none" /\ \A s : ~Has(db.chain[r], s)
  BY <1>3 DEF Cur, StateOf, Has
<1>6. ChainsInv(db, genAt, now)
  <2> SUFFICES ASSUME NEW r \in Recs PROVE LegalChain(db.chain[r], r, genAt[r], now)
    BY DEF ChainsInv
  <2>1. db.chain[r] = << >> /\ genAt[r] = 0
    BY <1>3
  <2>2. << >> \in Seq(Event) /\ Len(<< >>) = 0 /\ 1..0 = {} /\ 1..(0 - 1) = {}
    OBVIOUS
  <2>3. LegalChain(<< >>, r, 0, now)
    BY <2>2 DEF LegalChain
  <2> QED  BY <2>1, <2>3
<1>7. DOMAIN db.cohorts = {}
  BY <1>3
<1>8. DecisionInv(db, inst, target, now)
  BY <1>3, <1>5, <1>7 DEF DecisionInv, MembersPut, MembersApart, SelectionsEnd,
     AdmittedIsSelected, LaterCloses, OpenTargetsApart, CohortsPast
<1>9. FactsInv(db, entryAt, result)
  BY <1>3, <1>5 DEF FactsInv, FactsOf
<1>10. LiveOf(db) = {}
  BY <1>3 DEF LiveOf
<1>11. Sound(db)
  BY <1>4, <1>6, <1>8, <1>9, <1>10, NothingFits DEF Sound
<1>12. BatchInv(batch, genAt, inst, now)
  BY <1>1, IdleIsSound DEF Init
<1>13. TargetInv(genAt, inst, target)
  BY <1>3 DEF TargetInv
<1> QED  BY <1>2, <1>3, <1>11, <1>12, <1>13 DEF IInv

LEMMA SameCohortsFollow ==
  ASSUME NEW d, NEW e, e.cohorts = d.cohorts
  PROVE  Follows(d, e)
BY DEF Follows, SameCohort

(* Every step keeps the invariant, and selects without hindsight.             *)
LEMMA NextKeeps ==
  ASSUME IInv, [Next]_vars
  PROVE  IInv' /\ Follows(db, db')
<1>1. CASE Tick
  BY <1>1, TickKeeps, SameCohortsFollow DEF Tick
<1>2. ASSUME NEW r \in Recs, EntryLevelReached(r)
      PROVE  IInv' /\ Follows(db, db')
  BY <1>2, EntryLevelReachedKeeps, SameCohortsFollow DEF EntryLevelReached
<1>3. CASE BatchMoves
  <2>1. db' = db
    BY <1>3 DEF BatchMoves, BatchStart, GenerateFails, GenerateExisting, SizingFails, BatchEnds
  <2> QED  BY <1>3, <2>1, BatchMovesKeep, SameCohortsFollow
<1>4. ASSUME NEW i \in Instruments, NEW r \in Recs, NEW t \in Recs, Generate(i, r, t)
      PROVE  IInv' /\ Follows(db, db')
  BY <1>4, GenerateKeeps, SameCohortsFollow
<1>5. CASE SizeRecommendation
  BY <1>5, SizeRecommendationKeeps, SameCohortsFollow DEF SizeRecommendation
<1>6. CASE BatchAssess
  BY <1>6, BatchAssessKeeps
<1>7. CASE Batch
  BY <1>3, <1>4, <1>5, <1>6, <1>7 DEF Batch, BatchMoves
<1>8. ASSUME NEW i \in Instruments, NEW asOf \in 1..now, Reconcile(i, asOf)
      PROVE  IInv' /\ Follows(db, db')
  BY <1>8, ReconcileKeeps
<1>9. CASE Owner
  <2>1. PICK k \in DOMAIN db.cohorts :
          \E ids \in SUBSET db.cohorts[k].members : Select(k, ids)
    BY <1>9 DEF Owner
  <2>2. PICK ids \in SUBSET db.cohorts[k].members : Select(k, ids)
    BY <2>1
  <2> QED  BY <2>2, SelectKeeps
<1>10. CASE Paper
  <2>1. PICK r \in Recs, s \in States :
          PaperEnter(r, s) \/ PaperExit(r, s) \/ PaperLapse(r, s)
    BY <1>10 DEF Paper
  <2> QED  BY <2>1, PaperKeeps, SameCohortsFollow
<1>11. CASE UNCHANGED vars
  <2>1. UNCHANGED <<now, genAt, inst, target, sizedAt, seenAt, entryAt, result, db, batch>>
    BY <1>11 DEF vars
  <2>2. Recorded'
    BY <2>1 DEF IInv, Recorded
  <2>3. Sound(db)' /\ db'.err = "none"
    BY <2>1, StandsIsSound
  <2>4. BatchInv(batch', genAt', inst', now') /\ TargetInv(genAt', inst', target')
    BY <2>1 DEF IInv
  <2> QED  BY <2>1, <2>2, <2>3, <2>4, SameCohortsFollow DEF IInv
<1> QED  BY <1>1, <1>2, <1>7, <1>8, <1>9, <1>10, <1>11 DEF Next

(* The invariant: chains are legal with rising ranks, cohorts do not share    *)
(* members, a selection ends its decision, what is live was selected and      *)
(* fits, and the batch works on one recommendation per instrument.            *)
THEOREM PortfolioInvariantHolds == Spec => []IInv
<1>1. Init => IInv
  BY InitIsSound
<1>2. IInv /\ [Next]_vars => IInv'
  BY NextKeeps
<1> QED  BY <1>1, <1>2, PTL DEF Spec

(* TypeOK: the rows keep the shapes of the models of forecasts/models.py.     *)
THEOREM PortfolioTypeCorrect == Spec => []TypeOK
<1>1. IInv => TypeOK
  BY DEF IInv, Recorded, Sound, TypeOK
<1> QED  BY <1>1, PortfolioInvariantHolds, PTL

(* DecisionsAreConsistent, part by part.                                      *)
LEMMA CurrentIsCur ==
  ASSUME IInv, NEW r \in Recs
  PROVE  Current(db, r) = Cur(db, r) /\ LegalChain(db.chain[r], r, genAt[r], now)
<1>1. LegalChain(db.chain[r], r, genAt[r], now) /\ now \in Nat
  BY NowIsTime DEF IInv, Sound, ChainsInv
<1> QED  BY <1>1, ProjectedIsCurrent DEF Cur

LEMMA LegalChainsAreLegal ==
  ASSUME IInv
  PROVE  ChainsAreLegal
<1> SUFFICES ASSUME NEW r \in Generated
             PROVE  LET c == db.chain[r]
                    IN /\ c[1].state = InitialState(r) /\ c[1].at = genAt[r]
                       /\ \A k \in 1..(Len(c) - 1) :
                            /\ c[k + 1].state \in TRANSITIONS[c[k].state]
                            /\ c[k + 1].at >= c[k].at
  BY Zenon DEF ChainsAreLegal
<1> DEFINE c == db.chain[r]
<1>1. r \in Recs /\ genAt[r] # 0
  BY DEF Generated
<1>2. LegalChain(c, r, genAt[r], now)
  BY <1>1, CurrentIsCur
<1> HIDE DEF c
<1>3. c[1].state = InitialState(r) /\ c[1].at = genAt[r] /\ c \in Seq(Event)
  BY <1>1, <1>2 DEF LegalChain
<1>4. ASSUME NEW k \in 1..(Len(c) - 1)
      PROVE  c[k + 1].state \in TRANSITIONS[c[k].state] /\ c[k + 1].at >= c[k].at
  <2>1. k \in 1..Len(c) /\ k + 1 \in 1..Len(c) /\ k < k + 1
    BY <1>3
  <2>2. c[k].at \in Nat /\ c[k + 1].at \in Nat
    BY <2>1, <1>3, EventFields
  <2>3. c[k].at <= c[k + 1].at /\ c[k + 1].state \in TRANSITIONS[c[k].state]
    BY <2>1, <1>2 DEF LegalChain
  <2> QED  BY <2>2, <2>3
<1> QED  BY <1>3, <1>4 DEF c

LEMMA SelectedIsFirst ==
  ASSUME IInv, NEW r \in Recs, db.adm[r] = "admitted"
  PROVE  \E k \in DOMAIN db.cohorts :
           /\ SelectedIn(db, k, r) /\ r \in db.cohorts[k].members
           /\ 1 \in DOMAIN db.cohorts[k].sels
<1>1. PICK k \in DOMAIN db.cohorts : SelectedIn(db, k, r)
  BY DEF IInv, Sound, DecisionInv, AdmittedIsSelected
<1>2. /\ db.cohorts[k].sels # << >> /\ r \in db.cohorts[k].sels[1].ids
      /\ db.cohorts[k].sels[1].ids \subseteq db.cohorts[k].members
      /\ Len(db.cohorts[k].sels) = 1
  BY <1>1 DEF SelectedIn, IInv, Sound, DecisionInv, SelectionsEnd
<1>3. db.cohorts[k].sels \in Seq(Selection)
  BY MembersAreRecs, CohortFields DEF IInv, Sound
<1> QED  BY <1>1, <1>2, <1>3

LEMMA FactsMatch ==
  ASSUME IInv
  PROVE  FactsMatchLifecycle
<1> SUFFICES ASSUME NEW r \in Recs
             PROVE  /\ Current(db, r) \in {"admitted_awaiting_entry", "entered"} =>
                         /\ db.adm[r] = "admitted"
                         /\ \E k \in DOMAIN db.cohorts :
                              \E n \in DOMAIN db.cohorts[k].sels :
                                r \in db.cohorts[k].sels[n].ids
                    /\ Current(db, r) = "entered" =>
                         entryAt[r] # 0 /\ result[r].outcome = "none"
                    /\ Current(db, r) = "admitted_awaiting_entry" => entryAt[r] = 0
                    /\ entryAt[r] # 0 => \E k \in DOMAIN db.chain[r] :
                                           db.chain[r][k].state = "entered"
                    /\ result[r].outcome # "none" =>
                         Current(db, r) = OutcomeState[result[r].outcome]
  BY DEF FactsMatchLifecycle
<1>1. Current(db, r) = Cur(db, r) /\ db.chain[r] \in Seq(Event)
  BY CurrentIsCur DEF LegalChain
<1>2. FactsOf(db, r, entryAt, result)
  BY DEF IInv, Sound, FactsInv
<1>3. ASSUME Cur(db, r) \in {"admitted_awaiting_entry", "entered"}
      PROVE  /\ db.adm[r] = "admitted"
             /\ \E k \in DOMAIN db.cohorts :
                  \E n \in DOMAIN db.cohorts[k].sels : r \in db.cohorts[k].sels[n].ids
  <2>1. db.adm[r] = "admitted"
    BY <1>3 DEF IInv, Sound, DecisionInv, AdmittedIsSelected
  <2>2. PICK k \in DOMAIN db.cohorts :
          SelectedIn(db, k, r) /\ 1 \in DOMAIN db.cohorts[k].sels
    BY <2>1, SelectedIsFirst
  <2> QED  BY <2>1, <2>2 DEF SelectedIn
<1>4. entryAt[r] # 0 => \E k \in DOMAIN db.chain[r] : db.chain[r][k].state = "entered"
  BY <1>1, <1>2 DEF FactsOf, Has
<1> QED  BY <1>1, <1>2, <1>3, <1>4 DEF FactsOf

LEMMA SelectionsSettle ==
  ASSUME IInv
  PROVE  SelectionSettlesCohort
<1> SUFFICES ASSUME NEW k \in DOMAIN db.cohorts, db.cohorts[k].sels # << >>
             PROVE  /\ Len(db.cohorts[k].sels) = 1 /\ Closed(db.cohorts[k])
                    /\ \A r \in db.cohorts[k].members :
                         /\ (r \in db.cohorts[k].sels[1].ids) = (db.adm[r] = "admitted")
                         /\ Current(db, r) # "awaiting_owner_decision"
  BY DEF SelectionSettlesCohort
<1>1. /\ Len(db.cohorts[k].sels) = 1 /\ Closed(db.cohorts[k])
      /\ \A r \in db.cohorts[k].members : Cur(db, r) # "awaiting_owner_decision"
  BY DEF IInv, Sound, DecisionInv, SelectionsEnd
<1>2. ASSUME NEW r \in db.cohorts[k].members
      PROVE  /\ (r \in db.cohorts[k].sels[1].ids) <=> (db.adm[r] = "admitted")
             /\ Current(db, r) # "awaiting_owner_decision"
  <2>1. r \in Recs
    BY MembersAreRecs DEF IInv, Sound
  <2>2. r \in db.cohorts[k].sels[1].ids => db.adm[r] = "admitted"
    BY <2>1 DEF SelectedIn, IInv, Sound, DecisionInv, AdmittedIsSelected
  <2>3. ASSUME db.adm[r] = "admitted" PROVE r \in db.cohorts[k].sels[1].ids
    <3>1. PICK n \in DOMAIN db.cohorts :
            SelectedIn(db, n, r) /\ r \in db.cohorts[n].members
      BY <2>1, <2>3, SelectedIsFirst
    <3>2. n = k
      BY <2>1, <3>1 DEF IInv, Sound, DecisionInv, MembersApart
    <3> QED  BY <3>1, <3>2 DEF SelectedIn
  <2>4. Current(db, r) = Cur(db, r)
    BY <2>1, CurrentIsCur
  <2> QED  BY <1>1, <2>2, <2>3, <2>4
<1> QED  BY <1>1, <1>2

LEMMA OpenDecisionsApart ==
  ASSUME IInv
  PROVE  SupersededCohortsAreClosed /\ OneOpenDecisionPerTarget
<1>1. SupersededCohortsAreClosed
  BY DEF SupersededCohortsAreClosed, IInv, Sound, DecisionInv, LaterCloses
<1>2. OneOpenDecisionPerTarget
  <2> DEFINE open == UNION {db.cohorts[k].members :
                              k \in {n \in DOMAIN db.cohorts : ~Closed(db.cohorts[n])}}
  <2>1. ASSUME NEW r \in open, NEW q \in open, target[r] = target[q]
        PROVE  r = q
    <3>1. PICK j \in DOMAIN db.cohorts : ~Closed(db.cohorts[j]) /\ r \in db.cohorts[j].members
      OBVIOUS
    <3>2. PICK k \in DOMAIN db.cohorts : ~Closed(db.cohorts[k]) /\ q \in db.cohorts[k].members
      OBVIOUS
    <3> QED  BY <2>1, <3>1, <3>2 DEF IInv, Sound, DecisionInv, OpenTargetsApart
  <2> QED  BY <2>1, Zenon DEF OneOpenDecisionPerTarget
<1> QED  BY <1>1, <1>2

(* DecisionsAreConsistent: whatever batches, the owner, paper trading and     *)
(* reconciliations with stale cutoffs do, chains are legal, the paper facts   *)
(* match them, a selection settles its cohort and open cohorts do not compete.*)
THEOREM DecisionsStayConsistent == Spec => []DecisionsAreConsistent
<1>1. IInv => ChainsAreLegal /\ FactsMatchLifecycle /\ SelectionSettlesCohort
              /\ SupersededCohortsAreClosed /\ OneOpenDecisionPerTarget
  BY LegalChainsAreLegal, FactsMatch, SelectionsSettle, OpenDecisionsApart
<1>2. IInv /\ TypeOK => DecisionsAreConsistent
  BY <1>1 DEF DecisionsAreConsistent
<1> QED  BY <1>2, PortfolioInvariantHolds, PortfolioTypeCorrect, PTL

(* The recommendations that carry risk in one direction of a currency are     *)
(* those with that leg.                                                       *)
LEMMA DirectionFits ==
  ASSUME IInv, NEW currency, NEW long \in BOOLEAN
  PROVE  DirectionRisk(currency, long) <= DirectionCap
<1> DEFINE L == Active(db)
           leg == <<currency, IF long THEN 1 ELSE -1>>
           X == {r \in L : \/ currency = Base[inst[r]] /\ long = (Action[r] = "buy")
                           \/ currency = Quote[inst[r]] /\ long = (Action[r] = "sell")}
           Y == {r \in L : leg \in Legs(r)}
<1>1. L = LiveOf(db) /\ Fits(L)
  <2>1. L = LiveOf(db)
    BY ActiveIsLive DEF IInv, Sound
  <2> QED  BY <2>1 DEF IInv, Sound
<1>2. ASSUME NEW r \in L PROVE Action[r] \in {"buy", "sell"}
  <2>1. r \in Recs /\ Cur(db, r) \in {"admitted_awaiting_entry", "entered"}
    BY <1>1 DEF LiveOf
  <2>2. Action[r] # "abstain"
    <3>1. LegalChain(db.chain[r], r, genAt[r], now)
      BY <2>1, CurrentIsCur
    <3> QED  BY <2>1, <3>1, AbstainedStays DEF Cur
  <2> QED  BY <2>1, <2>2, ConstantsAssumption DEF Recs
<1>3. ASSUME NEW r \in L
      PROVE  leg \in Legs(r) <=>
               \/ currency = Base[inst[r]] /\ long = (Action[r] = "buy")
               \/ currency = Quote[inst[r]] /\ long = (Action[r] = "sell")
  <2> DEFINE b == Base[inst[r]]
             q == Quote[inst[r]]
  <2>1. Legs(r) = IF Action[r] = "buy" THEN {<<b, 1>>, <<q, -1>>}
                                      ELSE {<<b, -1>>, <<q, 1>>}
    BY DEF Legs
  <2> HIDE DEF b, q
  <2>2. CASE long = TRUE
    <3>1. leg = <<currency, 1>>
      BY <2>2
    <3>2. leg \in Legs(r) <=> currency = IF Action[r] = "buy" THEN b ELSE q
      BY <2>1, <3>1
    <3>3. CASE Action[r] = "buy"
      BY <2>2, <3>2, <3>3 DEF b, q
    <3>4. CASE Action[r] = "sell"
      BY <2>2, <3>2, <3>4 DEF b, q
    <3> QED  BY <1>2, <3>3, <3>4
  <2>3. CASE long = FALSE
    <3>1. leg = <<currency, -1>>
      BY <2>3
    <3>2. leg \in Legs(r) <=> currency = IF Action[r] = "buy" THEN q ELSE b
      BY <2>1, <3>1
    <3>3. CASE Action[r] = "buy"
      BY <2>3, <3>2, <3>3 DEF b, q
    <3>4. CASE Action[r] = "sell"
      BY <2>3, <3>2, <3>4 DEF b, q
    <3> QED  BY <1>2, <3>3, <3>4
  <2> QED  BY <2>2, <2>3
<1>4. DirectionRisk(currency, long) = TotalRisk(X)
  BY DEF DirectionRisk
<1> HIDE DEF L, leg
<1>5. X = Y
  BY <1>3
<1>6. CASE \E r \in L : leg \in Legs(r)
  <2>1. leg \in UNION {Legs(r) : r \in L}
    BY <1>6
  <2>2. TotalRisk(Y) <= DirectionCap
    BY <1>1, <2>1 DEF Fits
  <2> QED  BY <1>4, <1>5, <2>2
<1>7. CASE ~ \E r \in L : leg \in Legs(r)
  <2>1. Y = {}
    BY <1>7
  <2>2. TotalRisk({}) <= DirectionCap
    <3>1. RiskUnits({}) = {}
      BY DEF RiskUnits
    <3>2. TotalRisk({}) = 0
      BY <3>1, FS_EmptySet DEF TotalRisk
    <3> QED  BY <3>2, ConstantsAssumption
  <2> QED  BY <1>4, <1>5, <2>1, <2>2
<1> QED  BY <1>6, <1>7

(* ActiveRiskWithinCaps: what is admitted and live stays within the aggregate *)
(* cap and the cap of every currency and direction, for any risks and caps.   *)
THEOREM ActiveRiskStaysWithinCaps == Spec => []ActiveRiskWithinCaps
<1>1. ASSUME IInv PROVE ActiveRiskWithinCaps
  <2>1. TotalRisk(Active(db)) <= AggregateCap
    <3>1. Active(db) = LiveOf(db)
      BY <1>1, ActiveIsLive DEF IInv, Sound
    <3> QED  BY <1>1, <3>1 DEF IInv, Sound, Fits
  <2> QED  BY <1>1, <2>1, DirectionFits DEF ActiveRiskWithinCaps
<1> QED  BY <1>1, PortfolioInvariantHolds, PTL

(* BackstopsNeverFire: a selection that passes the checks of                  *)
(* select_portfolio_cohort, and an assessment of a batch, are never aborted   *)
(* by the capacity or supersession triggers of the database.                  *)
THEOREM BackstopsStayIdle == Spec => []BackstopsNeverFire
<1>1. IInv => BackstopsNeverFire
  BY BackstopsHold
<1> QED  BY <1>1, PortfolioInvariantHolds, PTL

(* AssessmentEnds: once no recommendation of an instrument is within its 24   *)
(* hours, reconciling it is not refused and leaves none awaiting assessment.  *)
THEOREM AssessmentsEnd == Spec => []AssessmentEnds
<1>1. IInv => AssessmentEnds
  BY LateReconciliation DEF IInv
<1> QED  BY <1>1, PortfolioInvariantHolds, PTL

(* NoHindsightSelection: no selection is recorded after the deadline or after *)
(* a member's entry level was seen to be reached.                             *)
THEOREM SelectionsAreMadeInTime == Spec => NoHindsightSelection
<1>1. ASSUME IInv, [Next]_vars
      PROVE  \A k \in DOMAIN db'.cohorts :
               LET c == db'.cohorts[k]
               IN /\ c.sels # << >>
                  /\ k \in DOMAIN db.cohorts => c.sels # db.cohorts[k].sels
                  => now < c.deadline /\ \A r \in c.members : seenAt[r] = 0
  BY <1>1, NextKeeps DEF Follows
<1> QED  BY <1>1, PortfolioInvariantHolds, PTL DEF Spec, NoHindsightSelection
=============================================================================
