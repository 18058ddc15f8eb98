--------------------------- MODULE ForecastsProofs ---------------------------
(* Theorems about the forecast side, for any number of sessions, eras,        *)
(* recommendations and concurrent passes, and from every starting state that  *)
(* the program can have reached.                                              *)
EXTENDS Forecasts, FiniteSetTheorems, SequenceTheorems, WellFoundedInduction, TLAPS

-----------------------------------------------------------------------------
(* The latest of a set of sessions, calculations or eras.                     *)

\* Max as FiniteSetsExt defines it is in its set.
LEMMA MaxIsGreatest ==
  ASSUME NEW S, S \subseteq Nat, S # {}, NEW bound \in Nat, \A x \in S : x <= bound
  PROVE  Max(S) \in S /\ \A x \in S : x <= Max(S)
PROOF
<1> DEFINE R == {ss \in Nat \X Nat : ss[1] < ss[2]}
           T == {bound - x : x \in S}
<1>1. IsWellFoundedOn(R, Nat) /\ \A x, y \in Nat : y < x => <<y, x>> \in R
  BY NatLessThanWellFounded DEF OpToRel
<1>2. \A x \in S : bound - x \in Nat
  OBVIOUS
<1>2a. T \subseteq Nat /\ T # {}
  BY <1>2
<1> HIDE DEF R
<1>3. PICK m \in T : \A n \in T : ~(<<n, m>> \in R)
  <2> HIDE DEF T
  <2> QED  BY <1>1, <1>2a, WFMin
<1>4. PICK g \in S : m = bound - g
  OBVIOUS
<1>5. \A x \in S : g >= x
  <2> TAKE x \in S
  <2>1. bound - x \in T /\ bound - x \in Nat /\ m \in Nat
    BY <1>2a
  <2>2. ~(bound - x < m)
    BY <1>1, <1>3, <2>1
  <2> QED  BY <1>4, <2>1, <2>2
<1>6. Max(S) \in S /\ \A x \in S : Max(S) >= x
  BY <1>5 DEF Max
<1> QED  BY <1>6

LEMMA LastSession ==
  ASSUME NEW S, S \subseteq Days, S # {}
  PROVE  Max(S) \in S /\ \A d \in S : d <= Max(S)
<1>1. PICK last \in Days : Days \subseteq 1..last
  BY ForecastsAssumption
<1>2. S \subseteq Nat /\ last \in Nat /\ \A d \in S : d <= last
  BY <1>1
<1> QED  BY <1>2, MaxIsGreatest

LEMMA LastPosition ==
  ASSUME NEW T, NEW seq \in Seq(T), NEW S, S \subseteq DOMAIN seq, S # {}
  PROVE  Max(S) \in S /\ \A i \in S : i <= Max(S)
<1>1. S \subseteq Nat /\ Len(seq) \in Nat /\ \A i \in S : i <= Len(seq)
  OBVIOUS
<1> QED  BY <1>1, MaxIsGreatest

\* Sessions are numbered from 1 and completed in order.
LEMMA SessionTimes ==
  ASSUME NEW d \in Days
  PROVE  /\ d \in Nat \ {0} /\ Session \in Nat \ {0} /\ Horizon \in Nat \ {0}
         /\ Completion(d) \in Nat \ {0} /\ Maturity(d) \in Nat \ {0}
         /\ Endpoint(d) \in Nat \ {0} /\ Completion(Endpoint(d)) = Maturity(d)
         /\ phase3_endpoint(d) = Endpoint(d)
<1>1. d \in Nat \ {0} /\ Session \in Nat \ {0} /\ Horizon \in Nat \ {0}
  BY ForecastsAssumption
<1>2. \A m \in Nat \ {0} : m * Session \in Nat \ {0}
  BY <1>1
<1>3. d + Horizon \in Nat \ {0}
  BY <1>1
<1> QED  BY <1>1, <1>2, <1>3 DEF Completion, Maturity, Endpoint, phase3_endpoint

-----------------------------------------------------------------------------
(* Passes: a step that reads the time has read one.                           *)

Steps == {"store", "targets", "forecasts", "recommendations", "portfolio", "health", "check",
          "review", "reassess"}

Timed(p, time) ==
  /\ p = [todo |-> p.todo, at |-> p.at, failed |-> p.failed, era |-> p.era, read |-> p.read]
  /\ p.todo \in Seq(Steps) /\ p.at \in 0..time /\ p.era \in Nat
  /\ p.todo # <<>> /\ Head(p.todo) \notin Timeless => p.at # 0

Clocks == plan \in Plans /\ now \in Nat \ {0} /\ now <= plan.until
Passes == DOMAIN pass = Workers /\ \A w \in Workers : Timed(pass[w], now)

LEMMA ReadyIsTimed ==
  ASSUME now \in Nat \ {0}, NEW todo \in Seq(Steps), todo # <<>>, NEW bad
  PROVE  Timed(Ready(todo, bad), now) /\ Ready(todo, bad).read = NoRead
<1> DEFINE at == IF Head(todo) \in Timeless THEN None ELSE now
<1>1. Ready(todo, bad) = [todo |-> todo, at |-> at, failed |-> bad, era |-> None, read |-> NoRead]
  BY DEF Ready
<1>2. at \in 0..now /\ (Head(todo) \notin Timeless => at # 0)
  BY DEF None
<1> HIDE DEF at
<1> QED  BY <1>1, <1>2 DEF Timed, None

LEMMA NoPassIsTimed == ASSUME now \in Nat PROVE Timed(NoPass, now)
<1>1. <<>> \in Seq(Steps)
  OBVIOUS
<1> QED  BY <1>1 DEF Timed, NoPass, None

LEMMA AdvancedIsTimed ==
  ASSUME now \in Nat \ {0}, NEW w \in Workers, Timed(pass[w], now), pass[w].todo # <<>>, NEW bad
  PROVE  Timed(Advanced(w, bad), now)
<1>1. Tail(pass[w].todo) \in Seq(Steps)
  BY DEF Timed
<1>2. Advanced(w, bad) = NoPass
      \/ /\ Tail(pass[w].todo) # <<>>
         /\ Advanced(w, bad) = Ready(Tail(pass[w].todo), pass[w].failed \/ bad)
  BY DEF Advanced
<1> QED  BY <1>1, <1>2, ReadyIsTimed, NoPassIsTimed

\* The steps of every program.
LEMMA ProgramSteps ==
  ASSUME NEW name \in Programs
  PROVE  Program(name) \in Seq(Steps) /\ Program(name) # <<>>
<1>1. reconcile \in Seq(Steps) /\ reconcile # <<>>
  BY DEF reconcile, Steps
<1>2. resolve_forecasts \in Seq(Steps) /\ resolve_forecasts # <<>>
  BY DEF resolve_forecasts, Steps
<1>3. <<"portfolio", "review">> \in Seq(Steps)
  BY DEF Steps
<1>4. \A op \in Steps : <<op>> \in Seq(Steps) /\ <<op>> # <<>>
  OBVIOUS
<1>5. {"store", "health", "review", "reassess"} \subseteq Steps
  BY DEF Steps
<1> HIDE DEF Steps
<1> QED  BY <1>1, <1>2, <1>3, <1>4, <1>5 DEF Program, Programs, refresh_experiments, build_postmortems

LEMMA AfterStoreSteps == AfterStore \in Seq(Steps) /\ AfterStore # <<>>
<1>1. reconcile \in Seq(Steps) /\ <<>> \in Seq(Steps)
      /\ <<"forecasts", "recommendations", "portfolio", "review">> \in Seq(Steps)
  BY DEF reconcile, Steps
<1>2. \A s, t \in Seq(Steps) : t # <<>> => s \o t \in Seq(Steps) /\ s \o t # <<>>
  OBVIOUS
<1> QED  BY <1>1, <1>2 DEF AfterStore

-----------------------------------------------------------------------------
(* The newest evidence, and what resolving a target gives.                    *)

Market == SoundMarket(now, candles, tech)
TargetRows == \A t \in DOMAIN targets : SoundTarget(now, tech, t, targets[t])

\* The newest evidence of a time was stored by then and is complete.
LEMMA ContractFacts ==
  ASSUME Market, NEW at \in 0..now, Outcome_contract(at) # NoContract
  PROVE  LET t == Outcome_contract(at)
         IN /\ t \in Days \X (Nat \ {0}) /\ t[2] \in DOMAIN tech[t[1]]
            /\ candles[t[1]] \in 1..at /\ tech[t[1]][t[2]] \in 1..at
            /\ Completion(t[1]) <= candles[t[1]]
<1> DEFINE seen == {d \in Days : Stored(d) /\ Opens(d) < at /\ candles[d] <= at}
           d == Max(seen)
           known == {k \in DOMAIN tech[d] : tech[d][k] <= at}
           k == Max(known)
<1>1. seen # {} /\ known # {} /\ Outcome_contract(at) = <<d, k>>
  BY DEF Outcome_contract
<1>2. d \in seen
  BY <1>1, LastSession
<1>3. d \in Days /\ candles[d] # None /\ candles[d] <= at
  BY <1>2 DEF Stored
<1>4. tech[d] \in Seq(1..now) /\ candles[d] \in 0..now /\ Completion(d) <= candles[d]
  BY <1>3 DEF Market, SoundMarket
<1>5. k \in known
  <2> HIDE DEF d
  <2> QED  BY <1>1, <1>4, LastPosition
<1>6. k \in DOMAIN tech[d] /\ k \in Nat \ {0} /\ tech[d][k] \in 1..now /\ tech[d][k] <= at
  <2>1. k \in DOMAIN tech[d] /\ tech[d][k] <= at
    BY <1>5
  <2> HIDE DEF d, k
  <2>2. Len(tech[d]) \in Nat /\ DOMAIN tech[d] = 1..Len(tech[d])
    BY <1>4, LenProperties
  <2>3. tech[d][k] \in 1..now
    BY <1>4, <2>1, <2>2, ElementOfSeq
  <2> QED  BY <2>1, <2>2, <2>3
<1> HIDE DEF d, k
<1> QED  BY <1>1, <1>3, <1>4, <1>6 DEF None

\* A target's cutoff is the last of the times its evidence carries.
LEMMA CutoffFacts ==
  ASSUME Market, NEW at \in 0..now, Outcome_contract(at) # NoContract
  PROVE  LET t == Outcome_contract(at)
         IN /\ Cutoff(t) \in Nat /\ Cutoff(t) <= at /\ Completion(t[1]) <= Cutoff(t)
            /\ candles[t[1]] <= Cutoff(t) /\ tech[t[1]][t[2]] <= Cutoff(t)
<1> DEFINE t == Outcome_contract(at)
           S == {candles[t[1]], tech[t[1]][t[2]], Completion(t[1])}
<1>1. /\ t[1] \in Days /\ candles[t[1]] \in 1..at /\ tech[t[1]][t[2]] \in 1..at
      /\ Completion(t[1]) <= candles[t[1]]
  BY ContractFacts
<1>2. Completion(t[1]) \in Nat
  BY <1>1, SessionTimes
<1> HIDE DEF t
<1>3. S \subseteq Nat /\ S # {} /\ at \in Nat /\ \A x \in S : x <= at
  BY <1>1, <1>2
<1>4. Max(S) \in S /\ \A x \in S : x <= Max(S)
  BY <1>3, MaxIsGreatest
<1>5. Cutoff(t) = Max(S)
  BY DEF Cutoff
<1> QED  BY <1>3, <1>4, <1>5 DEF t

LEMMA ClassIsScored == \A x, y : classify_change(x, y) \in Scored
  BY DEF classify_change, Scored

\* A resolution as of a time is the stored one if that is no later, and
\* otherwise one of that time for a target that has matured.
NewResolution(t, at, r) ==
  /\ targets[t].res = NoRes /\ Maturity(t[1]) <= at /\ r.at = at
  /\ \/ /\ eligible_endpoint(t, at) /\ r.end = Endpoint(t[1])
        /\ r.outcome = classify_change(Price[r.end] - Price[t[1]], Bands[t[2]])
     \/ ~eligible_endpoint(t, at) /\ r.outcome = "missing" /\ r.end = None

LEMMA ResolvedFacts ==
  ASSUME Market, NEW t \in DOMAIN targets, SoundTarget(now, tech, t, targets[t]), NEW at \in 0..now
  PROVE  LET r == resolve_target(t, at)
         IN /\ r \in TargetResolution
            /\ r # NoRes => r.outcome # "none" /\ r.at <= at
            /\ r # NoRes => r = targets[t].res \/ NewResolution(t, at, r)
            /\ Maturity(t[1]) <= at /\ at = now => r # NoRes
<1> DEFINE e == Endpoint(t[1])
           c == classify_change(Price[e] - Price[t[1]], Bands[t[2]])
           scored == [outcome |-> c, at |-> at, end |-> e]
           missing == [outcome |-> "missing", at |-> at, end |-> None]
<1>1. t[1] \in Days /\ targets[t].res \in TargetResolution /\ NoRes \in TargetResolution
  BY DEF SoundTarget, TargetOccurrence, TargetResolution, NoRes, Scored, None
<1>2. targets[t].res # NoRes => targets[t].res.outcome # "none" /\ targets[t].res.at <= now
  BY DEF SoundTarget
<1>3. c \in Scored /\ at \in Nat /\ now \in Nat
  BY ClassIsScored DEF Market, SoundMarket
<1>4. Maturity(t[1]) \in Nat /\ e \in Nat \ {0}
  BY <1>1, SessionTimes
<1>5. eligible_endpoint(t, at) => e \in Days
  BY DEF eligible_endpoint, Stored
<1> HIDE DEF c, e
<1>6. eligible_endpoint(t, at) => scored \in TargetResolution /\ scored # NoRes /\ scored.outcome # "none"
  BY <1>3, <1>4, <1>5 DEF TargetResolution, NoRes, Scored, None
<1>7. missing \in TargetResolution /\ missing # NoRes
  BY <1>3 DEF TargetResolution, NoRes, Scored, None
<1>8. CASE targets[t].res # NoRes
  BY <1>1, <1>2, <1>3, <1>8 DEF resolve_target
<1>9. CASE targets[t].res = NoRes /\ ~(Maturity(t[1]) <= at)
  BY <1>1, <1>3, <1>4, <1>9 DEF resolve_target
<1>10. CASE targets[t].res = NoRes /\ Maturity(t[1]) <= at /\ eligible_endpoint(t, at)
  <2>1. resolve_target(t, at) = scored
    BY <1>3, <1>4, <1>10 DEF resolve_target, c, e
  <2>2. scored.outcome = c /\ scored.at = at /\ scored.end = e
    OBVIOUS
  <2>3. NewResolution(t, at, scored)
    BY <1>10, <2>2 DEF NewResolution, c, e
  <2> QED  BY <1>3, <1>6, <1>10, <2>1, <2>2, <2>3
<1>11. CASE targets[t].res = NoRes /\ Maturity(t[1]) <= at /\ ~eligible_endpoint(t, at)
  <2>1. resolve_target(t, at) = missing
    BY <1>3, <1>4, <1>11 DEF resolve_target
  <2>2. NewResolution(t, at, missing)
    BY <1>11 DEF NewResolution
  <2> QED  BY <1>3, <1>7, <1>11, <2>1, <2>2
<1> QED  BY <1>8, <1>9, <1>10, <1>11

\* What resolves a target is what the triggers and the model's own check
\* compute again.
LEMMA NoResolutionErrors ==
  ASSUME Market, NEW T, T \subseteq DOMAIN targets, NEW at \in 0..now,
         \A t \in T : SoundTarget(now, tech, t, targets[t])
  PROVE  ResolutionErrors(T, at) = {}
<1>1. SUFFICES ASSUME NEW t \in T, targets[t].res = NoRes, resolve_target(t, at) # NoRes
               PROVE  /\ phase3_resolution_insert(t, resolve_target(t, at)) = {}
                      /\ phase3_missing_observation(t, resolve_target(t, at)) = {}
                      /\ validate_resolution(t, resolve_target(t, at))
  BY DEF ResolutionErrors
<1> DEFINE r == resolve_target(t, at)
<1>2. SoundTarget(now, tech, t, targets[t]) /\ t \in DOMAIN targets
  OBVIOUS
<1>3. NewResolution(t, at, r)
  BY <1>1, <1>2, ResolvedFacts
<1>4. t[1] \in Days /\ targets[t].registered < Maturity(t[1]) /\ targets[t].registered \in Nat
  <2>1. t[1] \in Days /\ targets[t].registered \in Nat /\ targets[t].issued \in Nat
        /\ targets[t].registered <= targets[t].issued /\ targets[t].issued < Maturity(t[1])
    BY <1>2 DEF SoundTarget, TargetOccurrence
  <2> QED  BY <2>1, SessionTimes
<1>5. /\ Maturity(t[1]) = Completion(Endpoint(t[1])) /\ phase3_endpoint(t[1]) = Endpoint(t[1])
      /\ Maturity(t[1]) \in Nat
  BY <1>4, SessionTimes
<1> HIDE DEF r
<1>6. r.at = at /\ ~(r.at < targets[t].registered) /\ ~(r.at < Maturity(t[1])) /\ Maturity(t[1]) <= r.at
  BY <1>3, <1>4, <1>5 DEF NewResolution
<1>7. CASE eligible_endpoint(t, at)
  <2>1. r.outcome \in Scored /\ r.end = Endpoint(t[1]) /\ Stored(r.end) /\ candles[r.end] <= r.at
        /\ r.outcome = classify_change(Price[r.end] - Price[t[1]], Bands[t[2]])
    BY <1>3, <1>6, <1>7, ClassIsScored DEF NewResolution, eligible_endpoint
  <2>2. r.outcome # "missing" /\ r.at >= Maturity(t[1])
    BY <1>5, <1>6, <2>1 DEF Scored
  <2>3. phase3_resolution_insert(t, r) = {}
    BY <1>5, <1>6, <2>1, <2>2 DEF phase3_resolution_insert
  <2>4. phase3_missing_observation(t, r) = {}
    BY <2>2 DEF phase3_missing_observation
  <2>5. validate_resolution(t, r)
    BY <1>5, <2>1, <2>2 DEF validate_resolution
  <2> QED  BY <2>3, <2>4, <2>5 DEF r
<1>8. CASE ~eligible_endpoint(t, at)
  <2>1. r.outcome = "missing" /\ r.outcome \notin Scored /\ r.end = None
    BY <1>3, <1>8 DEF NewResolution, Scored
  <2>2. phase3_resolution_insert(t, r) = {}
    BY <1>5, <1>6, <2>1 DEF phase3_resolution_insert
  <2>3. phase3_missing_observation(t, r) = {}
    BY <1>5, <1>6, <1>8 DEF phase3_missing_observation, eligible_endpoint
  <2>4. validate_resolution(t, r)
    BY <1>6, <1>8, <2>1 DEF validate_resolution
  <2> QED  BY <2>2, <2>3, <2>4 DEF r
<1> QED  BY <1>7, <1>8

-----------------------------------------------------------------------------
(* What every step leaves of the rows it finds.                               *)

RecRows == \A r \in DOMAIN recs : SoundRecommendation(now, targets, eras, recs[r])
Generating == SoundGeneration(now, targets, eras, gen)

TimePasses == now \in Nat /\ now' \in Nat /\ now <= now'
TechGrows == \A d \in Days : DOMAIN tech[d] \subseteq DOMAIN tech'[d]
\* A target keeps when it was issued and, once set, its outcome and its
\* control's.
TargetKept(x, y) ==
  /\ y.issued = x.issued
  /\ x.res # NoRes => y.res = x.res
  /\ x.ctl # NoRes => y.ctl = x.ctl
TargetsKeep ==
  /\ DOMAIN targets \subseteq DOMAIN targets'
  /\ \A t \in DOMAIN targets : TargetKept(targets[t], targets'[t])
\* A target that a step resolves gets what its time finds stored.
Settles(t, y) ==
  y.res # NoRes => y.res = targets[t].res \/ NewResolution(t, y.res.at, y.res)
TargetsSettle ==
  \A t \in DOMAIN targets' :
    IF t \in DOMAIN targets THEN Settles(t, targets'[t]) ELSE targets'[t].res = NoRes
\* A recommendation keeps what it was issued with, its samples, its outcome
\* and its facts.
Adds(s, t) == t = s \/ \E x : x.at # 0 /\ t = Append(s, x)
Kept(x, y) ==
  /\ y.at = x.at /\ y.target = x.target /\ y.offer = x.offer /\ x.eras \subseteq y.eras
  /\ x.res # NoRes => y.res = x.res
  /\ Adds(x.facts, y.facts)
RecsKeep ==
  /\ DOMAIN recs \subseteq DOMAIN recs'
  /\ \A r \in DOMAIN recs : Kept(recs[r], recs'[r])
\* An era registered now starts no earlier.
ErasGrow ==
  /\ DOMAIN eras \subseteq DOMAIN eras'
  /\ \A e \in DOMAIN eras : eras'[e] = eras[e]
  /\ \A e \in (DOMAIN eras') \ DOMAIN eras : eras'[e].starts >= now

LEMMA EraFields ==
  ASSUME NEW es, SoundEras(es), NEW e \in DOMAIN es
  PROVE  /\ e \in Nat \ {0} /\ es[e].starts \in Nat
         /\ es[e].method \in ForecastMethodIdentity /\ es[e].kind \in {"champion", "challenger"}
         /\ SoundEra(es, e)
<1> DEFINE Row == [kind : {"champion", "challenger"}, method : ForecastMethodIdentity,
                   policy : {c.policy : c \in Configs}, starts : Nat,
                   supersedes : Nat, champion : Nat]
<1>1. es \in Seq(Row) /\ SoundEra(es, e)
  BY DEF SoundEras
<1>2. es[e] \in Row /\ e \in Nat \ {0}
  <2> HIDE DEF Row
  <2> QED  BY <1>1, ElementOfSeq, LenProperties
<1> QED  BY <1>1, <1>2

LEMMA UnchangedKeeps ==
  /\ UNCHANGED targets => TargetsKeep /\ TargetsSettle
  /\ UNCHANGED eras => ErasGrow
  /\ UNCHANGED tech => TechGrows
  /\ UNCHANGED recs => RecsKeep
  BY DEF TargetsKeep, TargetKept, TargetsSettle, Settles, ErasGrow, TechGrows, RecsKeep, Kept, Adds

LEMMA TargetStaysSound ==
  ASSUME TimePasses, TechGrows, NEW t, NEW x, SoundTarget(now, tech, t, x)
  PROVE  SoundTarget(now', tech', t, x)
<1>1. t[1] \in Days /\ t[2] \in DOMAIN tech'[t[1]]
  BY DEF SoundTarget, TechGrows
<1>2. x.issued \in Nat /\ x.issued <= now'
  BY DEF SoundTarget, TargetOccurrence, TimePasses
<1>3. x.res # NoRes => x.res.at <= now'
  <2>1. x.res.at \in Nat
    BY DEF SoundTarget, TargetOccurrence, TargetResolution
  <2> QED  BY <2>1 DEF SoundTarget, TimePasses
<1> QED  BY <1>1, <1>2, <1>3 DEF SoundTarget

LEMMA TargetRowsStay ==
  ASSUME TimePasses, TechGrows, TargetRows, UNCHANGED targets
  PROVE  TargetRows'
  BY TargetStaysSound DEF TargetRows

LEMMA ChampionStays ==
  ASSUME ErasGrow, NEW method, NEW at, ChampionIssued(eras, method, at)
  PROVE  ChampionIssued(eras', method, at)
  BY DEF ErasGrow, ChampionIssued

LEMMA EraStaysAround ==
  ASSUME TimePasses, ErasGrow, SoundEras(eras'), NEW e \in DOMAIN eras,
         NEW at \in 0..now, InEra(eras, e, at)
  PROVE  InEra(eras', e, at)
<1>1. eras'[e] = eras[e]
  BY DEF ErasGrow
<1>2. ASSUME NEW f \in DOMAIN eras', eras'[f].supersedes = e
      PROVE  at <= eras'[f].starts
  <2>1. CASE f \in DOMAIN eras
    BY <1>2, <2>1 DEF ErasGrow, InEra
  <2>2. CASE f \notin DOMAIN eras
    <3>1. eras'[f].starts >= now /\ eras'[f].starts \in Nat
      BY <2>2, EraFields DEF ErasGrow
    <3> QED  BY <3>1 DEF TimePasses
  <2> QED  BY <2>1, <2>2
<1> QED  BY <1>1, <1>2 DEF InEra

LEMMA RecommendationStaysSound ==
  ASSUME TimePasses, TargetsKeep, ErasGrow, SoundEras(eras'), NEW x,
         SoundRecommendation(now, targets, eras, x)
  PROVE  SoundRecommendation(now', targets', eras', x)
<1>1. x.at \in 1..now /\ x.target \in DOMAIN targets /\ x.eras \subseteq DOMAIN eras
  BY DEF SoundRecommendation
<1>2. x.at \in 1..now' /\ x.target \in DOMAIN targets' /\ x.eras \in SUBSET DOMAIN eras'
  BY <1>1 DEF TimePasses, TargetsKeep, ErasGrow
<1>3. x \in [at : 1..now', target : DOMAIN targets', offer : Offer, snapshot : Nat,
             method : ForecastMethodIdentity, eras : SUBSET DOMAIN eras',
             res : RecommendationResolution, facts : Seq(PaperFacts)]
  BY <1>2 DEF SoundRecommendation
<1>4. \A e \in x.eras : InEra(eras', e, x.at)
  <2> TAKE e \in x.eras
  <2>1. e \in DOMAIN eras /\ InEra(eras, e, x.at) /\ x.at \in 0..now
    BY <1>1 DEF SoundRecommendation
  <2> QED  BY <2>1, EraStaysAround
<1>5. ChampionIssued(eras', x.method, x.at)
  BY ChampionStays DEF SoundRecommendation
<1>6. targets'[x.target].issued <= x.at
  BY <1>1 DEF SoundRecommendation, TargetsKeep, TargetKept
<1>7. Agrees(x.res, targets'[x.target].res)
  BY <1>1 DEF SoundRecommendation, TargetsKeep, TargetKept, Agrees
<1> QED  BY <1>3, <1>4, <1>5, <1>6, <1>7 DEF SoundRecommendation

LEMMA RecRowsStay ==
  ASSUME TimePasses, TargetsKeep, ErasGrow, SoundEras(eras'), RecRows, UNCHANGED recs
  PROVE  RecRows'
  BY RecommendationStaysSound DEF RecRows

LEMMA GenerationStaysSound ==
  ASSUME TimePasses, TargetsKeep, ErasGrow, Generating, UNCHANGED gen
  PROVE  Generating'
<1>1. gen.at \in 0..now'
  BY DEF Generating, SoundGeneration, TimePasses
<1>2. gen.target \in (DOMAIN targets') \cup {NoContract}
  BY DEF Generating, SoundGeneration, TargetsKeep
<1>3. gen \in [pc : {"none", "check", "paid"}, at : 0..now', target : (DOMAIN targets') \cup {NoContract},
               method : ForecastMethodIdentity \cup {None}, snapshot : Nat]
  BY <1>1, <1>2 DEF Generating, SoundGeneration
<1>4. gen.pc = "paid" => gen.target \in DOMAIN targets' /\ targets'[gen.target].issued <= gen.at
  BY DEF Generating, SoundGeneration, TargetsKeep, TargetKept
<1>5. gen.pc = "paid" => ChampionIssued(eras', gen.method, gen.at)
  BY ChampionStays DEF Generating, SoundGeneration
<1> QED  BY <1>3, <1>4, <1>5 DEF Generating, SoundGeneration

-----------------------------------------------------------------------------
(* Rows that a step writes.                                                   *)

\* A row of a target whose outcomes alone have changed.
Resettled(t, y) ==
  LET x == targets[t]
  IN /\ y = [cutoff |-> x.cutoff, registered |-> x.registered, issued |-> x.issued,
             res |-> y.res, ctl |-> y.ctl, macro |-> y.macro]
     /\ {y.res, y.ctl, y.macro} \subseteq TargetResolution
     /\ y.res = x.res \/ x.res = NoRes
     /\ y.ctl = x.ctl \/ x.ctl = NoRes
     /\ Settles(t, y)
     /\ y.res # NoRes => y.res.outcome # "none" /\ y.res.at <= now
     /\ Agrees(y.ctl, y.res)
     /\ y.macro # NoRes => y.macro.end - t[1] >= MacroHorizon

LEMMA ResettledIsSound ==
  ASSUME NEW t \in DOMAIN targets, SoundTarget(now, tech, t, targets[t]), NEW y, Resettled(t, y)
  PROVE  SoundTarget(now, tech, t, y) /\ TargetKept(targets[t], y) /\ Settles(t, y)
<1> DEFINE x == targets[t]
<1>1. /\ y.cutoff = x.cutoff /\ y.registered = x.registered /\ y.issued = x.issued
      /\ {y.res, y.ctl, y.macro} \subseteq TargetResolution
  BY DEF Resettled
<1>2. x.cutoff \in Nat /\ x.registered \in Nat /\ x.issued \in Nat /\ x.cutoff <= x.issued
  BY DEF SoundTarget, TargetOccurrence
<1>3. y \in TargetOccurrence
  BY <1>1, <1>2 DEF Resettled, TargetOccurrence, ForecastResolution
<1>4. /\ y.res # NoRes => y.res.outcome # "none" /\ y.res.at <= now
      /\ Agrees(y.ctl, y.res)
      /\ y.macro # NoRes => y.macro.end - t[1] >= MacroHorizon
      /\ y.res = x.res \/ x.res = NoRes
      /\ y.ctl = x.ctl \/ x.ctl = NoRes
      /\ Settles(t, y)
  BY DEF Resettled
<1>5. SoundTarget(now, tech, t, y)
  BY <1>1, <1>3, <1>4 DEF SoundTarget, validate_target
<1> QED  BY <1>1, <1>4, <1>5 DEF TargetKept

\* The three outcomes of a row.
LEMMA TargetFields ==
  ASSUME NEW t, NEW x, SoundTarget(now, tech, t, x)
  PROVE  /\ x = [cutoff |-> x.cutoff, registered |-> x.registered, issued |-> x.issued,
                 res |-> x.res, ctl |-> x.ctl, macro |-> x.macro]
         /\ {x.res, x.ctl, x.macro} \subseteq TargetResolution
         /\ {x.cutoff, x.registered, x.issued} \subseteq Nat
         /\ t[1] \in Days /\ t[2] \in DOMAIN tech[t[1]]
  BY DEF SoundTarget, TargetOccurrence, ForecastResolution

LEMMA ResolutionFields ==
  ASSUME NEW r \in TargetResolution
  PROVE  /\ r = [outcome |-> r.outcome, at |-> r.at, end |-> r.end]
         /\ r.at \in Nat /\ r.end \in Days \cup {None} /\ r.outcome \in Scored \cup {"none", "missing"}
         /\ r.outcome \in Scored <=> r.end # None
  BY DEF TargetResolution

\* Resolving a row sets its outcome and nothing else.
LEMMA ResolvingResettles ==
  ASSUME Market, NEW t \in DOMAIN targets, SoundTarget(now, tech, t, targets[t]), NEW at \in 0..now,
         \/ targets[t].res = NoRes
         \/ resolve_target(t, at) # NoRes
  PROVE  Resettled(t, [targets[t] EXCEPT !.res = resolve_target(t, at)])
<1> DEFINE x == targets[t]
           r == resolve_target(t, at)
           y == [x EXCEPT !.res = r]
<1>1. /\ x = [cutoff |-> x.cutoff, registered |-> x.registered, issued |-> x.issued,
              res |-> x.res, ctl |-> x.ctl, macro |-> x.macro]
      /\ {x.res, x.ctl, x.macro} \subseteq TargetResolution
  BY TargetFields
<1>2. /\ r \in TargetResolution
      /\ r # NoRes => r.outcome # "none" /\ r.at <= at
      /\ r # NoRes => r = x.res \/ x.res = NoRes
  BY ResolvedFacts DEF NewResolution
<1>3. now \in Nat /\ Agrees(x.ctl, x.res) /\ (x.macro # NoRes => x.macro.end - t[1] >= MacroHorizon)
  BY DEF Market, SoundMarket, SoundTarget
<1> HIDE DEF x, r
<1>4. y = [cutoff |-> x.cutoff, registered |-> x.registered, issued |-> x.issued,
           res |-> r, ctl |-> x.ctl, macro |-> x.macro]
  BY <1>1
<1>5. r # NoRes => r.at <= now
  BY <1>2, <1>3 DEF TargetResolution
<1>6. Agrees(x.ctl, r)
  BY <1>2, <1>3 DEF Agrees, x, r
<1>7. r = x.res \/ x.res = NoRes
  BY <1>2 DEF x, r
<1>8. r # NoRes => r = targets[t].res \/ NewResolution(t, r.at, r)
  <2>1. r # NoRes => r = targets[t].res \/ NewResolution(t, at, r)
    BY ResolvedFacts DEF r
  <2> QED  BY <2>1 DEF NewResolution
<1> HIDE DEF y
<1>9. /\ y.res = r /\ y.ctl = x.ctl /\ y.macro = x.macro
      /\ y = [cutoff |-> x.cutoff, registered |-> x.registered, issued |-> x.issued,
              res |-> y.res, ctl |-> y.ctl, macro |-> y.macro]
  BY <1>4
<1>10. Settles(t, y)
  BY <1>8, <1>9 DEF Settles
<1>11. Resettled(t, y)
  BY <1>1, <1>2, <1>3, <1>5, <1>6, <1>7, <1>9, <1>10 DEF Resettled, x
<1> QED  BY <1>11 DEF x, r, y

-----------------------------------------------------------------------------
(* Targets: what a reconciliation settles and registers.                      *)

\* Nothing a pass inserts for a target is refused.
LEMMA NewTargetIsSound ==
  ASSUME Market, NEW at \in 0..now, ~TargetsRefused(at)
  PROVE  LET t == Outcome_contract(at)
         IN SoundTarget(now, tech, t, NewTarget(t, at)) /\ TargetErrors(t, at) = {}
<1> DEFINE t == Outcome_contract(at)
           new == NewTarget(t, at)
<1>1. t # NoContract /\ ~(at >= Maturity(t[1]))
  BY DEF TargetsRefused
<1>2. /\ t \in Days \X (Nat \ {0}) /\ t[2] \in DOMAIN tech[t[1]]
      /\ candles[t[1]] \in 1..at /\ tech[t[1]][t[2]] \in 1..at
  BY <1>1, ContractFacts
<1>3. /\ Cutoff(t) \in Nat /\ Cutoff(t) <= at /\ Completion(t[1]) <= Cutoff(t)
      /\ candles[t[1]] <= Cutoff(t) /\ tech[t[1]][t[2]] <= Cutoff(t)
  BY <1>1, CutoffFacts
<1> HIDE DEF t
<1>4. new = [cutoff |-> Cutoff(t), registered |-> at, issued |-> at,
             res |-> NoRes, ctl |-> NoRes, macro |-> NoRes]
  BY DEF NewTarget
<1>5. /\ Maturity(t[1]) \in Nat /\ Completion(t[1]) \in Nat /\ at \in Nat /\ now \in Nat
      /\ Completion(phase3_endpoint(t[1])) = Maturity(t[1])
  BY <1>2, SessionTimes DEF Market, SoundMarket
<1> HIDE DEF new
<1>6. new.cutoff = Cutoff(t) /\ new.registered = at /\ new.issued = at
      /\ new.res = NoRes /\ new.ctl = NoRes /\ new.macro = NoRes
  BY <1>4
<1>7. SoundTarget(now, tech, t, new)
  <2>1. NoRes \in TargetResolution
    BY DEF TargetResolution, NoRes, Scored, None
  <2>2. new \in TargetOccurrence
    BY <1>3, <1>4, <1>5, <2>1 DEF TargetOccurrence, ForecastResolution
  <2>3. validate_target(t, new)
    BY <1>3, <1>6 DEF validate_target
  <2> QED  BY <1>1, <1>2, <1>5, <1>6, <2>2, <2>3 DEF SoundTarget, Agrees
<1>8. /\ validate_target(t, new) /\ phase3_target_insert(t, new) = {}
      /\ phase3_control_evidence(t, new) = {}
  BY <1>2, <1>3, <1>5, <1>6 DEF validate_target, phase3_target_insert, phase3_control_evidence
<1>9. /\ phase3_prediction_insert("control", new.registered, new.issued) = {}
      /\ phase3_issuance_time(t, new.registered, new.issued) = {}
  BY <1>1, <1>5, <1>6 DEF phase3_prediction_insert, phase3_issuance_time
<1>10. TargetErrors(t, at) = {}
  BY <1>8, <1>9 DEF TargetErrors, new
<1> QED  BY <1>7, <1>10 DEF t, new

LEMMA ReconcilingIsSound ==
  ASSUME Market, TargetRows, raised = {}, NEW at \in 0..now, reconcile_targets(at),
         UNCHANGED <<now, market>>
  PROVE  TargetRows' /\ TargetsKeep /\ TargetsSettle /\ raised' = {}
<1> DEFINE t == Outcome_contract(at)
           bad == ResolutionErrors(DOMAIN targets, at)
                  \cup (IF TargetsRefused(at) THEN {} ELSE TargetErrors(t, at))
           open == {u \in DOMAIN targets : targets[u].res = NoRes}
           settled == [u \in DOMAIN targets |->
                         IF u \in open THEN [targets[u] EXCEPT !.res = resolve_target(u, at)]
                         ELSE targets[u]]
<1>1. ResolutionErrors(DOMAIN targets, at) = {}
  BY NoResolutionErrors DEF TargetRows
<1>2. bad = {}
  BY <1>1, NewTargetIsSound
<1>3. raised' = {}
  BY <1>2 DEF reconcile_targets
<1>4. UNCHANGED <<now, tech>>
  BY DEF market
<1>5. CASE TargetsRefused(at)
  <2>1. UNCHANGED targets
    BY <1>5 DEF reconcile_targets
  <2> QED  BY <1>3, <1>4, <2>1, UnchangedKeeps DEF TargetRows
<1>6. CASE ~TargetsRefused(at)
  <2>1. targets' = Inserted(settled, t, NewTarget(t, at))
    BY <1>2, <1>6 DEF reconcile_targets
  <2>2. SoundTarget(now, tech, t, NewTarget(t, at))
    BY <1>6, NewTargetIsSound
  <2>3. ASSUME NEW u \in DOMAIN targets
        PROVE  /\ SoundTarget(now, tech, u, settled[u])
               /\ TargetKept(targets[u], settled[u]) /\ Settles(u, settled[u])
    <3>1. SoundTarget(now, tech, u, targets[u])
      BY DEF TargetRows
    <3>2. CASE u \in open
      <4>1. Resettled(u, [targets[u] EXCEPT !.res = resolve_target(u, at)])
        BY <3>1, <3>2, ResolvingResettles
      <4>2. settled[u] = [targets[u] EXCEPT !.res = resolve_target(u, at)]
        BY <3>2
      <4> HIDE DEF settled
      <4> QED  BY <3>1, <4>1, <4>2, ResettledIsSound
    <3>3. CASE u \notin open
      BY <3>1, <3>3 DEF TargetKept, Settles
    <3> QED  BY <3>2, <3>3
  <2>4. DOMAIN settled = DOMAIN targets
    OBVIOUS
  <2> HIDE DEF settled, t
  <2>5. /\ DOMAIN targets' = DOMAIN targets \cup {t}
        /\ \A u \in DOMAIN targets : targets'[u] = settled[u]
        /\ t \notin DOMAIN targets => targets'[t] = NewTarget(t, at)
    BY <2>1, <2>4 DEF Inserted
  <2>6. TargetsKeep
    BY <2>3, <2>5 DEF TargetsKeep
  <2>6a. NewTarget(t, at).res = NoRes
    BY DEF NewTarget
  <2>6b. TargetsSettle
    BY <2>3, <2>5, <2>6a DEF TargetsSettle
  <2>7. ASSUME NEW u \in DOMAIN targets'
        PROVE  SoundTarget(now, tech, u, targets'[u])
    <3>1. CASE u \in DOMAIN targets
      BY <2>3, <2>5, <3>1
    <3>2. CASE u \notin DOMAIN targets
      BY <2>2, <2>5, <3>2
    <3> QED  BY <3>1, <3>2
  <2>8. TargetRows'
    BY <1>4, <2>7 DEF TargetRows
  <2> QED  BY <1>3, <2>6, <2>6b, <2>8
<1> QED  BY <1>5, <1>6

-----------------------------------------------------------------------------
(* Baselines without a shared outcome: scored by counting stored candles.     *)

LEMMA CountedCandles ==
  ASSUME NEW d \in Days, NEW horizon \in Nat, NthLater(d, horizon) # None
  PROVE  NthLater(d, horizon) \in Days /\ NthLater(d, horizon) - d >= horizon
<1> DEFINE later == {e \in Days : e > d /\ Stored(e)}
           nth == {e \in later : Cardinality({x \in later : x <= e}) = horizon}
           n == Max(nth)
<1>1. nth # {} /\ NthLater(d, horizon) = n
  BY DEF NthLater
<1>2. n \in nth
  BY <1>1, LastSession
<1>3. n \in Days /\ n > d /\ Cardinality({x \in later : x <= n}) = horizon
  BY <1>2
<1>4. d \in Nat /\ n \in Nat /\ Days \subseteq Nat
  BY <1>3, SessionTimes
<1> HIDE DEF n
<1>4a. \A x \in later : x \in Nat /\ x > d
  BY <1>4
<1> HIDE DEF later
<1>5. {x \in later : x <= n} \subseteq (d + 1)..n
  BY <1>4, <1>4a
<1>6. IsFiniteSet((d + 1)..n) /\ Cardinality((d + 1)..n) = n - d
  <2>1. d + 1 \in Int /\ n \in Int /\ ~(d + 1 > n) /\ n - (d + 1) + 1 = n - d
    BY <1>3, <1>4
  <2> QED  BY <2>1, FS_Interval
<1>7. Cardinality({x \in later : x <= n}) <= n - d
  BY <1>5, <1>6, FS_Subset
<1> QED  BY <1>1, <1>3, <1>4, <1>7

LEMMA BaselineResolved ==
  ASSUME now \in Nat, NEW d \in Days, NEW horizon \in Nat, NEW k, NEW res \in TargetResolution
  PROVE  LET r == resolve_forecast(d, horizon, k, res)
         IN r \in TargetResolution /\ (r = res \/ r.end - d >= horizon)
<1> DEFINE e == NthLater(d, horizon)
           c == classify_change(Price[e] - Price[d], Bands[k])
           r == [outcome |-> c, at |-> now, end |-> e]
<1>1. CASE res # NoRes \/ e = None
  BY <1>1 DEF resolve_forecast
<1>2. CASE res = NoRes /\ e # None
  <2>1. e \in Days /\ e - d >= horizon
    BY <1>2, CountedCandles
  <2>2. e # None /\ e \in Nat
    BY <2>1, SessionTimes DEF None
  <2>3. c \in Scored
    BY ClassIsScored
  <2>4. resolve_forecast(d, horizon, k, res) = r
    BY <1>2 DEF resolve_forecast
  <2> HIDE DEF e, c
  <2>5. r \in TargetResolution
    BY <2>1, <2>2, <2>3 DEF TargetResolution
  <2> QED  BY <2>1, <2>4, <2>5
<1> QED  BY <1>1, <1>2

-----------------------------------------------------------------------------
(* Settling predictions.                                                      *)

\* A derived outcome is the shared one, under the time it was derived.
LEMMA DerivedFacts ==
  ASSUME now \in Nat, NEW s \in TargetResolution, s # NoRes => s.at <= now
  PROVE  /\ derive_resolution(s) \in TargetResolution
         /\ s.outcome # "none" => derive_resolution(s) # NoRes /\ derive_resolution(s).at = now
         /\ s # NoRes => Agrees(derive_resolution(s), s) /\ phase3_derived_resolution(s, derive_resolution(s)) = {}
<1>1. derive_resolution(s) = [outcome |-> s.outcome, at |-> now, end |-> s.end]
  BY ResolutionFields DEF derive_resolution
<1>2. derive_resolution(s) \in TargetResolution
  BY <1>1, ResolutionFields DEF TargetResolution
<1>3. s.outcome # "none" => derive_resolution(s) # NoRes /\ derive_resolution(s).at = now
  BY <1>1 DEF NoRes
<1>4. ASSUME s # NoRes
      PROVE  Agrees(derive_resolution(s), s) /\ phase3_derived_resolution(s, derive_resolution(s)) = {}
  <2>1. s.at \in Nat /\ s.at <= now
    BY <1>4, ResolutionFields
  <2> QED  BY <1>1, <1>4, <2>1 DEF Agrees, phase3_derived_resolution
<1> QED  BY <1>2, <1>3, <1>4

\* A control that is due takes its target's outcome.
LEMMA SettlingResettles ==
  ASSUME Market, NEW t \in DOMAIN targets, SoundTarget(now, tech, t, targets[t]),
         NEW m \in TargetResolution, m # NoRes => m.end - t[1] >= MacroHorizon
  PROVE  LET x == [targets[t] EXCEPT !.macro = m]
             shared == resolve_target(t, now)
         IN /\ Resettled(t, x)
            /\ Due(t) /\ targets[t].ctl = NoRes =>
                 Resettled(t, [x EXCEPT !.res = shared, !.ctl = derive_resolution(shared)])
<1> DEFINE x == targets[t]
           shared == resolve_target(t, now)
           derived == derive_resolution(shared)
           y == [[x EXCEPT !.macro = m] EXCEPT !.res = shared, !.ctl = derived]
<1>1. /\ x = [cutoff |-> x.cutoff, registered |-> x.registered, issued |-> x.issued,
              res |-> x.res, ctl |-> x.ctl, macro |-> x.macro]
      /\ {x.res, x.ctl, x.macro} \subseteq TargetResolution
  BY TargetFields
<1>2. now \in Nat /\ Agrees(x.ctl, x.res) /\ (x.res # NoRes => x.res.outcome # "none" /\ x.res.at <= now)
  BY DEF Market, SoundMarket, SoundTarget
<1>3. /\ shared \in TargetResolution
      /\ shared # NoRes => shared.outcome # "none" /\ shared.at <= now
      /\ shared # NoRes => shared = x.res \/ x.res = NoRes
  BY <1>2, ResolvedFacts DEF NewResolution
<1>4. shared # NoRes => derived \in TargetResolution /\ Agrees(derived, shared)
  <2> HIDE DEF shared
  <2> QED  BY <1>2, <1>3, DerivedFacts
<1> HIDE DEF x, shared, derived
<1>5. [x EXCEPT !.macro = m] = [cutoff |-> x.cutoff, registered |-> x.registered, issued |-> x.issued,
                                res |-> x.res, ctl |-> x.ctl, macro |-> m]
  BY <1>1
<1>6. Resettled(t, [x EXCEPT !.macro = m])
  BY <1>1, <1>2, <1>5 DEF Resettled, Settles, x
<1>6a. shared # NoRes => shared = targets[t].res \/ NewResolution(t, shared.at, shared)
  <2>1. shared # NoRes => shared = targets[t].res \/ NewResolution(t, now, shared)
    BY <1>2, ResolvedFacts DEF shared
  <2> QED  BY <2>1 DEF NewResolution
<1>7. ASSUME shared # NoRes, x.ctl = NoRes
      PROVE  Resettled(t, y)
  <2>1. y = [cutoff |-> x.cutoff, registered |-> x.registered, issued |-> x.issued,
             res |-> shared, ctl |-> derived, macro |-> m]
    <3> DEFINE z == [x EXCEPT !.macro = m]
    <3>1. z = [cutoff |-> x.cutoff, registered |-> x.registered, issued |-> x.issued,
               res |-> x.res, ctl |-> x.ctl, macro |-> m]
      BY <1>5
    <3>2. y = [[z EXCEPT !.res = shared] EXCEPT !.ctl = derived]
      OBVIOUS
    <3> HIDE DEF z, y
    <3>3. [z EXCEPT !.res = shared] =
            [cutoff |-> x.cutoff, registered |-> x.registered, issued |-> x.issued,
             res |-> shared, ctl |-> x.ctl, macro |-> m]
      BY <3>1
    <3> QED  BY <3>2, <3>3
  <2> HIDE DEF y
  <2>2. /\ y.res = shared /\ y.ctl = derived /\ y.macro = m
        /\ y = [cutoff |-> x.cutoff, registered |-> x.registered, issued |-> x.issued,
                res |-> y.res, ctl |-> y.ctl, macro |-> y.macro]
    BY <2>1
  <2>3. Settles(t, y)
    BY <1>6a, <2>2 DEF Settles
  <2> QED  BY <1>1, <1>2, <1>3, <1>4, <1>7, <2>2, <2>3 DEF Resettled, x
<1>8. Due(t) <=> shared # NoRes
  BY DEF Due, shared
<1> QED  BY <1>6, <1>7, <1>8 DEF x, shared, derived

LEMMA ForecastsAreSound ==
  ASSUME Market, TargetRows, raised = {}, resolve_due_forecasts, UNCHANGED <<now, market>>
  PROVE  TargetRows' /\ TargetsKeep /\ TargetsSettle /\ raised' = {}
<1> DEFINE due == {t \in DOMAIN targets : targets[t].ctl = NoRes /\ Due(t)}
           shared(t) == resolve_target(t, now)
           bad == ResolutionErrors(due, now)
                  \cup UNION {phase3_derived_resolution(shared(t), derive_resolution(shared(t))) : t \in due}
           x(t) == [targets[t] EXCEPT !.macro = resolve_forecast(t[1], MacroHorizon, t[2], @)]
<1>1. now \in Nat /\ now \in 0..now /\ MacroHorizon \in Nat
  BY ForecastsAssumption DEF Market, SoundMarket
<1>2. ASSUME NEW t \in DOMAIN targets
      PROVE  /\ SoundTarget(now, tech, t, targets[t])
             /\ shared(t) \in TargetResolution
             /\ shared(t) # NoRes => shared(t).outcome # "none" /\ shared(t).at <= now
  <2>1. SoundTarget(now, tech, t, targets[t])
    BY DEF TargetRows
  <2> QED  BY <1>1, <2>1, ResolvedFacts
<1>3. ResolutionErrors(due, now) = {}
  BY <1>1, <1>2, NoResolutionErrors
<1>4. ASSUME NEW t \in due
      PROVE  phase3_derived_resolution(shared(t), derive_resolution(shared(t))) = {}
  <2>1. shared(t) # NoRes /\ t \in DOMAIN targets
    BY DEF Due
  <2> HIDE DEF shared
  <2> QED  BY <1>1, <1>2, <2>1, DerivedFacts
<1>5. bad = {}
  <2> HIDE DEF due, shared
  <2> QED  BY <1>3, <1>4
<1>6. raised' = {}
  BY <1>5 DEF resolve_due_forecasts
<1>7. targets' = [t \in DOMAIN targets |->
                    IF t \in due /\ bad = {}
                    THEN [x(t) EXCEPT !.res = shared(t), !.ctl = derive_resolution(shared(t))]
                    ELSE x(t)]
  BY DEF resolve_due_forecasts
<1>8. ASSUME NEW t \in DOMAIN targets
      PROVE  /\ SoundTarget(now, tech, t, targets'[t])
             /\ TargetKept(targets[t], targets'[t]) /\ Settles(t, targets'[t])
  <2> DEFINE m == resolve_forecast(t[1], MacroHorizon, t[2], targets[t].macro)
  <2>1. /\ t[1] \in Days /\ targets[t].macro \in TargetResolution
        /\ (targets[t].macro # NoRes => targets[t].macro.end - t[1] >= MacroHorizon)
    BY <1>2, TargetFields DEF SoundTarget
  <2>2. m \in TargetResolution /\ (m # NoRes => m.end - t[1] >= MacroHorizon)
    BY <1>1, <2>1, BaselineResolved
  <2>3. x(t) = [targets[t] EXCEPT !.macro = m]
    OBVIOUS
  <2> HIDE DEF m, x
  <2>4. /\ Resettled(t, x(t))
        /\ Due(t) /\ targets[t].ctl = NoRes =>
             Resettled(t, [x(t) EXCEPT !.res = shared(t), !.ctl = derive_resolution(shared(t))])
    BY <1>2, <2>2, <2>3, SettlingResettles
  <2>5. Resettled(t, targets'[t])
    <3>1. t \in due => Due(t) /\ targets[t].ctl = NoRes
      OBVIOUS
    <3> HIDE DEF due, shared, bad
    <3> QED  BY <1>7, <2>4, <3>1
  <2> QED  BY <1>2, <2>5, ResettledIsSound
<1>9. DOMAIN targets' = DOMAIN targets
  BY <1>7
<1> QED  BY <1>6, <1>8, <1>9 DEF TargetRows, TargetsKeep, TargetsSettle, market

-----------------------------------------------------------------------------
(* Recommendations.                                                           *)

\* A row of a recommendation with another outcome, other samples or facts.
Rewritten(x, y) ==
  y = [at |-> x.at, target |-> x.target, offer |-> x.offer, snapshot |-> x.snapshot,
       method |-> x.method, eras |-> y.eras, res |-> y.res, facts |-> y.facts]

LEMMA RecommendationFields ==
  ASSUME NEW time, NEW rows, NEW es, NEW x, SoundRecommendation(time, rows, es, x)
  PROVE  /\ x = [at |-> x.at, target |-> x.target, offer |-> x.offer, snapshot |-> x.snapshot,
                 method |-> x.method, eras |-> x.eras, res |-> x.res, facts |-> x.facts]
         /\ x.at \in 1..time /\ x.target \in DOMAIN rows /\ x.eras \subseteq DOMAIN es
         /\ x.res \in TargetResolution /\ x.facts \in Seq(PaperFacts)
         /\ x.method \in ForecastMethodIdentity
  BY DEF SoundRecommendation, RecommendationResolution

LEMMA RewrittenIsSound ==
  ASSUME NEW time, NEW rows, NEW es, NEW x, SoundRecommendation(time, rows, es, x),
         NEW y, Rewritten(x, y), y.eras \subseteq DOMAIN es, \A e \in y.eras : InEra(es, e, x.at),
         y.res \in TargetResolution, Agrees(y.res, rows[x.target].res),
         y.res # NoRes => x.at <= y.res.at, y.facts \in Seq(PaperFacts)
  PROVE  SoundRecommendation(time, rows, es, y)
<1>1. y.at = x.at /\ y.target = x.target /\ y.method = x.method
  BY DEF Rewritten
<1>2. y \in [at : 1..time, target : DOMAIN rows, offer : Offer, snapshot : Nat,
             method : ForecastMethodIdentity, eras : SUBSET DOMAIN es,
             res : RecommendationResolution, facts : Seq(PaperFacts)]
  BY DEF SoundRecommendation, Rewritten, RecommendationResolution
<1>3. rows[x.target].issued <= x.at /\ ChampionIssued(es, x.method, x.at)
  BY DEF SoundRecommendation
<1> QED  BY <1>1, <1>2, <1>3 DEF SoundRecommendation

LEMMA RecommendationsAreSound ==
  ASSUME Market, TargetRows, RecRows, SoundEras(eras), raised = {}, resolve_due_recommendations,
         UNCHANGED <<now, market, eras>>
  PROVE  /\ TargetRows' /\ TargetsKeep /\ TargetsSettle /\ RecRows' /\ raised' = {}
         /\ DOMAIN recs' = DOMAIN recs /\ RecsKeep
         /\ \A r \in DOMAIN recs : /\ Rewritten(recs[r], recs'[r]) /\ recs'[r].eras = recs[r].eras
                                   /\ Maturity(recs[r].target[1]) <= now => recs'[r].res # NoRes
<1> DEFINE due == {r \in Open : Due(recs[r].target)}
           of == {recs[r].target : r \in due}
           shared(t) == resolve_target(t, now)
           bad == ResolutionErrors(of, now)
                  \cup UNION {phase3_derived_resolution(shared(t), derive_resolution(shared(t))) : t \in of}
<1>1. now \in Nat /\ now \in 0..now
  BY DEF Market, SoundMarket
<1>2. ASSUME NEW t \in DOMAIN targets
      PROVE  /\ SoundTarget(now, tech, t, targets[t])
             /\ shared(t) \in TargetResolution
             /\ shared(t) # NoRes => shared(t).outcome # "none" /\ shared(t).at <= now
             /\ shared(t) # NoRes => shared(t) = targets[t].res \/ targets[t].res = NoRes
             /\ Maturity(t[1]) <= now => shared(t) # NoRes
  <2>1. SoundTarget(now, tech, t, targets[t])
    BY DEF TargetRows
  <2> QED  BY <1>1, <2>1, ResolvedFacts DEF NewResolution
<1>3. ASSUME NEW r \in DOMAIN recs
      PROVE  SoundRecommendation(now, targets, eras, recs[r]) /\ recs[r].target \in DOMAIN targets
  BY RecommendationFields DEF RecRows
<1>4. of \subseteq DOMAIN targets
  BY <1>3 DEF Open
<1>5. \A t \in of : shared(t) # NoRes
  BY DEF Due
<1>6. ResolutionErrors(of, now) = {}
  <2> HIDE DEF of
  <2> QED  BY <1>1, <1>2, <1>4, NoResolutionErrors
<1>7. ASSUME NEW t \in of
      PROVE  phase3_derived_resolution(shared(t), derive_resolution(shared(t))) = {}
  <2>1. shared(t) # NoRes /\ t \in DOMAIN targets
    BY <1>4, <1>5
  <2> HIDE DEF shared, of
  <2> QED  BY <1>1, <1>2, <2>1, DerivedFacts
<1>8. bad = {}
  <2> HIDE DEF of, shared
  <2> QED  BY <1>6, <1>7
<1>9. /\ raised' = {}
      /\ targets' = [t \in DOMAIN targets |->
                       IF t \in of THEN [targets[t] EXCEPT !.res = shared(t)] ELSE targets[t]]
      /\ recs' = [r \in DOMAIN recs |->
                    IF r \in due THEN [recs[r] EXCEPT !.res = derive_resolution(shared(recs[r].target))]
                    ELSE recs[r]]
  BY <1>8 DEF resolve_due_recommendations
<1>10. ASSUME NEW t \in DOMAIN targets
       PROVE  /\ SoundTarget(now, tech, t, targets'[t])
              /\ TargetKept(targets[t], targets'[t]) /\ Settles(t, targets'[t])
              /\ t \in of => targets'[t].res = shared(t)
  <2>1. CASE t \in of
    <3> DEFINE y == [targets[t] EXCEPT !.res = resolve_target(t, now)]
    <3>1. Resettled(t, y)
      BY <1>1, <1>2, <1>5, <2>1, ResolvingResettles
    <3>2. targets'[t] = y /\ y.res = shared(t)
      BY <1>2, <1>9, <2>1, TargetFields
    <3> HIDE DEF y
    <3> QED  BY <1>2, <3>1, <3>2, ResettledIsSound
  <2>2. CASE t \notin of
    BY <1>2, <1>9, <2>2 DEF TargetKept, Settles
  <2> QED  BY <2>1, <2>2
<1>11. DOMAIN targets' = DOMAIN targets /\ DOMAIN recs' = DOMAIN recs
  BY <1>9
<1>12. TargetRows' /\ TargetsKeep /\ TargetsSettle
  <2> HIDE DEF of, shared
  <2> QED  BY <1>10, <1>11 DEF TargetRows, TargetsKeep, TargetsSettle, market
<1>13. ASSUME NEW r \in DOMAIN recs
       PROVE  /\ SoundRecommendation(now, targets', eras, recs'[r])
              /\ Rewritten(recs[r], recs'[r]) /\ recs'[r].eras = recs[r].eras
              /\ Kept(recs[r], recs'[r])
              /\ Maturity(recs[r].target[1]) <= now => recs'[r].res # NoRes
  <2> DEFINE x == recs[r]
             t == x.target
             y == [x EXCEPT !.res = derive_resolution(shared(t))]
  <2>1. TimePasses /\ ErasGrow
    BY <1>1, UnchangedKeeps DEF TimePasses
  <2>2. SoundRecommendation(now, targets', eras, x)
    BY <1>3, <1>12, <2>1, RecommendationStaysSound
  <2>3. /\ x = [at |-> x.at, target |-> x.target, offer |-> x.offer, snapshot |-> x.snapshot,
                method |-> x.method, eras |-> x.eras, res |-> x.res, facts |-> x.facts]
        /\ x.at \in 1..now /\ x.eras \subseteq DOMAIN eras /\ x.facts \in Seq(PaperFacts)
        /\ \A e \in x.eras : InEra(eras, e, x.at)
    BY <1>3, RecommendationFields DEF SoundRecommendation
  <2>4. t \in DOMAIN targets
    BY <1>3
  <2>5. CASE r \in due
    <3>1. t \in of /\ shared(t) # NoRes /\ recs'[r] = y /\ x.res = NoRes
      BY <1>5, <1>9, <2>5 DEF Open
    <3>2. targets'[t].res = shared(t)
      BY <1>10, <2>4, <3>1
    <3> DEFINE s == shared(t)
               d == derive_resolution(s)
    <3>3. /\ s \in TargetResolution /\ s.outcome # "none" /\ s.at <= now
      BY <1>2, <2>4, <3>1
    <3> HIDE DEF x, s
    <3>4. d \in TargetResolution /\ d # NoRes /\ d.at = now /\ Agrees(d, s)
      BY <1>1, <3>1, <3>3, DerivedFacts DEF s
    <3> HIDE DEF d
    <3>5. y = [at |-> x.at, target |-> x.target, offer |-> x.offer, snapshot |-> x.snapshot,
               method |-> x.method, eras |-> x.eras, res |-> d, facts |-> x.facts]
      BY <2>3 DEF d, s
    <3> HIDE DEF y
    <3>6. Rewritten(x, y) /\ y.eras = x.eras /\ y.res = d /\ y.facts = x.facts
      BY <3>5 DEF Rewritten
    <3>7. SoundRecommendation(now, targets', eras, y)
      BY <2>2, <2>3, <3>2, <3>4, <3>6, RewrittenIsSound DEF s
    <3>8. Kept(x, y)
      BY <3>1, <3>6 DEF Kept, Adds, Rewritten, x
    <3> QED  BY <3>1, <3>4, <3>6, <3>7, <3>8 DEF x
  <2>6. CASE r \notin due
    <3>1. recs'[r] = x
      BY <1>9, <2>6
    <3>2. Maturity(t[1]) <= now => x.res # NoRes
      BY <1>2, <2>4, <2>6 DEF Open, Due
    <3> HIDE DEF t
    <3>3. Rewritten(x, x)
      BY <2>3 DEF Rewritten
    <3>4. Kept(x, x)
      BY DEF Kept, Adds
    <3> QED  BY <2>2, <3>1, <3>2, <3>3, <3>4 DEF t
  <2> QED  BY <2>5, <2>6
<1>14. RecRows' /\ RecsKeep
  BY <1>11, <1>13 DEF RecRows, RecsKeep
<1> QED  BY <1>9, <1>11, <1>12, <1>13, <1>14

-----------------------------------------------------------------------------
(* Eras.                                                                      *)

EraRow == [kind : {"champion", "challenger"}, method : ForecastMethodIdentity,
           policy : {c.policy : c \in Configs}, starts : Nat, supersedes : Nat, champion : Nat]

LEMMA LatestChampionFacts ==
  ASSUME SoundEras(eras), LatestChampion # None
  PROVE  LatestChampion \in EraIds /\ eras[LatestChampion].kind = "champion"
<1> DEFINE C == {e \in EraIds : eras[e].kind = "champion"}
           L == {e \in C : \A f \in C : eras[f].starts <= eras[e].starts}
<1>1. L # {} /\ LatestChampion = Max(L)
  BY DEF LatestChampion
<1>2. eras \in Seq(EraRow) /\ L \subseteq DOMAIN eras
  BY DEF SoundEras, EraRow, EraIds
<1>3. Max(L) \in L
  <2> HIDE DEF L
  <2> QED  BY <1>1, <1>2, LastPosition
<1> QED  BY <1>1, <1>3

\* A registered era is a row of its own at the end, from now on.
LEMMA AppendedEra ==
  ASSUME SoundEras(eras), NEW row \in EraRow, row.starts >= now, eras' = Append(eras, row),
         row.kind = "challenger" <=> row.champion # None,
         row.champion # None => row.champion \in EraIds /\ eras[row.champion].kind = "champion",
         row.supersedes # None => row.supersedes \in EraIds /\ eras[row.supersedes].kind = row.kind
  PROVE  SoundEras(eras') /\ ErasGrow
<1>1. eras \in Seq(EraRow)
  BY DEF SoundEras, EraRow
<1>2. /\ eras' \in Seq(EraRow) /\ DOMAIN eras = 1..Len(eras) /\ Len(eras) \in Nat
      /\ DOMAIN eras' = 1..(Len(eras) + 1)
      /\ \A e \in DOMAIN eras : eras'[e] = eras[e]
      /\ eras'[Len(eras) + 1] = row
  <2> HIDE DEF EraRow
  <2> QED  BY <1>1
<1>3. /\ DOMAIN eras \subseteq DOMAIN eras'
      /\ \A e \in DOMAIN eras' : e \in DOMAIN eras \/ eras'[e] = row
  BY <1>2
<1>4. ErasGrow
  BY <1>2, <1>3 DEF ErasGrow
<1>5. ASSUME NEW e \in DOMAIN eras'
      PROVE  SoundEra(eras', e)
  <2>1. CASE e \in DOMAIN eras
    <3>1. SoundEra(eras, e)
      BY <2>1, EraFields
    <3> QED  BY <1>2, <1>3, <2>1, <3>1 DEF SoundEra
  <2>2. CASE eras'[e] = row
    BY <1>2, <1>3, <2>2 DEF SoundEra, EraIds
  <2> QED  BY <1>3, <2>1, <2>2
<1> QED  BY <1>2, <1>4, <1>5 DEF SoundEras, EraRow

LEMMA PlanIsSound == plan \in Plans => SoundPlan(plan)
  BY ForecastsAssumption

LEMMA RegisteringIsSound ==
  ASSUME SoundEras(eras), config \in Configs, plan \in Plans, now \in Nat, RegisterEra
  PROVE  SoundEras(eras') /\ ErasGrow
<1> DEFINE last == LatestChampion
<1>1. last # None => last \in EraIds /\ eras[last].kind = "champion" /\ last \in Nat
  BY LatestChampionFacts, EraFields DEF EraIds
<1>2. last \in Nat
  BY <1>1 DEF None
<1>3. \A c \in Configs : c.method \in ForecastMethodIdentity /\ c.policy \in {b.policy : b \in Configs}
  BY DEF ForecastMethodIdentity
<1> HIDE DEF last
<1>4. CASE \E starts \in {now, now + 1} : register_champion_era(starts)
  <2>1. PICK starts \in {now, now + 1} : register_champion_era(starts)
    BY <1>4
  <2> DEFINE row == [kind |-> "champion", method |-> config.method, policy |-> config.policy,
                     starts |-> starts, supersedes |-> last, champion |-> None]
  <2>2. eras' = Append(eras, row) /\ row.starts >= now
    BY <2>1 DEF register_champion_era, last
  <2>3. row \in EraRow
    BY <1>2, <1>3 DEF EraRow, None
  <2>4. row.kind = "champion" /\ row.champion = None /\ row.supersedes = last
    OBVIOUS
  <2> HIDE DEF row
  <2> QED  BY <1>1, <2>2, <2>3, <2>4, AppendedEra
<1>5. CASE \E c \in plan.configs : start_challenger_era(c.method)
  <2>1. PICK c \in plan.configs : start_challenger_era(c.method)
    BY <1>5
  <2>2. c \in Configs
    BY PlanIsSound DEF SoundPlan
  <2> DEFINE row == [kind |-> "challenger", method |-> c.method, policy |-> eras[last].policy,
                     starts |-> now, supersedes |-> None, champion |-> last]
  <2>3. eras' = Append(eras, row) /\ last # None
    BY <2>1 DEF start_challenger_era, last
  <2>4. eras[last].policy \in {b.policy : b \in Configs}
    <3>1. eras \in Seq(EraRow) /\ last \in DOMAIN eras
      BY <1>1, <2>3 DEF SoundEras, EraRow, EraIds
    <3>2. eras[last] \in EraRow
      <4> HIDE DEF EraRow
      <4> QED  BY <3>1
    <3> QED  BY <3>2 DEF EraRow
  <2>5. row \in EraRow
    BY <1>2, <1>3, <2>2, <2>4 DEF EraRow, None
  <2>6. row.kind = "challenger" /\ row.champion = last /\ row.supersedes = None /\ row.starts = now
    OBVIOUS
  <2>7. row.starts >= now
    BY <2>6
  <2> HIDE DEF row
  <2> QED  BY <1>1, <2>3, <2>5, <2>6, <2>7, AppendedEra
<1> QED  BY <1>4, <1>5 DEF RegisterEra

-----------------------------------------------------------------------------
(* Generation.                                                                *)

\* An era that takes a sample is open at the time of the sample.
LEMMA AssignedErasAreOpen ==
  ASSUME SoundEras(eras), NEW method, NEW at \in Nat
  PROVE  /\ assign_recommendation(method, at) \subseteq DOMAIN eras
         /\ \A e \in assign_recommendation(method, at) : InEra(eras, e, at) /\ ~Ended(e)
         /\ UNION {phase3_sample(e, at) : e \in assign_recommendation(method, at)} = {}
<1>1. ASSUME NEW e \in assign_recommendation(method, at)
      PROVE  e \in DOMAIN eras /\ InEra(eras, e, at) /\ eras[e].starts <= at /\ ~Ended(e)
  BY DEF assign_recommendation, InEra, Superseded, EraIds
<1>2. ASSUME NEW e \in assign_recommendation(method, at)
      PROVE  phase3_sample(e, at) = {}
  BY <1>1, EraFields DEF phase3_sample
<1> QED  BY <1>1, <1>2

\* A method that passed the check is the latest champion's.
LEMMA EnsuredChampion ==
  ASSUME SoundEras(eras), NEW at, ensure_champion_era(at) # None
  PROVE  ChampionIssued(eras, config.method, at)
<1>1. LatestChampion # None /\ Matches(LatestChampion) /\ eras[LatestChampion].starts <= at
  BY DEF ensure_champion_era
<1>2. LatestChampion \in DOMAIN eras /\ eras[LatestChampion].kind = "champion"
  BY <1>1, LatestChampionFacts DEF EraIds
<1> HIDE DEF LatestChampion
<1> QED  BY <1>1, <1>2 DEF ChampionIssued, Matches

LEMMA CheckedIsSound ==
  ASSUME Market, TargetRows, RecRows, SoundEras(eras), Generating, config \in Configs, plan \in Plans,
         NEW snapshot \in plan.snapshots, GenerateCheck(snapshot), UNCHANGED <<now, targets, eras>>
  PROVE  RecRows' /\ Generating' /\ DOMAIN recs' = DOMAIN recs /\ RecsKeep
<1> DEFINE t == exact_control(gen.at)
           era == ensure_champion_era(gen.at)
           same == Existing(t, snapshot)
           m == Max(same)
           again == assign_recommendation(config.method, recs[m].at)
<1>1. gen.pc = "check" /\ gen.at \in 0..now /\ gen.at # 0 /\ now \in Nat
  BY DEF GenerateCheck, Generating, SoundGeneration, Market, SoundMarket
<1>2. SoundGeneration(now, targets, eras, NoGen)
  <2>1. NoGen \in [pc : {"none", "check", "paid"}, at : 0..now, target : (DOMAIN targets) \cup {NoContract},
                   method : ForecastMethodIdentity \cup {None}, snapshot : Nat]
    BY <1>1 DEF NoGen, None
  <2> QED  BY <2>1 DEF SoundGeneration, NoGen
<1>3. CASE UNCHANGED recs /\ gen' = NoGen
  BY <1>2, <1>3, UnchangedKeeps DEF RecRows, Generating
<1>4. CASE /\ gen' = NoGen
           /\ recs' = [recs EXCEPT ![m].eras = @ \cup again]
  <2>1. DOMAIN recs' = DOMAIN recs
    BY <1>4
  <2>2. ASSUME NEW r \in DOMAIN recs
        PROVE  SoundRecommendation(now, targets, eras, recs'[r]) /\ Kept(recs[r], recs'[r])
    <3>1. SoundRecommendation(now, targets, eras, recs[r])
      BY DEF RecRows
    <3>2. CASE r = m
      <4> DEFINE x == recs[r]
                 y == [x EXCEPT !.eras = @ \cup again]
      <4>1. recs'[r] = y
        BY <1>4, <3>2
      <4>2. /\ x = [at |-> x.at, target |-> x.target, offer |-> x.offer, snapshot |-> x.snapshot,
                    method |-> x.method, eras |-> x.eras, res |-> x.res, facts |-> x.facts]
            /\ x.at \in 1..now /\ x.eras \subseteq DOMAIN eras /\ x.res \in TargetResolution
            /\ x.facts \in Seq(PaperFacts)
            /\ \A e \in x.eras : InEra(eras, e, x.at)
            /\ Agrees(x.res, targets[x.target].res) /\ (x.res # NoRes => x.at <= x.res.at)
        BY <3>1, RecommendationFields DEF SoundRecommendation
      <4>3. again \subseteq DOMAIN eras /\ \A e \in again : InEra(eras, e, x.at)
        <5>1. x.at \in Nat
          BY <4>2
        <5> HIDE DEF x
        <5>2. again = assign_recommendation(config.method, x.at)
          BY <3>2 DEF x
        <5> HIDE DEF again
        <5> QED  BY <5>1, <5>2, AssignedErasAreOpen
      <4>2a. x = [at |-> x.at, target |-> x.target, offer |-> x.offer, snapshot |-> x.snapshot,
                  method |-> x.method, eras |-> x.eras, res |-> x.res, facts |-> x.facts]
        BY <4>2
      <4> DEFINE more == x.eras \cup again
      <4> HIDE DEF x, again, m, more
      <4>4. [x EXCEPT !.eras = more] =
              [at |-> x.at, target |-> x.target, offer |-> x.offer, snapshot |-> x.snapshot,
               method |-> x.method, eras |-> more, res |-> x.res, facts |-> x.facts]
        BY <4>2a
      <4>4a. y = [x EXCEPT !.eras = more]
        BY DEF more
      <4> HIDE DEF y
      <4>5. Rewritten(x, y) /\ y.eras = more /\ y.res = x.res /\ y.facts = x.facts
        BY <4>4, <4>4a DEF Rewritten
      <4>6. SoundRecommendation(now, targets, eras, x)
        BY <3>1 DEF x
      <4>7. y.eras \subseteq DOMAIN eras /\ \A e \in y.eras : InEra(eras, e, x.at)
        BY <4>2, <4>3, <4>5 DEF more
      <4>8. Kept(x, y)
        BY <4>5 DEF Kept, Adds, Rewritten, more
      <4>9. recs'[r] = y /\ recs[r] = x
        BY <4>1 DEF x
      <4>10. SoundRecommendation(now, targets, eras, y)
        BY <4>2, <4>5, <4>6, <4>7, RewrittenIsSound
      <4> QED  BY <4>8, <4>9, <4>10
    <3>3. CASE r # m
      BY <1>4, <3>1, <3>3 DEF Kept, Adds
    <3> QED  BY <3>2, <3>3
  <2> QED  BY <1>2, <1>4, <2>1, <2>2 DEF RecRows, Generating, RecsKeep
<1>5. CASE /\ UNCHANGED recs /\ t # NoContract /\ era # None
           /\ gen' = [gen EXCEPT !.pc = "paid", !.target = t, !.method = config.method, !.snapshot = snapshot]
  <2>1. t \in DOMAIN targets /\ targets[t].issued <= gen.at /\ gen.at < Maturity(t[1])
    BY <1>5 DEF exact_control
  <2>2. ChampionIssued(eras, config.method, gen.at)
    BY <1>5, EnsuredChampion
  <2>3. config.method \in ForecastMethodIdentity /\ snapshot \in Nat
    BY PlanIsSound DEF ForecastMethodIdentity, SoundPlan
  <2> HIDE DEF t
  <2>4. gen' = [pc |-> "paid", at |-> gen.at, target |-> t, method |-> config.method, snapshot |-> snapshot]
    <3>1. gen = [pc |-> gen.pc, at |-> gen.at, target |-> gen.target, method |-> gen.method,
                 snapshot |-> gen.snapshot]
      BY DEF Generating, SoundGeneration
    <3> QED  BY <1>5, <3>1
  <2>5. SoundGeneration(now, targets, eras, gen')
    BY <1>1, <2>1, <2>2, <2>3, <2>4 DEF SoundGeneration
  <2> QED  BY <1>5, <2>5, UnchangedKeeps DEF RecRows, Generating
<1>6. \/ UNCHANGED recs /\ gen' = NoGen
      \/ gen' = NoGen /\ recs' = [recs EXCEPT ![m].eras = @ \cup again]
      \/ /\ UNCHANGED recs /\ t # NoContract /\ era # None
         /\ gen' = [gen EXCEPT !.pc = "paid", !.target = t, !.method = config.method, !.snapshot = snapshot]
  <2> HIDE DEF t, era, same
  <2> QED  BY DEF GenerateCheck, t, era, same
<1> QED
  <2> HIDE DEF t, era, same
  <2> QED  BY <1>3, <1>4, <1>5, <1>6

\* A recommendation is stored under the time at which its control was there
\* and its champion ran, and the triggers agree.
LEMMA StoredIsSound ==
  ASSUME Market, TargetRows, RecRows, SoundEras(eras), Generating, plan \in Plans, raised = {},
         NEW r, NEW o \in plan.offers, GenerateStore(r, o), UNCHANGED <<now, targets, eras>>
  PROVE  /\ RecRows' /\ Generating' /\ raised' = {} /\ gen' = NoGen /\ gen # NoGen /\ RecsKeep
         /\ r \notin DOMAIN recs /\ recs' = Inserted(recs, r, NewRecommendation(o))
         /\ SoundRecommendation(now, targets, eras, NewRecommendation(o))
<1> DEFINE t == targets[gen.target]
           new == NewRecommendation(o)
           bad == phase3_prediction_insert("recommendation", t.issued, gen.at)
                  \cup phase3_issuance_time(gen.target, t.registered, gen.at)
                  \cup UNION {phase3_sample(e, gen.at) : e \in assign_recommendation(gen.method, gen.at)}
           chosen == assign_recommendation(gen.method, gen.at)
<1>1. gen.pc = "paid" /\ r \notin DOMAIN recs /\ gen' = NoGen
  BY DEF GenerateStore
<1>2. /\ gen.at \in 1..now /\ now \in Nat /\ gen.target \in DOMAIN targets /\ gen.snapshot \in Nat
      /\ t.issued <= gen.at /\ gen.at < Maturity(gen.target[1])
      /\ ChampionIssued(eras, gen.method, gen.at) /\ gen.method \in ForecastMethodIdentity
  BY <1>1 DEF Generating, SoundGeneration, Market, SoundMarket
<1>3. SoundTarget(now, tech, gen.target, t)
  BY <1>2 DEF TargetRows
<1>4. {t.registered, t.issued} \subseteq Nat /\ t.registered <= t.issued /\ gen.target[1] \in Days
  BY <1>3, TargetFields DEF SoundTarget
<1>5. /\ Completion(phase3_endpoint(gen.target[1])) = Maturity(gen.target[1])
      /\ Maturity(gen.target[1]) \in Nat
  BY <1>4, SessionTimes
<1>6. /\ chosen \subseteq DOMAIN eras /\ \A e \in chosen : InEra(eras, e, gen.at)
      /\ UNION {phase3_sample(e, gen.at) : e \in chosen} = {}
  BY <1>2, AssignedErasAreOpen
<1> HIDE DEF t, chosen
<1>7. phase3_prediction_insert("recommendation", t.issued, gen.at) = {}
  BY <1>2 DEF phase3_prediction_insert
<1>8. phase3_issuance_time(gen.target, t.registered, gen.at) = {}
  BY <1>2, <1>4, <1>5 DEF phase3_issuance_time
<1>9. bad = {}
  BY <1>6, <1>7, <1>8 DEF chosen
<1>10. raised' = {} /\ recs' = Inserted(recs, r, new)
  BY <1>9 DEF GenerateStore, t
<1>11. o \in Offer
  BY PlanIsSound DEF SoundPlan
<1> DEFINE facts == IF o.action = "abstain" THEN <<[at |-> gen.at, kind |-> "abstained"]>> ELSE <<>>
<1>12. facts \in Seq(PaperFacts)
  <2>1. [at |-> gen.at, kind |-> "abstained"] \in PaperFacts
    BY <1>2 DEF PaperFacts
  <2> HIDE DEF PaperFacts
  <2> QED  BY <2>1
<1>13. new = [at |-> gen.at, target |-> gen.target, offer |-> o, snapshot |-> gen.snapshot,
              method |-> gen.method, eras |-> chosen, res |-> NoRes, facts |-> facts]
  BY DEF NewRecommendation, chosen
<1> HIDE DEF facts
<1>14. NoRes \in RecommendationResolution
  BY DEF RecommendationResolution, TargetResolution, NoRes, Scored, None
<1> HIDE DEF new
<1>15. new \in [at : 1..now, target : DOMAIN targets, offer : Offer, snapshot : Nat,
                method : ForecastMethodIdentity, eras : SUBSET DOMAIN eras,
                res : RecommendationResolution, facts : Seq(PaperFacts)]
  BY <1>2, <1>6, <1>11, <1>12, <1>13, <1>14
<1>16. new.at = gen.at /\ new.target = gen.target /\ new.method = gen.method /\ new.eras = chosen
       /\ new.res = NoRes
  BY <1>13
<1>17. SoundRecommendation(now, targets, eras, new)
  BY <1>2, <1>6, <1>15, <1>16 DEF SoundRecommendation, Agrees, t
<1>18. RecRows' /\ RecsKeep
  BY <1>10, <1>17 DEF RecRows, RecsKeep, Kept, Adds, Inserted
<1>19. Generating'
  <2>1. NoGen \in [pc : {"none", "check", "paid"}, at : 0..now, target : (DOMAIN targets) \cup {NoContract},
                   method : ForecastMethodIdentity \cup {None}, snapshot : Nat]
    BY <1>2 DEF NoGen, None
  <2> QED  BY <1>1, <2>1 DEF Generating, SoundGeneration, NoGen
<1> QED  BY <1>1, <1>10, <1>17, <1>18, <1>19 DEF NoGen, new

-----------------------------------------------------------------------------
(* Candles, facts and passes.                                                 *)

LEMMA StoringIsSound ==
  ASSUME Market, NEW B, B \subseteq Days, NEW at \in 0..now, store_ingestion(B, at), UNCHANGED now
  PROVE  Market' /\ TechGrows
<1> DEFINE m == Max({d \in Days : candles[d] # None} \cup B)
<1>1. /\ now \in Nat \ {0} /\ candles \in [Days -> 0..now] /\ tech \in [Days -> Seq(1..now)]
      /\ \A d \in Days : candles[d] # None => Completion(d) <= candles[d]
  BY DEF Market, SoundMarket
<1>2. /\ \A d \in B : candles[d] = None /\ Completion(d) <= at
      /\ candles' = [d \in Days |-> IF d \in B THEN at ELSE candles[d]]
      /\ tech' = IF B = {} THEN tech ELSE [tech EXCEPT ![m] = Append(@, at)]
  BY DEF store_ingestion
<1>3. candles' \in [Days -> 0..now] /\ \A d \in Days : candles'[d] # None => Completion(d) <= candles'[d]
  BY <1>1, <1>2
<1> HIDE DEF m
<1>4. CASE B = {}
  BY <1>1, <1>2, <1>3, <1>4 DEF Market, SoundMarket, TechGrows
<1>5. CASE B # {}
  <2>1. at \in 1..now
    <3>1. PICK d \in B : Completion(d) <= at
      BY <1>2, <1>5
    <3>2. Completion(d) \in Nat \ {0}
      BY SessionTimes
    <3> QED  BY <1>1, <3>1, <3>2
  <2>2. \A s \in Seq(1..now) : Append(s, at) \in Seq(1..now) /\ DOMAIN s \subseteq DOMAIN Append(s, at)
    BY <2>1
  <2>3. tech' \in [Days -> Seq(1..now)]
    BY <1>1, <1>2, <1>5, <2>2
  <2>4. TechGrows
    BY <1>1, <1>2, <1>5, <2>2 DEF TechGrows
  <2> QED  BY <1>1, <1>3, <2>3, <2>4 DEF Market, SoundMarket
<1> QED  BY <1>4, <1>5

\* A paper fact is added behind those a recommendation has.
LEMMA FactIsSound ==
  ASSUME RecRows, NEW r \in DOMAIN recs, NEW kind \in {"target_hit", "missing_data"}, NEW at \in Nat,
         PaperFact(r, kind, at), UNCHANGED <<now, targets, eras>>
  PROVE  /\ RecRows' /\ DOMAIN recs' = DOMAIN recs /\ RecsKeep
         /\ \A q \in DOMAIN recs : recs'[q].eras = recs[q].eras
<1> DEFINE x == recs[r]
           fact == [at |-> at, kind |-> IF x.facts = <<>> THEN kind ELSE "cost"]
           more == Append(x.facts, fact)
           y == [x EXCEPT !.facts = more]
<1>1. recs' = [recs EXCEPT ![r] = y]
  BY DEF PaperFact
<1>2. /\ x = [at |-> x.at, target |-> x.target, offer |-> x.offer, snapshot |-> x.snapshot,
              method |-> x.method, eras |-> x.eras, res |-> x.res, facts |-> x.facts]
      /\ x.facts \in Seq(PaperFacts) /\ x.eras \subseteq DOMAIN eras /\ x.res \in TargetResolution
  BY RecommendationFields DEF RecRows
<1>3. SoundRecommendation(now, targets, eras, x)
  BY DEF RecRows
<1>4. fact \in PaperFacts
  BY DEF PaperFacts
<1>4a. fact.at # 0
  <2>1. x.at \in 1..now
    BY <1>3 DEF SoundRecommendation
  <2>2. at >= x.at
    BY DEF PaperFact
  <2> HIDE DEF x
  <2> QED  BY <2>1, <2>2
<1> HIDE DEF fact
<1>5. more \in Seq(PaperFacts)
  <2> HIDE DEF PaperFacts, x
  <2> QED  BY <1>2, <1>4
<1>6. x = [at |-> x.at, target |-> x.target, offer |-> x.offer, snapshot |-> x.snapshot,
           method |-> x.method, eras |-> x.eras, res |-> x.res, facts |-> x.facts]
  BY <1>2
<1> HIDE DEF x, more
<1>7. y = [at |-> x.at, target |-> x.target, offer |-> x.offer, snapshot |-> x.snapshot,
           method |-> x.method, eras |-> x.eras, res |-> x.res, facts |-> more]
  BY <1>6
<1> HIDE DEF y
<1>8. Rewritten(x, y) /\ y.eras = x.eras /\ y.res = x.res /\ y.facts = more
  BY <1>7 DEF Rewritten
<1>9. /\ \A e \in x.eras : InEra(eras, e, x.at)
      /\ Agrees(x.res, targets[x.target].res) /\ (x.res # NoRes => x.at <= x.res.at)
  BY <1>3 DEF SoundRecommendation
<1>10. SoundRecommendation(now, targets, eras, y)
  BY <1>2, <1>3, <1>5, <1>8, <1>9, RewrittenIsSound
<1>11. Kept(x, y)
  BY <1>4a, <1>8 DEF Kept, Adds, Rewritten, more
<1>12. \A q \in DOMAIN recs : recs'[q] = IF q = r THEN y ELSE recs[q]
  BY <1>1
<1>13. \A z : Kept(z, z)
  BY DEF Kept, Adds
<1> QED  BY <1>1, <1>8, <1>10, <1>11, <1>12, <1>13 DEF RecRows, RecsKeep, x

LEMMA PassMoves ==
  ASSUME Clocks, Passes, NEW w \in Workers, NEW p, Timed(p, now),
         pass' = [pass EXCEPT ![w] = p], UNCHANGED now
  PROVE  Passes'
  BY DEF Passes

LEMMA AdvanceMoves ==
  ASSUME Clocks, Passes, NEW w \in Workers, NEW op, AtStep(w, op), NEW bad, Advance(w, bad), UNCHANGED now
  PROVE  Passes'
<1>1. Timed(pass[w], now) /\ pass[w].todo # <<>> /\ now \in Nat \ {0}
  BY DEF Passes, Clocks, AtStep
<1>2. Timed(Advanced(w, bad), now)
  BY <1>1, AdvancedIsTimed
<1> QED  BY <1>2, PassMoves DEF Advance

LEMMA StepPasses ==
  ASSUME Clocks, Passes, NEW w \in Workers, StartPass(w) \/ Dies(w) \/ Step(w)
  PROVE  Passes' /\ UNCHANGED <<now, plan>>
<1>1. now \in Nat \ {0} /\ Timed(pass[w], now) /\ Timed(NoPass, now)
  BY NoPassIsTimed DEF Clocks, Passes
<1>2. CASE StartPass(w)
  <2>1. PICK name \in plan.programs : pass' = [pass EXCEPT ![w] = Ready(Program(name), FALSE)]
    BY <1>2 DEF StartPass
  <2>2. name \in Programs
    BY PlanIsSound DEF SoundPlan, Clocks
  <2>3. Timed(Ready(Program(name), FALSE), now)
    BY <1>1, <2>2, ProgramSteps, ReadyIsTimed
  <2> QED  BY <1>2, <2>1, <2>3, PassMoves DEF StartPass
<1>3. CASE Dies(w)
  BY <1>1, <1>3, PassMoves DEF Dies
<1>4. CASE StoreStep(w)
  <2>1. Timed(Ready(AfterStore, FALSE), now)
    BY <1>1, AfterStoreSteps, ReadyIsTimed
  <2> QED  BY <1>4, <2>1, PassMoves DEF StoreStep
<1>5. CASE TargetsStep(w)
  BY <1>5, AdvanceMoves DEF TargetsStep
<1>6. CASE ForecastsStep(w)
  BY <1>6, AdvanceMoves DEF ForecastsStep
<1>7. CASE RecommendationsStep(w)
  BY <1>7, AdvanceMoves DEF RecommendationsStep
<1>8. CASE PortfolioStep(w)
  BY <1>8, AdvanceMoves DEF PortfolioStep
<1>9. CASE AssessRead(w)
  <2>1. PICK e \in EraIds : pass' = [pass EXCEPT ![w].era = @ + 1, ![w].read = Assessed(e, pass[w].at)]
    BY <1>9 DEF AssessRead
  <2> DEFINE p == pass[w]
             a == Assessed(e, p.at)
  <2>2. p = [todo |-> p.todo, at |-> p.at, failed |-> p.failed, era |-> p.era, read |-> p.read]
    BY <1>1 DEF Timed
  <2>3. pass' = [pass EXCEPT ![w] = [[p EXCEPT !.era = @ + 1] EXCEPT !.read = a]]
    BY <2>1
  <2> DEFINE q == [todo |-> p.todo, at |-> p.at, failed |-> p.failed, era |-> p.era + 1, read |-> a]
  <2>4. [[p EXCEPT !.era = @ + 1] EXCEPT !.read = a] = q
    <3> DEFINE s == [p EXCEPT !.era = @ + 1]
    <3> HIDE DEF p, a
    <3>1. s = [todo |-> p.todo, at |-> p.at, failed |-> p.failed, era |-> p.era + 1, read |-> p.read]
      BY <2>2
    <3> HIDE DEF s
    <3>2. [s EXCEPT !.read = a] = q
      BY <3>1
    <3> QED  BY <3>2 DEF s
  <2>5. Timed(q, now)
    <3> HIDE DEF a
    <3> QED  BY <1>1 DEF Timed
  <2> HIDE DEF a, q
  <2> QED  BY <1>9, <2>3, <2>4, <2>5, PassMoves DEF AssessRead
<1>10. CASE AssessStore(w)
  <2> DEFINE p == pass[w]
             q == [todo |-> p.todo, at |-> p.at, failed |-> p.failed, era |-> p.era, read |-> NoRead]
  <2>1. pass' = [pass EXCEPT ![w] = [p EXCEPT !.read = NoRead]]
    BY <1>10 DEF AssessStore
  <2>2. p = [todo |-> p.todo, at |-> p.at, failed |-> p.failed, era |-> p.era, read |-> p.read]
    BY <1>1 DEF Timed
  <2>3. [p EXCEPT !.read = NoRead] = q
    <3> HIDE DEF p
    <3> QED  BY <2>2
  <2>4. Timed(q, now)
    BY <1>1 DEF Timed
  <2> HIDE DEF q
  <2> QED  BY <1>10, <2>1, <2>3, <2>4, PassMoves DEF AssessStore
<1>11. CASE AssessDone(w)
  BY <1>11, AdvanceMoves DEF AssessDone
<1>12. CASE CheckStep(w)
  <2>1. Timed(Advanced(w, FALSE), now)
    BY <1>1, <1>12, AdvancedIsTimed DEF CheckStep, AtStep
  <2>2. pass' = [pass EXCEPT ![w] = IF pass[w].failed THEN NoPass ELSE Advanced(w, FALSE)]
    BY <1>12 DEF CheckStep
  <2> QED  BY <1>1, <1>12, <2>1, <2>2, PassMoves DEF CheckStep
<1>13. CASE ReviewStep(w)
  BY <1>13, AdvanceMoves DEF ReviewStep
<1>14. CASE ReassessStep(w)
  BY <1>14, AdvanceMoves DEF ReassessStep
<1>15. UNCHANGED <<now, plan>>
  BY DEF StartPass, Dies, Step, StoreStep, TargetsStep, ForecastsStep, RecommendationsStep, PortfolioStep,
         AssessRead, AssessStore, AssessDone, CheckStep, ReviewStep, ReassessStep
<1> QED  BY <1>2, <1>3, <1>4, <1>5, <1>6, <1>7, <1>8, <1>9, <1>10, <1>11, <1>12, <1>13, <1>14, <1>15
         DEF Step

-----------------------------------------------------------------------------
(* The core invariant: what is stored keeps fitting together, and no trigger  *)
(* ever refuses a row.                                                        *)

Core ==
  /\ Clocks /\ Passes /\ Market /\ TargetRows /\ SoundEras(eras) /\ RecRows /\ Generating
  /\ config \in Configs /\ raised = {}

LEMMA InitCore == Init => Core
<1> SUFFICES ASSUME Init PROVE Core
  OBVIOUS
<1>1. plan \in Plans /\ SoundPlan(plan) /\ SoundStart(plan.start)
  BY PlanIsSound DEF Init, SoundPlan
<1>2. /\ now = plan.start.now /\ candles = plan.start.candles /\ tech = plan.start.tech
      /\ targets = plan.start.targets /\ recs = plan.start.recs /\ raised = {}
      /\ config = plan.start.config /\ eras = plan.start.eras /\ gen = plan.start.gen
      /\ pass = [w \in Workers |-> NoPass]
  BY DEF Init
<1>3. Market /\ SoundEras(eras) /\ Generating /\ config \in Configs
  BY <1>1, <1>2 DEF SoundStart, Market, Generating
<1>4. TargetRows
  BY <1>1, <1>2 DEF SoundStart, TargetRows
<1>5. RecRows
  BY <1>1, <1>2 DEF SoundStart, RecRows
<1>6. now \in Nat \ {0}
  BY <1>3 DEF Market, SoundMarket
<1>7. Clocks
  BY <1>1, <1>2, <1>6 DEF Clocks, SoundPlan
<1>8. Passes
  BY <1>2, <1>6, NoPassIsTimed DEF Passes
<1> QED  BY <1>2, <1>3, <1>4, <1>5, <1>7, <1>8 DEF Core

\* A step that leaves the clock alone and the rows as they are.
LEMMA NothingMoves ==
  ASSUME Core, UNCHANGED <<now, market, targets, recs, raised, eras, gen, config, plan>>, Passes'
  PROVE  Core'
  BY DEF Core, Clocks, Market, market, TargetRows, RecRows, Generating

LEMMA CoreTimes ==
  ASSUME Core
  PROVE  now \in Nat \ {0} /\ now \in 0..now /\ \A w \in Workers : pass[w].at \in 0..now
  BY DEF Core, Clocks, Passes, Timed

\* The steps of a pass.
LEMMA StepCore ==
  ASSUME Core, NEW w \in Workers, StartPass(w) \/ Dies(w) \/ Step(w)
  PROVE  Core'
<1>1. Passes' /\ UNCHANGED <<now, plan>>
  BY StepPasses DEF Core
<1>2. /\ Clocks /\ Market /\ TargetRows /\ SoundEras(eras) /\ RecRows /\ Generating
      /\ config \in Configs /\ raised = {} /\ Clocks'
  BY <1>1 DEF Core, Clocks
<1>3. now \in Nat /\ now \in 0..now /\ pass[w].at \in 0..now /\ TimePasses
  BY <1>1, CoreTimes DEF TimePasses
<1>4. CASE StoreStep(w)
  <2>1. PICK B \in SUBSET {d \in plan.arrivals : candles[d] = None} : store_ingestion(B, pass[w].at)
    BY <1>4 DEF StoreStep
  <2>1a. B \subseteq Days
    BY <1>2, PlanIsSound DEF SoundPlan, Clocks
  <2>2. UNCHANGED <<targets, recs, raised, eras, gen, config>>
    BY <1>4 DEF StoreStep, experiments
  <2>3. Market' /\ TechGrows
    BY <1>1, <1>2, <1>3, <2>1, <2>1a, StoringIsSound
  <2>4. TargetRows'
    BY <1>2, <1>3, <2>2, <2>3, TargetRowsStay
  <2> QED  BY <1>1, <1>2, <2>2, <2>3, <2>4 DEF Core, RecRows, Generating
<1>5. CASE TargetsStep(w)
  <2>1. UNCHANGED <<market, recs, eras, gen, config>> /\ reconcile_targets(pass[w].at)
    BY <1>5 DEF TargetsStep, experiments
  <2>2. TargetRows' /\ TargetsKeep /\ raised' = {}
    BY <1>1, <1>2, <1>3, <2>1, ReconcilingIsSound
  <2>3. RecRows' /\ Generating'
    BY <1>2, <1>3, <2>1, <2>2, UnchangedKeeps, RecRowsStay, GenerationStaysSound
  <2> QED  BY <1>1, <1>2, <2>1, <2>2, <2>3 DEF Core, Market, market
<1>6. CASE ForecastsStep(w)
  <2>1. UNCHANGED <<market, recs, eras, gen, config>> /\ resolve_due_forecasts
    BY <1>6 DEF ForecastsStep, experiments
  <2>2. TargetRows' /\ TargetsKeep /\ raised' = {}
    BY <1>1, <1>2, <2>1, ForecastsAreSound
  <2>3. RecRows' /\ Generating'
    BY <1>2, <1>3, <2>1, <2>2, UnchangedKeeps, RecRowsStay, GenerationStaysSound
  <2> QED  BY <1>1, <1>2, <2>1, <2>2, <2>3 DEF Core, Market, market
<1>7. CASE RecommendationsStep(w)
  <2>1. UNCHANGED <<market, eras, gen, config>> /\ resolve_due_recommendations
    BY <1>7 DEF RecommendationsStep, experiments
  <2>2. TargetRows' /\ TargetsKeep /\ RecRows' /\ raised' = {}
    BY <1>1, <1>2, <2>1, RecommendationsAreSound
  <2>3. Generating'
    BY <1>2, <1>3, <2>1, <2>2, UnchangedKeeps, GenerationStaysSound
  <2> QED  BY <1>1, <1>2, <2>1, <2>2, <2>3 DEF Core, Market, market
<1>8. CASE PortfolioStep(w)
  <2>1. UNCHANGED <<market, targets, raised, eras, gen, config>>
    BY <1>8 DEF PortfolioStep, experiments
  <2>2. CASE UNCHANGED recs
    BY <1>1, <2>1, <2>2, NothingMoves
  <2>3. CASE \E r \in DOMAIN recs, kind \in plan.terminals : PaperFact(r, kind, pass[w].at)
    <3>1. PICK r \in DOMAIN recs, kind \in plan.terminals : PaperFact(r, kind, pass[w].at)
      BY <2>3
    <3>2. kind \in {"target_hit", "missing_data"} /\ pass[w].at \in Nat
      BY <1>2, <1>3, PlanIsSound DEF SoundPlan, Clocks
    <3>3. RecRows'
      BY <1>1, <1>2, <2>1, <3>1, <3>2, FactIsSound
    <3> QED  BY <1>1, <1>2, <2>1, <3>3 DEF Core, Market, market, TargetRows, Generating
  <2> QED  BY <1>8, <2>2, <2>3 DEF PortfolioStep
<1>9. CASE \/ StartPass(w) \/ Dies(w) \/ AssessRead(w) \/ AssessStore(w) \/ AssessDone(w)
           \/ CheckStep(w) \/ ReviewStep(w) \/ ReassessStep(w)
  <2>1. UNCHANGED <<market, targets, recs, raised, eras, gen, config>>
    BY <1>9 DEF StartPass, Dies, AssessRead, AssessStore, AssessDone, CheckStep, ReviewStep,
                ReassessStep, experiments
  <2> QED  BY <1>1, <2>1, NothingMoves
<1> QED  BY <1>4, <1>5, <1>6, <1>7, <1>8, <1>9 DEF Step

\* Starting a generation, and giving it up.
LEMMA GenerationStarts ==
  ASSUME Market, \/ GenerateStart \/ GenerateFails, UNCHANGED <<now, targets, eras>>
  PROVE  Generating'
<1>1. now \in Nat \ {0}
  BY DEF Market, SoundMarket
<1>2. CASE GenerateStart
  <2>1. gen' = [pc |-> "check", at |-> now, target |-> NoContract, method |-> None, snapshot |-> None]
    BY <1>2 DEF GenerateStart, NoGen
  <2> QED  BY <1>1, <2>1 DEF Generating, SoundGeneration, None
<1>3. CASE GenerateFails
  <2>1. gen' = NoGen
    BY <1>3 DEF GenerateFails
  <2>2. NoGen \in [pc : {"none", "check", "paid"}, at : 0..now, target : (DOMAIN targets) \cup {NoContract},
                   method : ForecastMethodIdentity \cup {None}, snapshot : Nat]
    BY <1>1 DEF NoGen, None
  <2>3. NoGen.pc = "none"
    BY DEF NoGen
  <2> QED  BY <2>1, <2>2, <2>3 DEF Generating, SoundGeneration
<1> QED  BY <1>2, <1>3

LEMMA GenerationCore ==
  ASSUME Core, generate_recommendation
  PROVE  Core'
<1>1. /\ UNCHANGED <<now, market, targets, plan, pass, config, eras>>
      /\ Market /\ TargetRows /\ SoundEras(eras) /\ RecRows /\ Generating
      /\ config \in Configs /\ raised = {} /\ plan \in Plans
  BY DEF generate_recommendation, Core, Clocks
<1>2. Clocks' /\ Passes' /\ Market' /\ TargetRows' /\ SoundEras(eras') /\ config' \in Configs
  BY <1>1 DEF Core, Clocks, Passes, Market, market, TargetRows
<1>3. CASE (GenerateStart \/ GenerateFails) /\ UNCHANGED <<recs, raised>>
  <2>1. Generating'
    BY <1>1, <1>3, GenerationStarts
  <2> QED  BY <1>1, <1>2, <1>3, <2>1 DEF Core, RecRows
<1>4. CASE (\E snapshot \in plan.snapshots : GenerateCheck(snapshot)) /\ UNCHANGED raised
  <2>1. RecRows' /\ Generating'
    BY <1>1, <1>4, CheckedIsSound
  <2> QED  BY <1>1, <1>2, <1>4, <2>1 DEF Core
<1>5. CASE \E o \in plan.offers : GenerateStore(Cardinality(DOMAIN recs) + 1, o)
  <2>1. RecRows' /\ Generating' /\ raised' = {}
    BY <1>1, <1>5, StoredIsSound
  <2> QED  BY <1>2, <2>1 DEF Core
<1> QED  BY <1>3, <1>4, <1>5 DEF generate_recommendation

LEMMA RegisterCore ==
  ASSUME Core, RegisterEra
  PROVE  Core'
<1>1. UNCHANGED <<now, market, targets, recs, raised, plan, pass, config, gen>>
  BY DEF RegisterEra
<1>2. now \in Nat /\ TimePasses
  BY <1>1, CoreTimes DEF TimePasses
<1>3. SoundEras(eras') /\ ErasGrow
  BY <1>2, RegisteringIsSound DEF Core, Clocks
<1>4. RecRows' /\ Generating'
  BY <1>1, <1>2, <1>3, UnchangedKeeps, RecRowsStay, GenerationStaysSound DEF Core
<1>5. Clocks' /\ Passes' /\ Market' /\ TargetRows' /\ config' \in Configs /\ raised' = {}
  BY <1>1 DEF Core, Clocks, Passes, Market, market, TargetRows
<1> QED  BY <1>3, <1>4, <1>5 DEF Core

LEMMA TickCore ==
  ASSUME Core, Tick
  PROVE  Core'
<1>1. UNCHANGED <<market, targets, recs, raised, eras, gen, config, plan, pass>> /\ now' = now + 1
      /\ now < plan.until
  BY DEF Tick, experiments
<1>2. now \in Nat \ {0} /\ TimePasses /\ now' \in Nat \ {0}
  BY <1>1, CoreTimes DEF TimePasses
<1>3. TechGrows /\ TargetsKeep /\ ErasGrow
  BY <1>1, UnchangedKeeps DEF market
<1>4. TargetRows' /\ RecRows' /\ Generating'
  BY <1>1, <1>2, <1>3, TargetRowsStay, RecRowsStay, GenerationStaysSound DEF Core
<1>5. Clocks'
  <2>1. plan.until \in Nat
    BY PlanIsSound DEF Core, Clocks, SoundPlan
  <2> QED  BY <1>1, <1>2, <2>1 DEF Core, Clocks
<1>6. Passes'
  <2>1. \A p : Timed(p, now) => Timed(p, now')
    BY <1>1, <1>2 DEF Timed
  <2> QED  BY <1>1, <2>1 DEF Core, Passes
<1>7. Market'
  <2>1. /\ candles \in [Days -> 0..now] /\ tech \in [Days -> Seq(1..now)]
        /\ \A d \in Days : candles[d] # None => Completion(d) <= candles[d]
    BY DEF Core, Market, SoundMarket
  <2>2. 0..now \subseteq 0..now' /\ 1..now \subseteq 1..now'
    BY <1>1, <1>2
  <2>3. Seq(1..now) \subseteq Seq(1..now')
    BY <2>2, SeqMonotonic
  <2>4. candles' \in [Days -> 0..now'] /\ tech' \in [Days -> Seq(1..now')]
    BY <1>1, <2>1, <2>2, <2>3 DEF market
  <2> QED  BY <1>1, <1>2, <2>1, <2>4 DEF Market, SoundMarket, market
<1> QED  BY <1>1, <1>4, <1>5, <1>6, <1>7 DEF Core

LEMMA NextCore == Core /\ [Next]_vars => Core'
<1> SUFFICES ASSUME Core, [Next]_vars PROVE Core'
  OBVIOUS
<1>1. CASE \E w \in Workers : StartPass(w) \/ Dies(w) \/ Step(w)
  BY <1>1, StepCore
<1>2. CASE generate_recommendation
  BY <1>2, GenerationCore
<1>3. CASE RegisterEra
  BY <1>3, RegisterCore
<1>4. CASE Tick
  BY <1>4, TickCore
<1>5. CASE Deploy
  <2>1. config' \in Configs
    BY <1>5, PlanIsSound DEF Deploy, Core, Clocks, SoundPlan
  <2>2. UNCHANGED <<now, market, targets, recs, raised, plan, pass, eras, gen>>
    BY <1>5 DEF Deploy
  <2> QED  BY <2>1, <2>2 DEF Core, Clocks, Passes, Market, market, TargetRows, RecRows, Generating
<1>6. CASE IssueBaselines \/ interpret_due_reviews \/ Authorize \/ Decide \/ UNCHANGED vars
  <2>1. UNCHANGED <<now, market, targets, recs, raised, eras, gen, config, plan, pass>>
    BY <1>6 DEF IssueBaselines, interpret_due_reviews, Authorize, Decide, vars, experiments
  <2>2. Passes'
    BY <2>1 DEF Core, Passes
  <2> QED  BY <2>1, <2>2, NothingMoves
<1> QED  BY <1>1, <1>2, <1>3, <1>4, <1>5, <1>6 DEF Next

LEMMA CoreHolds == Spec => []Core
  BY InitCore, NextCore, PTL DEF Spec

\* No trigger of the forecast tables ever refuses a row that a pass or a
\* generation writes: the endpoint, its eligibility, the control and the
\* outcome are the ones the services computed (migrations 0019 to 0022).
THEOREM TriggersNeverFire == Spec => []TriggersAgree
<1>1. Core => TriggersAgree
  BY DEF Core, TriggersAgree
<1> QED  BY <1>1, CoreHolds, PTL

\* A control and a recommendation never disagree with the outcome their
\* target shares (targets.derive_resolution).
THEOREM PredictionsShareOutcomes == Spec => []DerivedMatchesShared
<1>1. Core => DerivedMatchesShared
  BY DEF Core, DerivedMatchesShared, TargetRows, RecRows, SoundTarget, SoundRecommendation
<1> QED  BY <1>1, CoreHolds, PTL

\* Every sample lies inside its era, and a challenger's under a method that
\* was the champion's (experiments.assign_recommendation and
\* ensure_champion_era).
THEOREM SamplesAreTheErasOwn == Spec => []SamplesRespectEras
<1>1. ASSUME Core PROVE SamplesFallInTheirEras
  <2>1. ASSUME NEW r \in DOMAIN recs, NEW e \in recs[r].eras
        PROVE  InEra(eras, e, recs[r].at)
    BY <1>1 DEF Core, RecRows, SoundRecommendation
  <2> QED  BY <2>1 DEF SamplesFallInTheirEras, InEra, EraIds
<1>2. ASSUME Core PROVE ChallengerSamplesAreChampionIssued
  <2>1. ASSUME NEW r \in DOMAIN recs
        PROVE  ChampionIssued(eras, recs[r].method, recs[r].at)
    BY <1>2 DEF Core, RecRows, SoundRecommendation
  <2> QED  BY <2>1 DEF ChallengerSamplesAreChampionIssued, ChampionIssued, EraIds
<1> QED  BY <1>1, <1>2, CoreHolds, PTL DEF SamplesRespectEras

-----------------------------------------------------------------------------
(* What a pass settles, and what it may not touch.                            *)

\* Mature recommendations are resolved when the step that resolves them ends.
LEMMA MatureSettles ==
  ASSUME Core, NEW w \in Workers, RecommendationsStep(w), NEW r \in DOMAIN recs,
         Maturity(recs[r].target[1]) <= now
  PROVE  recs'[r].res # NoRes
<1>1. resolve_due_recommendations /\ UNCHANGED <<now, market, eras>>
  BY DEF RecommendationsStep, experiments
<1> QED  BY <1>1, RecommendationsAreSound DEF Core

\* The samples a step adds go to eras that are not decided.
SamplesAdded ==
  \A r \in DOMAIN recs' : \A e \in recs'[r].eras :
    ~Ended(e) \/ (r \in DOMAIN recs /\ e \in recs[r].eras)

LEMMA CheckedSamples ==
  ASSUME Core, NEW snapshot, GenerateCheck(snapshot)
  PROVE  SamplesAdded
<1> DEFINE t == exact_control(gen.at)
           m == Max(Existing(t, snapshot))
           again == assign_recommendation(config.method, recs[m].at)
<1>1. \/ UNCHANGED recs
      \/ recs' = [recs EXCEPT ![m].eras = @ \cup again]
  BY DEF GenerateCheck
<1>2. ASSUME recs' = [recs EXCEPT ![m].eras = @ \cup again],
             NEW r \in DOMAIN recs', NEW e \in recs'[r].eras
      PROVE  ~Ended(e) \/ (r \in DOMAIN recs /\ e \in recs[r].eras)
  <2>1. r \in DOMAIN recs
    BY <1>2
  <2>2. SoundRecommendation(now, targets, eras, recs[r])
    BY <2>1 DEF Core, RecRows
  <2>3. CASE r = m
    <3>1. recs[r].at \in Nat /\ recs[r] = [at |-> recs[r].at, target |-> recs[r].target, offer |-> recs[r].offer,
            snapshot |-> recs[r].snapshot, method |-> recs[r].method, eras |-> recs[r].eras,
            res |-> recs[r].res, facts |-> recs[r].facts]
      BY <2>2 DEF SoundRecommendation
    <3>2. \A x \in again : ~Ended(x)
      <4>1. SoundEras(eras)
        BY DEF Core
      <4> HIDE DEF m
      <4> QED  BY <2>3, <3>1, <4>1, AssignedErasAreOpen
    <3> HIDE DEF m, again
    <3>3. recs'[r] = [recs[r] EXCEPT !.eras = @ \cup again]
      BY <1>2, <2>1, <2>3
    <3>4. recs'[r].eras = recs[r].eras \cup again
      BY <3>1, <3>3
    <3> QED  BY <1>2, <2>1, <3>2, <3>4
  <2>4. CASE r # m
    <3> HIDE DEF m, again
    <3> QED  BY <1>2, <2>1, <2>4
  <2> QED  BY <2>3, <2>4
<1>3. CASE UNCHANGED recs
  BY <1>3 DEF SamplesAdded
<1> HIDE DEF m, again
<1> QED  BY <1>1, <1>2, <1>3 DEF SamplesAdded

LEMMA StoredSamples ==
  ASSUME Core, NEW r, NEW o \in plan.offers, GenerateStore(r, o), UNCHANGED <<now, targets, eras>>
  PROVE  SamplesAdded
<1>1. r \notin DOMAIN recs /\ recs' = Inserted(recs, r, NewRecommendation(o)) /\ gen.pc = "paid"
  BY StoredIsSound DEF Core, Clocks, GenerateStore
<1>2. NewRecommendation(o).eras = assign_recommendation(gen.method, gen.at)
  BY DEF NewRecommendation
<1>3. gen.at \in Nat /\ SoundEras(eras)
  BY DEF Core, Generating, SoundGeneration
<1>4. \A e \in assign_recommendation(gen.method, gen.at) : ~Ended(e)
  BY <1>3, AssignedErasAreOpen
<1> DEFINE new == NewRecommendation(o)
<1> HIDE DEF new
<1> QED  BY <1>1, <1>2, <1>4 DEF SamplesAdded, Inserted, new

LEMMA DecidedStay == Core /\ [Next]_vars => SamplesAdded
<1> SUFFICES ASSUME Core, [Next]_vars PROVE SamplesAdded
  OBVIOUS
<1>1. CASE UNCHANGED recs
  BY <1>1 DEF SamplesAdded
<1>2. ASSUME NEW w \in Workers, RecommendationsStep(w)
      PROVE  SamplesAdded
  <2>1. resolve_due_recommendations /\ UNCHANGED <<now, market, eras>>
    BY <1>2 DEF RecommendationsStep, experiments
  <2>2. DOMAIN recs' = DOMAIN recs /\ \A r \in DOMAIN recs : recs'[r].eras = recs[r].eras
    BY <2>1, RecommendationsAreSound DEF Core
  <2> QED  BY <2>2 DEF SamplesAdded
<1>3. ASSUME NEW w \in Workers, PortfolioStep(w)
      PROVE  SamplesAdded
  <2>1. UNCHANGED <<now, targets, eras>>
    BY <1>3 DEF PortfolioStep, experiments
  <2>2. CASE \E r \in DOMAIN recs, kind \in plan.terminals : PaperFact(r, kind, pass[w].at)
    <3>1. PICK r \in DOMAIN recs, kind \in plan.terminals : PaperFact(r, kind, pass[w].at)
      BY <2>2
    <3>2. kind \in {"target_hit", "missing_data"} /\ pass[w].at \in Nat
      BY CoreTimes, PlanIsSound DEF SoundPlan, Clocks, Core
    <3>3. DOMAIN recs' = DOMAIN recs /\ \A q \in DOMAIN recs : recs'[q].eras = recs[q].eras
      BY <2>1, <3>1, <3>2, FactIsSound DEF Core
    <3> QED  BY <3>3 DEF SamplesAdded
  <2> QED  BY <1>1, <1>3, <2>2 DEF PortfolioStep
<1>4. CASE generate_recommendation
  <2>1. UNCHANGED <<now, targets, eras>>
    BY <1>4 DEF generate_recommendation
  <2>2. CASE \E snapshot \in plan.snapshots : GenerateCheck(snapshot)
    BY <2>2, CheckedSamples
  <2>3. CASE \E o \in plan.offers : GenerateStore(Cardinality(DOMAIN recs) + 1, o)
    BY <2>1, <2>3, StoredSamples
  <2> QED  BY <1>1, <1>4, <2>2, <2>3 DEF generate_recommendation
<1>5. CASE \/ \E w \in Workers : StartPass(w) \/ Dies(w) \/ Step(w)
           \/ IssueBaselines \/ interpret_due_reviews \/ Authorize \/ Deploy \/ RegisterEra \/ Decide
           \/ Tick \/ UNCHANGED vars
  <2>1. ASSUME NEW w \in Workers, StartPass(w) \/ Dies(w) \/ Step(w),
               ~RecommendationsStep(w), ~PortfolioStep(w)
        PROVE  UNCHANGED recs
    BY <2>1 DEF Step, StartPass, Dies, StoreStep, TargetsStep, ForecastsStep, AssessRead, AssessStore,
                AssessDone, CheckStep, ReviewStep, ReassessStep
  <2>2. CASE IssueBaselines \/ interpret_due_reviews \/ Authorize \/ Deploy \/ RegisterEra \/ Decide
             \/ Tick \/ UNCHANGED vars
    BY <1>1, <2>2 DEF IssueBaselines, interpret_due_reviews, Authorize, Deploy, RegisterEra, Decide, Tick, vars
  <2> QED  BY <1>1, <1>2, <1>3, <1>5, <2>1, <2>2
<1> QED  BY <1>4, <1>5 DEF Next

\* A review pass adds members and leaves those it finds alone.
LEMMA ReviewAdds ==
  ASSUME Core, NEW w \in Workers, ReviewStep(w)
  PROVE  /\ \A r \in Members : cutoffs'[r] = cutoffs[r] /\ reviews'[r] = reviews[r]
         /\ \A r \in DOMAIN recs : Projectable(r, pass[w].at) => r \in DOMAIN cutoffs'
<1> DEFINE cutoff == pass[w].at
           due == ReviewDue(cutoff)
<1>1. /\ cutoffs' = [r \in Members \cup due |-> IF r \in due THEN cutoff ELSE cutoffs[r]]
      /\ reviews' = [r \in Members \cup due |->
                       IF r \in due THEN Review(<<>>, r, cutoff) ELSE reviews[r]]
  BY DEF ReviewStep, build_due_review_cohort
<1>2. \A r \in due : r \notin Members
  BY DEF ReviewDue
<1>3. ASSUME NEW r \in DOMAIN recs, Projectable(r, cutoff), r \notin Members
      PROVE  r \in due
  <2>1. SoundRecommendation(now, targets, eras, recs[r])
    BY DEF Core, RecRows
  <2>2. recs[r].res # NoRes /\ recs[r].res.at <= cutoff
    BY <1>3 DEF Projectable, Known
  <2>3. recs[r].at \in 1..now /\ recs[r].res \in TargetResolution /\ recs[r].at <= recs[r].res.at
    BY <2>1, <2>2, RecommendationFields DEF SoundRecommendation
  <2>4. recs[r].res.at \in Nat /\ cutoff \in 0..now /\ now \in Nat
    BY <2>3, ResolutionFields, CoreTimes
  <2>5. recs[r].at <= cutoff
    <3> HIDE DEF cutoff
    <3> QED  BY <2>2, <2>3, <2>4
  <2> QED  BY <1>3, <2>5 DEF ReviewDue
<1> HIDE DEF due, cutoff
<1>4. \A r \in Members : cutoffs'[r] = cutoffs[r] /\ reviews'[r] = reviews[r]
  BY <1>1, <1>2
<1>5. DOMAIN cutoffs' = Members \cup due
  BY <1>1
<1> QED  BY <1>3, <1>4, <1>5 DEF cutoff

\* A pass resolves what is due, never adds a sample to a decided era, and
\* touches no member of an earlier cohort (operations.reconcile,
\* experiments.assign_recommendation, reviews.build_due_review_cohort).
THEOREM PassesSettleWhatIsDue == Spec => PassesSettle
<1>1. Core /\ [Next]_vars =>
        [\A w \in Workers : RecommendationsStep(w) =>
           \A r \in DOMAIN recs : Maturity(recs[r].target[1]) <= now => recs'[r].res # NoRes]_vars
  BY MatureSettles
<1>2. Core /\ [Next]_vars =>
        [\A e \in EraIds : Ended(e) =>
           \A r \in DOMAIN recs' : e \in recs'[r].eras => r \in DOMAIN recs /\ e \in recs[r].eras]_vars
  BY DecidedStay DEF SamplesAdded
<1>3. Core /\ [Next]_vars =>
        [\A w \in Workers : ReviewStep(w) =>
           /\ \A r \in Members : cutoffs'[r] = cutoffs[r] /\ reviews'[r] = reviews[r]
           /\ \A r \in DOMAIN recs : Projectable(r, pass[w].at) => r \in DOMAIN cutoffs']_vars
  BY ReviewAdds
<1> QED  BY <1>1, <1>2, <1>3, CoreHolds, PTL
         DEF Spec, PassesSettle, MatureIsSettled, DecidedErasAreFinal, ReviewFreezesTheRest

-----------------------------------------------------------------------------
(* The rest of the rows: baselines, slots, assessments, decisions, reviews    *)
(* and hypotheses keep their shapes.                                          *)

\* Time passes and eras are only added.
LEMMA NothingIsTakenBack == Core /\ [Next]_vars => TimePasses /\ ErasGrow
<1> SUFFICES ASSUME Core, [Next]_vars PROVE TimePasses /\ ErasGrow
  OBVIOUS
<1>1. now \in Nat
  BY CoreTimes
<1>2. CASE RegisterEra
  <2>1. UNCHANGED now
    BY <1>2 DEF RegisterEra
  <2>2. TimePasses
    BY <1>1, <2>1 DEF TimePasses
  <2> QED  BY <1>2, <2>2, RegisteringIsSound DEF Core, Clocks
<1>3. CASE Tick
  <2>1. UNCHANGED eras /\ now' = now + 1
    BY <1>3 DEF Tick, experiments
  <2>2. ErasGrow
    BY <2>1, UnchangedKeeps
  <2> QED  BY <1>1, <2>1, <2>2 DEF TimePasses
<1>4. CASE \E w \in Workers : StartPass(w) \/ Dies(w) \/ Step(w)
  <2>1. UNCHANGED <<now, eras>>
    BY <1>4 DEF StartPass, Dies, Step, StoreStep, TargetsStep, ForecastsStep, RecommendationsStep,
                PortfolioStep, AssessRead, AssessStore, AssessDone, CheckStep, ReviewStep, ReassessStep,
                experiments
  <2> QED  BY <1>1, <2>1, UnchangedKeeps DEF TimePasses
<1>5. CASE \/ generate_recommendation \/ IssueBaselines \/ interpret_due_reviews
           \/ Authorize \/ Deploy \/ Decide \/ UNCHANGED vars
  <2>1. UNCHANGED <<now, eras>>
    BY <1>5 DEF generate_recommendation, IssueBaselines, interpret_due_reviews, Authorize, Deploy, Decide,
                experiments, vars
  <2> QED  BY <1>1, <2>1, UnchangedKeeps DEF TimePasses
<1> QED  BY <1>2, <1>3, <1>4, <1>5 DEF Next

LegacyRows ==
  \A t \in DOMAIN legacy :
    /\ t[1] \in Days /\ legacy[t] \in ForecastResolution
    /\ legacy[t] # NoRes => legacy[t].end - t[1] >= Horizon

LEMMA NoResIsTyped == NoRes \in TargetResolution
  BY DEF NoRes, TargetResolution, Scored, None

LEMMA LegacyStays == Core /\ LegacyRows /\ [Next]_vars => LegacyRows'
<1> SUFFICES ASSUME Core, LegacyRows, [Next]_vars PROVE LegacyRows'
  OBVIOUS
<1>1. CASE UNCHANGED legacy
  BY <1>1 DEF LegacyRows
<1>2. ASSUME NEW w \in Workers, ForecastsStep(w) PROVE LegacyRows'
  <2>1. legacy' = [t \in DOMAIN legacy |-> resolve_forecast(t[1], Horizon, t[2], legacy[t])]
    BY <1>2 DEF ForecastsStep, resolve_due_forecasts
  <2>2. now \in Nat /\ Horizon \in Nat
    BY CoreTimes, ForecastsAssumption
  <2>3. ASSUME NEW t \in DOMAIN legacy
        PROVE  /\ t[1] \in Days /\ legacy'[t] \in ForecastResolution
               /\ legacy'[t] # NoRes => legacy'[t].end - t[1] >= Horizon
    <3> DEFINE r == resolve_forecast(t[1], Horizon, t[2], legacy[t])
    <3>1. t[1] \in Days /\ legacy[t] \in TargetResolution
      BY DEF LegacyRows, ForecastResolution
    <3>2. r \in TargetResolution /\ (r = legacy[t] \/ r.end - t[1] >= Horizon)
      BY <2>2, <3>1, BaselineResolved
    <3>3. legacy'[t] = r
      BY <2>1
    <3> HIDE DEF r
    <3> QED  BY <3>1, <3>2, <3>3 DEF LegacyRows, ForecastResolution
  <2> QED  BY <2>1, <2>3 DEF LegacyRows
<1>3. CASE IssueBaselines
  <2> DEFINE held == {d \in Days : Stored(d)}
             t == <<Max(held), Len(tech[Max(held)])>>
  <2>1. held # {} /\ legacy' = Inserted(legacy, t, NoRes)
    BY <1>3 DEF IssueBaselines, issue_baselines
  <2>2. Max(held) \in Days
    BY <2>1, LastSession
  <2>3. t[1] \in Days
    BY <2>2
  <2> HIDE DEF t
  <2>4. DOMAIN legacy' = DOMAIN legacy \cup {t} /\ \A u \in DOMAIN legacy' :
          legacy'[u] = IF u \in DOMAIN legacy THEN legacy[u] ELSE NoRes
    BY <2>1 DEF Inserted
  <2> QED  BY <2>3, <2>4, NoResIsTyped DEF LegacyRows, ForecastResolution
<1>4. ASSUME NEW w \in Workers, StartPass(w) \/ Dies(w) \/ Step(w), ~ForecastsStep(w)
      PROVE  UNCHANGED legacy
  BY <1>4 DEF Step, StartPass, Dies, StoreStep, TargetsStep, RecommendationsStep, PortfolioStep, AssessRead,
              AssessStore, AssessDone, CheckStep, ReviewStep, ReassessStep
<1>5. CASE \/ generate_recommendation \/ interpret_due_reviews
           \/ Authorize \/ Deploy \/ RegisterEra \/ Decide \/ Tick \/ UNCHANGED vars
  BY <1>1, <1>5 DEF generate_recommendation, interpret_due_reviews, Authorize, Deploy, RegisterEra, Decide,
                    Tick, vars
<1> QED  BY <1>1, <1>2, <1>3, <1>4, <1>5 DEF Next

\* Slots are used in order, and the plan has enough of them.
Flying(g) == IF g = NoGen THEN 0 ELSE 1
Slots ==
  /\ spent = [passes |-> spent.passes, gens |-> spent.gens]
  /\ spent.gens \in Nat /\ spent.gens <= plan.gens
  /\ \E k \in Nat :
       /\ DOMAIN recs = 1..k
       /\ k + Flying(gen)
            <= Cardinality(DOMAIN plan.start.recs) + Flying(plan.start.gen) + spent.gens

LEMMA SlotsSuffice ==
  ASSUME Core, Slots
  PROVE  IsFiniteSet(DOMAIN recs) /\ DOMAIN recs \subseteq Recs
<1>1. PICK k \in Nat : /\ DOMAIN recs = 1..k
                       /\ k + Flying(gen) <= Cardinality(DOMAIN plan.start.recs)
                                             + Flying(plan.start.gen) + spent.gens
  BY DEF Slots
<1> DEFINE issued == Cardinality(DOMAIN plan.start.recs)
           all == issued + plan.gens + Flying(plan.start.gen)
<1>2. SoundPlan(plan)
  BY PlanIsSound DEF Core, Clocks
<1>3. DOMAIN plan.start.recs = 1..issued /\ 1..all \subseteq Recs /\ plan.gens \in Nat
  BY <1>2 DEF SoundPlan, Flying
<1>4. issued \in Nat
  BY <1>2 DEF SoundPlan
<1> HIDE DEF issued
<1>5. Flying(gen) \in 0..1 /\ Flying(plan.start.gen) \in 0..1
  BY DEF Flying
<1>6. k <= all
  BY <1>1, <1>3, <1>4, <1>5 DEF Slots, issued
<1>7. all \in Nat
  BY <1>3, <1>4, <1>5
<1> HIDE DEF all
<1>8. 1..k \subseteq 1..all
  BY <1>6, <1>7
<1>9. IsFiniteSet(1..k)
  BY FS_Interval
<1> QED  BY <1>1, <1>3, <1>8, <1>9

LEMMA SlotsStay == Core /\ Core' /\ Slots /\ [Next]_vars => Slots'
<1> SUFFICES ASSUME Core, Core', Slots, [Next]_vars PROVE Slots'
  OBVIOUS
<1>1. PICK k \in Nat : /\ DOMAIN recs = 1..k
                       /\ k + Flying(gen) <= Cardinality(DOMAIN plan.start.recs)
                                             + Flying(plan.start.gen) + spent.gens
  BY DEF Slots
<1>2. /\ Cardinality(DOMAIN plan.start.recs) \in Nat /\ plan.gens \in Nat
      /\ \A g : Flying(g) \in 0..1
  BY PlanIsSound DEF Core, Clocks, SoundPlan, Flying
<1>3. ASSUME UNCHANGED plan, DOMAIN recs' = DOMAIN recs, Flying(gen') <= Flying(gen),
             spent' = [passes |-> spent'.passes, gens |-> spent.gens]
      PROVE  Slots'
  <2>1. k + Flying(gen') <= Cardinality(DOMAIN plan.start.recs) + Flying(plan.start.gen) + spent.gens
    BY <1>1, <1>2, <1>3 DEF Slots
  <2>2. spent'.gens = spent.gens
    BY <1>3
  <2> QED  BY <1>1, <1>3, <2>1, <2>2 DEF Slots
<1>4. ASSUME NEW w \in Workers, StartPass(w) \/ Dies(w) \/ Step(w)
      PROVE  Slots'
  <2>1. UNCHANGED <<plan, gen>>
    BY <1>4 DEF StartPass, Dies, Step, StoreStep, TargetsStep, ForecastsStep, RecommendationsStep,
                PortfolioStep, AssessRead, AssessStore, AssessDone, CheckStep, ReviewStep, ReassessStep,
                experiments
  <2>2. spent' = [passes |-> spent'.passes, gens |-> spent.gens]
    <3>1. spent = [passes |-> spent.passes, gens |-> spent.gens]
      BY DEF Slots
    <3>2. UNCHANGED spent \/ spent' = [spent EXCEPT !.passes = @ + 1]
      BY <1>4 DEF StartPass, Dies, Step, StoreStep, TargetsStep, ForecastsStep, RecommendationsStep,
                  PortfolioStep, AssessRead, AssessStore, AssessDone, CheckStep, ReviewStep, ReassessStep
    <3> QED  BY <3>1, <3>2
  <2>3. DOMAIN recs' = DOMAIN recs
    BY <1>4 DEF StartPass, Dies, Step, StoreStep, TargetsStep, ForecastsStep, RecommendationsStep,
                PortfolioStep, AssessRead, AssessStore, AssessDone, CheckStep, ReviewStep, ReassessStep,
                resolve_due_recommendations, PaperFact
  <2> QED  BY <1>2, <1>3, <2>1, <2>2, <2>3
<1>5. CASE generate_recommendation
  <2>1. UNCHANGED plan
    BY <1>5 DEF generate_recommendation
  <2>2. CASE GenerateStart /\ spent.gens < plan.gens /\ spent' = [spent EXCEPT !.gens = @ + 1] /\ UNCHANGED recs
    <3>1. Flying(gen) = 0
      BY <2>2 DEF GenerateStart, Flying
    <3>2. spent' = [passes |-> spent'.passes, gens |-> spent.gens + 1]
      BY <2>2 DEF Slots
    <3>3. k + Flying(gen')
            <= Cardinality(DOMAIN plan.start.recs) + Flying(plan.start.gen) + spent'.gens
      BY <1>1, <1>2, <3>1, <3>2 DEF Slots
    <3> QED  BY <1>1, <1>2, <2>1, <2>2, <3>2, <3>3 DEF Slots
  <2>3. CASE (\E snapshot \in plan.snapshots : GenerateCheck(snapshot)) /\ UNCHANGED spent
    <3>1. gen # NoGen /\ DOMAIN recs' = DOMAIN recs
      BY <2>3 DEF GenerateCheck, NoGen
    <3>2. Flying(gen') <= Flying(gen)
      BY <1>2, <3>1 DEF Flying
    <3>3. spent' = [passes |-> spent'.passes, gens |-> spent.gens]
      BY <2>3 DEF Slots
    <3> QED  BY <1>3, <2>1, <3>1, <3>2, <3>3
  <2>4. CASE (\E o \in plan.offers : GenerateStore(Cardinality(DOMAIN recs) + 1, o)) /\ UNCHANGED spent
    <3>1. Cardinality(DOMAIN recs) = k
      BY <1>1, FS_Interval
    <3>2. /\ gen # NoGen /\ gen' = NoGen
          /\ recs' = recs \/ \E o : recs' = Inserted(recs, k + 1, NewRecommendation(o))
      BY <2>4, <3>1 DEF GenerateStore, NoGen
    <3>3. Flying(gen) = 1 /\ Flying(gen') = 0
      BY <3>2 DEF Flying
    <3>4. DOMAIN recs' = DOMAIN recs \/ DOMAIN recs' = 1..(k + 1)
      <4>1. (1..k) \cup {k + 1} = 1..(k + 1)
        OBVIOUS
      <4> QED  BY <1>1, <3>2, <4>1 DEF Inserted
    <3>5. k + 1 + Flying(gen')
            <= Cardinality(DOMAIN plan.start.recs) + Flying(plan.start.gen) + spent.gens
      BY <1>1, <3>3
    <3>6. k + 1 \in Nat
      OBVIOUS
    <3>7. CASE DOMAIN recs' = DOMAIN recs
      BY <1>2, <1>3, <2>1, <2>4, <3>3, <3>7 DEF Slots
    <3>8. CASE DOMAIN recs' = 1..(k + 1)
      BY <2>1, <2>4, <3>5, <3>6, <3>8 DEF Slots
    <3> QED  BY <3>4, <3>7, <3>8
  <2>5. CASE GenerateFails /\ UNCHANGED <<recs, raised, spent>>
    <3>1. Flying(gen') = 0
      BY <2>5 DEF GenerateFails, Flying
    <3> QED  BY <1>2, <1>3, <2>1, <2>5, <3>1 DEF Slots
  <2> QED  BY <1>5, <2>2, <2>3, <2>4, <2>5 DEF generate_recommendation
<1>6. CASE \/ IssueBaselines \/ interpret_due_reviews
           \/ Authorize \/ Deploy \/ RegisterEra \/ Decide \/ Tick \/ UNCHANGED vars
  <2>1. UNCHANGED <<recs, gen, spent, plan>>
    BY <1>6 DEF IssueBaselines, interpret_due_reviews, Authorize, Deploy, RegisterEra, Decide, Tick,
                experiments, vars
  <2> QED  BY <1>2, <1>3, <2>1 DEF Slots
<1> QED  BY <1>4, <1>5, <1>6 DEF Next

\* There are at most as many targets scored as there are samples.
LEMMA AssessmentCounts ==
  ASSUME IsFiniteSet(DOMAIN recs), NEW e, NEW at
  PROVE  LET v == assessment_values(e, at) IN v.status \in Status /\ v.scored <= v.raw
<1> DEFINE S == Samples(e, at)
           T == {recs[r].target : r \in S}
           mature == Mature(T, at)
           scored == {t \in mature : Valid(S, t, at) # {}}
           f == [r \in S |-> recs[r].target]
           v == assessment_values(e, at)
<1>1. IsFiniteSet(S)
  <2>1. S \subseteq DOMAIN recs
    BY DEF Samples
  <2> QED  BY <2>1, FS_Subset
<1>2. f \in Surjection(S, T)
  <2> HIDE DEF S
  <2> QED  BY DEF Surjection
<1>3. scored \subseteq T
  BY DEF Mature
<1>4. IsFiniteSet(T) /\ Cardinality(T) <= Cardinality(S)
  <2> HIDE DEF S, T, f
  <2> QED  BY <1>1, <1>2, FS_Surjection
<1>5. Cardinality(scored) <= Cardinality(S)
  <2> HIDE DEF S, T, scored
  <2>1. /\ Cardinality(scored) <= Cardinality(T)
        /\ Cardinality(scored) \in Nat /\ Cardinality(T) \in Nat /\ Cardinality(S) \in Nat
    BY <1>1, <1>3, <1>4, FS_Subset, FS_CardinalityType
  <2> QED  BY <1>4, <2>1
<1>6. v.raw = Cardinality(S) /\ v.scored = Cardinality(scored)
  BY DEF assessment_values
<1>7. v.status \in Status
  BY DEF assessment_values, Status
<1> QED  BY <1>5, <1>6, <1>7

Assessable(a, time) ==
  a.era \in EraIds /\ a.at \in 1..time /\ a.values.status \in Status /\ a.values.scored <= a.values.raw

AssessRows ==
  /\ \A a \in assessments : Assessable(a, now)
  /\ \A w \in Workers : pass[w].read # NoRead => Assessable(pass[w].read, now)
  /\ failed \subseteq EraIds \X (1..now)

LEMMA AssessedIsAssessable ==
  ASSUME IsFiniteSet(DOMAIN recs), NEW e \in EraIds, NEW at \in 1..now
  PROVE  Assessable(Assessed(e, at), now)
  BY AssessmentCounts DEF Assessable, Assessed

\* An assessment that a step makes of what it leaves alone.
Reads(a) == UNCHANGED <<recs, targets, eras>> /\ \E e, at : a = Assessed(e, at)

\* What a worker holds after a step: what it held, nothing, or what it read.
LEMMA WorkersRead ==
  ASSUME Core, Slots, NEW w \in Workers, StartPass(w) \/ Dies(w) \/ Step(w), NEW v \in Workers
  PROVE  \/ pass'[v].read \in {pass[v].read, NoRead}
         \/ Assessable(pass'[v].read, now) /\ Reads(pass'[v].read)
<1>1. DOMAIN pass = Workers /\ Timed(pass[w], now) /\ now \in Nat \ {0}
  BY CoreTimes DEF Core, Passes
<1>2. \A todo, bad : Ready(todo, bad).read = NoRead
  BY DEF Ready
<1>3. NoPass.read = NoRead
  BY DEF NoPass
<1>4. \A bad : Advanced(w, bad).read = NoRead
  BY <1>2, <1>3 DEF Advanced
<1>5. ASSUME NEW p, pass' = [pass EXCEPT ![w] = p], p.read \in {pass[w].read, NoRead} \/ (Assessable(p.read, now) /\ Reads(p.read))
      PROVE  \/ pass'[v].read \in {pass[v].read, NoRead}
             \/ Assessable(pass'[v].read, now) /\ Reads(pass'[v].read)
  <2>1. pass'[v] = IF v = w THEN p ELSE pass[v]
    BY <1>1, <1>5
  <2> QED  BY <1>5, <2>1
<1>6. CASE StartPass(w)
  <2>1. PICK name : pass' = [pass EXCEPT ![w] = Ready(Program(name), FALSE)]
    BY <1>6 DEF StartPass
  <2> DEFINE p == Ready(Program(name), FALSE)
  <2>2. pass' = [pass EXCEPT ![w] = p] /\ p.read = NoRead
    BY <1>2, <2>1
  <2> HIDE DEF p
  <2> QED  BY <1>5, <2>2
<1>7. CASE Dies(w)
  BY <1>3, <1>5, <1>7 DEF Dies
<1>8. CASE StoreStep(w)
  <2>1. PICK p : pass' = [pass EXCEPT ![w] = p] /\ p.read = NoRead
    BY <1>2, <1>8 DEF StoreStep
  <2> QED  BY <1>5, <2>1
<1>9. CASE \/ TargetsStep(w) \/ ForecastsStep(w) \/ RecommendationsStep(w) \/ PortfolioStep(w)
           \/ AssessDone(w) \/ ReviewStep(w) \/ ReassessStep(w)
  <2>1. PICK bad : Advance(w, bad)
    BY <1>9 DEF TargetsStep, ForecastsStep, RecommendationsStep, PortfolioStep, AssessDone, ReviewStep,
                ReassessStep
  <2> QED  BY <1>4, <1>5, <2>1 DEF Advance
<1>10. CASE CheckStep(w)
  <2> DEFINE p == IF pass[w].failed THEN NoPass ELSE Advanced(w, FALSE)
  <2>1. pass' = [pass EXCEPT ![w] = p]
    BY <1>10 DEF CheckStep
  <2>2. p.read = NoRead
    BY <1>3, <1>4
  <2> HIDE DEF p
  <2> QED  BY <1>5, <2>1, <2>2
<1>11. CASE AssessStore(w)
  <2>1. pass' = [pass EXCEPT ![w] = [pass[w] EXCEPT !.read = NoRead]]
    BY <1>11 DEF AssessStore
  <2>2. [pass[w] EXCEPT !.read = NoRead].read = NoRead
    <3> DEFINE p == pass[w]
    <3>1. p = [todo |-> p.todo, at |-> p.at, failed |-> p.failed, era |-> p.era, read |-> p.read]
      BY <1>1 DEF Timed
    <3> HIDE DEF p
    <3>2. [p EXCEPT !.read = NoRead].read = NoRead
      BY <3>1
    <3> QED  BY <3>2 DEF p
  <2> QED  BY <1>5, <2>1, <2>2
<1>12. CASE AssessRead(w)
  <2>1. PICK e \in EraIds : pass' = [pass EXCEPT ![w].era = @ + 1, ![w].read = Assessed(e, pass[w].at)]
    BY <1>12 DEF AssessRead
  <2> DEFINE p == pass[w]
             a == Assessed(e, p.at)
             q == [[p EXCEPT !.era = @ + 1] EXCEPT !.read = a]
  <2>2. pass' = [pass EXCEPT ![w] = q]
    BY <2>1
  <2>3. q.read = a
    <3>1. p = [todo |-> p.todo, at |-> p.at, failed |-> p.failed, era |-> p.era, read |-> p.read]
      BY <1>1 DEF Timed
    <3> HIDE DEF p, a
    <3> DEFINE s == [p EXCEPT !.era = @ + 1]
    <3>2. s = [todo |-> p.todo, at |-> p.at, failed |-> p.failed, era |-> p.era + 1, read |-> p.read]
      BY <3>1
    <3> HIDE DEF s
    <3>3. [s EXCEPT !.read = a].read = a
      BY <3>2
    <3> QED  BY <3>3 DEF s
  <2>4. p.at \in 1..now
    <3>1. Head(p.todo) \notin Timeless /\ p.todo # <<>>
      BY <1>12 DEF AssessRead, AtStep, Timeless
    <3>2. p.at \in 0..now /\ p.at # 0
      BY <1>1, <3>1 DEF Timed
    <3> HIDE DEF p
    <3> QED  BY <1>1, <3>2
  <2>5. Assessable(a, now)
    <3> HIDE DEF p
    <3> QED  BY <2>4, SlotsSuffice, AssessedIsAssessable
  <2>6. Reads(a)
    <3>1. UNCHANGED <<recs, targets, eras>>
      BY <1>12 DEF AssessRead, experiments
    <3> HIDE DEF p
    <3> QED  BY <3>1 DEF Reads
  <2> HIDE DEF q, a
  <2> QED  BY <1>5, <2>2, <2>3, <2>5, <2>6
<1> QED  BY <1>6, <1>7, <1>8, <1>9, <1>10, <1>11, <1>12 DEF Step

LEMMA AssessRowsStay == Core /\ Core' /\ Slots /\ AssessRows /\ [Next]_vars => AssessRows'
<1> SUFFICES ASSUME Core, Core', Slots, AssessRows, [Next]_vars PROVE AssessRows'
  OBVIOUS
<1>1. TimePasses /\ EraIds \subseteq EraIds' /\ now \in Nat
  BY NothingIsTakenBack, CoreTimes DEF ErasGrow, EraIds
<1>2. \A a : Assessable(a, now) => Assessable(a, now)'
  <2>1. 1..now \subseteq 1..now'
    BY <1>1 DEF TimePasses
  <2> QED  BY <1>1, <2>1 DEF Assessable
<1>3. EraIds \X (1..now) \subseteq EraIds' \X (1..now')
  <2>1. 1..now \subseteq 1..now'
    BY <1>1 DEF TimePasses
  <2> QED  BY <1>1, <2>1
<1>4. ASSUME UNCHANGED <<assessments, failed, pass>>
      PROVE  AssessRows'
  BY <1>2, <1>3, <1>4 DEF AssessRows
<1>5. ASSUME NEW w \in Workers, StartPass(w) \/ Dies(w) \/ Step(w)
      PROVE  AssessRows'
  <2>1. \A v \in Workers : pass'[v].read # NoRead => Assessable(pass'[v].read, now)
    BY <1>5, WorkersRead DEF AssessRows
  <2>2. CASE AssessStore(w)
    <3>1. Assessable(pass[w].read, now) /\ pass[w].read.era \in EraIds /\ pass[w].read.at \in 1..now
      BY <2>2 DEF AssessStore, AssessRows, Assessable
    <3>2. /\ assessments' \subseteq assessments \cup {pass[w].read}
          /\ failed' \subseteq failed \cup {<<pass[w].read.era, pass[w].read.at>>}
      BY <2>2 DEF AssessStore, refresh_experiment_assessment
    <3>3. \A a \in assessments' : Assessable(a, now)
      BY <3>1, <3>2 DEF AssessRows
    <3>4. failed' \subseteq EraIds \X (1..now)
      BY <3>1, <3>2 DEF AssessRows
    <3> QED  BY <1>2, <1>3, <2>1, <3>3, <3>4 DEF AssessRows
  <2>3. CASE ~AssessStore(w)
    <3>1. UNCHANGED <<assessments, failed>>
      BY <1>5, <2>3 DEF StartPass, Dies, Step, StoreStep, TargetsStep, ForecastsStep, RecommendationsStep,
                PortfolioStep, AssessRead, AssessDone, CheckStep, ReviewStep, ReassessStep, experiments
    <3> QED  BY <1>2, <1>3, <2>1, <3>1 DEF AssessRows
  <2> QED  BY <2>2, <2>3
<1>6. CASE \/ generate_recommendation \/ IssueBaselines \/ interpret_due_reviews
           \/ Authorize \/ Deploy \/ RegisterEra \/ Decide \/ Tick \/ UNCHANGED vars
  <2>1. UNCHANGED <<assessments, failed, pass>>
    BY <1>6 DEF generate_recommendation, IssueBaselines, interpret_due_reviews, Authorize, Deploy, RegisterEra,
                Decide, Tick, experiments, vars
  <2> QED  BY <1>4, <2>1
<1> QED  BY <1>5, <1>6 DEF Next

DecisionRows ==
  \A p \in deciding \cup decisions :
    /\ p \in [era : EraIds, at : Nat, decision : {"continue", "reject", "promote"}]
    /\ eras[p.era].kind = "challenger"

LEMMA DecisionRowsStay == Core /\ AssessRows /\ DecisionRows /\ [Next]_vars => DecisionRows'
<1> SUFFICES ASSUME Core, AssessRows, DecisionRows, [Next]_vars PROVE DecisionRows'
  OBVIOUS
<1>1. ErasGrow
  BY NothingIsTakenBack
<1> DEFINE Sound(p) == /\ p \in [era : EraIds, at : Nat, decision : {"continue", "reject", "promote"}]
                       /\ eras[p.era].kind = "challenger"
<1>2. ASSUME NEW p, Sound(p) PROVE Sound(p)'
  BY <1>1, <1>2 DEF ErasGrow, EraIds
<1>3. ASSUME UNCHANGED <<deciding, decisions>> PROVE DecisionRows'
  BY <1>2, <1>3 DEF DecisionRows
<1>4. CASE Decide
  <2>1. CASE \E p \in deciding : record_promotion_decision(p)
    <3>1. deciding' \cup decisions' \subseteq deciding \cup decisions
      BY <2>1 DEF record_promotion_decision
    <3> QED  BY <1>2, <3>1 DEF DecisionRows
  <2>2. CASE (\E e \in EraIds, d \in plan.decisions : DecideCheck(e, d)) /\ UNCHANGED decisions
    <3>1. PICK e \in EraIds, d \in plan.decisions : DecideCheck(e, d)
      BY <2>2
    <3>2. PICK a \in assessments :
            /\ eras[e].kind = "challenger"
            /\ deciding' = deciding \cup {[era |-> e, at |-> a.at, decision |-> d]}
      BY <3>1 DEF DecideCheck
    <3>3. a.at \in Nat
      BY CoreTimes DEF AssessRows, Assessable
    <3>4. d \in {"continue", "reject", "promote"}
      BY PlanIsSound DEF Core, Clocks, SoundPlan
    <3>5. Sound([era |-> e, at |-> a.at, decision |-> d])
      BY <3>2, <3>3, <3>4
    <3> HIDE DEF Sound
    <3>6. \A p \in deciding' \cup decisions' : Sound(p)
      BY <2>2, <3>2, <3>5 DEF DecisionRows, Sound
    <3> QED  BY <1>2, <3>6 DEF DecisionRows, Sound
  <2> QED  BY <1>4, <2>1, <2>2 DEF Decide
<1>5. ASSUME NEW w \in Workers, StartPass(w) \/ Dies(w) \/ Step(w)
      PROVE  UNCHANGED <<deciding, decisions>>
  BY <1>5 DEF StartPass, Dies, Step, StoreStep, TargetsStep, ForecastsStep, RecommendationsStep,
              PortfolioStep, AssessRead, AssessStore, AssessDone, CheckStep, ReviewStep, ReassessStep,
              experiments
<1>6. CASE \/ generate_recommendation \/ IssueBaselines \/ interpret_due_reviews
           \/ Authorize \/ Deploy \/ RegisterEra \/ Tick \/ UNCHANGED vars
  <2>1. UNCHANGED <<deciding, decisions>>
    BY <1>6 DEF generate_recommendation, IssueBaselines, interpret_due_reviews, Authorize, Deploy, RegisterEra,
                Tick, experiments, vars
  <2> QED  BY <1>3, <2>1
<1> QED  BY <1>3, <1>4, <1>5, <1>6 DEF Next

-----------------------------------------------------------------------------
(* Reviews.                                                                   *)

\* The reviews of a member: each supersedes an earlier one of its kind.
Chained(rows) ==
  /\ \E S : rows \in Seq(S)
  /\ \A i \in DOMAIN rows :
       /\ rows[i].kind \in {"thesis", "execution", "reconciliation"}
       /\ rows[i].coverage \in {"complete", "not_applicable", "missing"}
       /\ rows[i].at \in Nat /\ rows[i].supersedes \in 0..Len(rows)
       /\ rows[i].supersedes # None => rows[rows[i].supersedes].kind = rows[i].kind

Begins(base, rows) ==
  Len(base) <= Len(rows) /\ \A i \in 1..Len(base) : rows[i] = base[i]

LEMMA CurrentIsOfItsKind ==
  ASSUME NEW rows, Chained(rows), NEW kind, Current(rows, kind) # None
  PROVE  Current(rows, kind) \in 1..Len(rows) /\ rows[Current(rows, kind)].kind = kind
<1> DEFINE of == {i \in DOMAIN rows : rows[i].kind = kind}
           last == {i \in of : \A j \in of : rows[j].at <= rows[i].at}
<1>1. PICK S : rows \in Seq(S)
  BY DEF Chained
<1>2. last # {} /\ Current(rows, kind) = Max(last)
  BY DEF Current
<1>3. last \subseteq DOMAIN rows /\ \A i \in last : rows[i].kind = kind
  OBVIOUS
<1> HIDE DEF last
<1>4. Max(last) \in last
  BY <1>1, <1>2, <1>3, LastPosition
<1> QED  BY <1>1, <1>2, <1>3, <1>4

LEMMA ReviewIsChained ==
  ASSUME NEW base, Chained(base), NEW rows, Chained(rows), Begins(base, rows),
         NEW kind \in {"thesis", "execution", "reconciliation"},
         NEW coverage \in {"complete", "not_applicable", "missing"}, NEW input, NEW at \in Nat
  PROVE  LET new == [kind |-> kind, input |-> input, coverage |-> coverage, at |-> at,
                     supersedes |-> Current(base, kind)]
         IN Chained(rows \o <<new>>) /\ Begins(base, rows \o <<new>>)
<1> DEFINE new == [kind |-> kind, input |-> input, coverage |-> coverage, at |-> at,
                   supersedes |-> Current(base, kind)]
           x == rows \o <<new>>
<1>1. PICK S : rows \in Seq(S)
  BY DEF Chained
<1>2. PICK B : base \in Seq(B)
  BY DEF Chained
<1>3. /\ new.kind = kind /\ new.coverage = coverage /\ new.at = at
      /\ new.supersedes = Current(base, kind)
  OBVIOUS
<1>4. Current(base, kind) # None =>
        Current(base, kind) \in 1..Len(base) /\ base[Current(base, kind)].kind = kind
  BY CurrentIsOfItsKind
<1> HIDE DEF new
<1>5. rows \in Seq(S \cup {new}) /\ <<new>> \in Seq(S \cup {new})
  BY <1>1, SeqMonotonic
<1>6. x \in Seq(S \cup {new}) /\ Len(x) = Len(rows) + 1 /\ x[Len(rows) + 1] = new
      /\ \A i \in 1..Len(rows) : x[i] = rows[i]
  BY <1>5
<1>7. Len(rows) \in Nat /\ Len(base) \in Nat /\ Len(base) <= Len(rows)
      /\ DOMAIN rows = 1..Len(rows) /\ DOMAIN x = 1..Len(x)
  BY <1>1, <1>2, <1>6 DEF Begins
<1> HIDE DEF x
<1>8. Begins(base, x)
  BY <1>6, <1>7 DEF Begins
<1>9. ASSUME NEW i \in 1..Len(rows)
      PROVE  /\ x[i] = rows[i] /\ rows[i].supersedes \in 0..Len(x)
             /\ rows[i].supersedes # None => x[rows[i].supersedes].kind = rows[i].kind
  <2>1. /\ rows[i].supersedes \in 0..Len(rows)
        /\ rows[i].supersedes # None => rows[rows[i].supersedes].kind = rows[i].kind
    BY <1>7 DEF Chained
  <2> QED  BY <1>6, <1>7, <2>1 DEF None
<1>10. /\ new.supersedes \in 0..Len(x)
       /\ new.supersedes # None => x[new.supersedes].kind = new.kind
  <2>1. CASE Current(base, kind) = None
    BY <1>3, <1>6, <1>7, <2>1 DEF None
  <2>2. CASE Current(base, kind) # None
    BY <1>3, <1>4, <1>6, <1>7, <2>2 DEF Begins
  <2> QED  BY <2>1, <2>2
<1>11. \A i \in DOMAIN x : i \in 1..Len(rows) \/ x[i] = new
  BY <1>6, <1>7
<1>12. Chained(x)
  <2>1. ASSUME NEW i \in DOMAIN x
        PROVE  /\ x[i].kind \in {"thesis", "execution", "reconciliation"}
               /\ x[i].coverage \in {"complete", "not_applicable", "missing"}
               /\ x[i].at \in Nat /\ x[i].supersedes \in 0..Len(x)
               /\ x[i].supersedes # None => x[x[i].supersedes].kind = x[i].kind
    <3>1. CASE i \in 1..Len(rows)
      BY <1>7, <1>9, <3>1 DEF Chained
    <3>2. CASE x[i] = new
      BY <1>3, <1>10, <3>2
    <3> QED  BY <1>11, <3>1, <3>2
  <2> QED  BY <1>6, <2>1 DEF Chained
<1> QED  BY <1>8, <1>12 DEF x, new

LEMMA ReusedIsChained ==
  ASSUME NEW base, Chained(base), NEW rows, Chained(rows), Begins(base, rows), NEW p,
         p.kind \in {"thesis", "execution", "reconciliation"},
         p.coverage \in {"complete", "not_applicable", "missing"}, NEW at \in Nat
  PROVE  LET x == rows \o _create_or_reuse_review(base, p, at) IN Chained(x) /\ Begins(base, x)
<1> DEFINE new == [kind |-> p.kind, input |-> p.input, coverage |-> p.coverage, at |-> at,
                   supersedes |-> Current(base, p.kind)]
<1>1. PICK S : rows \in Seq(S)
  BY DEF Chained
<1>2. rows \o <<>> = rows
  BY <1>1
<1>3. Chained(rows \o <<new>>) /\ Begins(base, rows \o <<new>>)
  BY ReviewIsChained
<1>4. _create_or_reuse_review(base, p, at) \in {<<>>, <<new>>}
  BY DEF _create_or_reuse_review
<1> HIDE DEF new
<1> QED  BY <1>2, <1>3, <1>4

LEMMA ReviewKeepsChains ==
  ASSUME NEW rows, Chained(rows), NEW r, NEW at \in Nat
  PROVE  Chained(Review(rows, r, at))
<1> DEFINE p == _projections(r, at)
           add(i) == _create_or_reuse_review(rows, p[i], at)
<1>1. \A i \in 1..3 : /\ p[i].kind \in {"thesis", "execution", "reconciliation"}
                      /\ p[i].coverage \in {"complete", "not_applicable", "missing"}
  <2>1. \A thesis, execution :
          /\ _reconciliation_projection(thesis, execution).kind = "reconciliation"
          /\ _reconciliation_projection(thesis, execution).coverage \in {"complete", "missing"}
    BY DEF _reconciliation_projection
  <2>2. /\ _thesis_projection(r).kind = "thesis"
        /\ _thesis_projection(r).coverage \in {"complete", "missing"}
    BY DEF _thesis_projection
  <2>3. /\ _execution_projection(r, at).kind = "execution"
        /\ _execution_projection(r, at).coverage \in {"complete", "not_applicable", "missing"}
    BY DEF _execution_projection
  <2>4. /\ p[1] = _thesis_projection(r) /\ p[2] = _execution_projection(r, at)
        /\ p[3] = _reconciliation_projection(_thesis_projection(r), _execution_projection(r, at))
    BY DEF _projections
  <2> HIDE DEF p
  <2> QED  BY <2>1, <2>2, <2>3, <2>4
<1>2. Begins(rows, rows)
  BY DEF Begins, Chained
<1> HIDE DEF p
<1>3. Chained(rows \o add(1)) /\ Begins(rows, rows \o add(1))
  <2>1. p[1].kind \in {"thesis", "execution", "reconciliation"}
        /\ p[1].coverage \in {"complete", "not_applicable", "missing"}
    BY <1>1
  <2> QED  BY <2>1, <1>2, ReusedIsChained, SMTT(30)
<1>4. Chained((rows \o add(1)) \o add(2)) /\ Begins(rows, (rows \o add(1)) \o add(2))
  <2> DEFINE x == rows \o add(1)
  <2>1. Chained(x) /\ Begins(rows, x)
    BY <1>3
  <2> HIDE DEF x
  <2>2. Chained(x \o add(2)) /\ Begins(rows, x \o add(2))
    BY <1>1, <2>1, ReusedIsChained
  <2> QED  BY <2>2 DEF x
<1>5. Chained(((rows \o add(1)) \o add(2)) \o add(3))
  <2> DEFINE x == (rows \o add(1)) \o add(2)
  <2>1. Chained(x) /\ Begins(rows, x)
    BY <1>4
  <2> HIDE DEF x
  <2>2. Chained(x \o add(3))
    BY <1>1, <2>1, ReusedIsChained
  <2> QED  BY <2>2 DEF x
<1>6. Review(rows, r, at) = ((rows \o add(1)) \o add(2)) \o add(3)
  BY DEF Review, p
<1> QED  BY <1>5, <1>6

ReviewRows ==
  /\ Members = DOMAIN reviews /\ Members \subseteq DOMAIN recs
  /\ \A r \in Members : Chained(reviews[r])

LEMMA RecommendationsStay == Core /\ Slots /\ [Next]_vars => DOMAIN recs \subseteq DOMAIN recs'
<1> SUFFICES ASSUME Core, Slots, [Next]_vars PROVE DOMAIN recs \subseteq DOMAIN recs'
  OBVIOUS
<1>1. ASSUME NEW w \in Workers, StartPass(w) \/ Dies(w) \/ Step(w)
      PROVE  DOMAIN recs' = DOMAIN recs
  BY <1>1 DEF StartPass, Dies, Step, StoreStep, TargetsStep, ForecastsStep, RecommendationsStep,
              PortfolioStep, AssessRead, AssessStore, AssessDone, CheckStep, ReviewStep, ReassessStep,
              resolve_due_recommendations, PaperFact
<1>2. CASE generate_recommendation
  <2>1. CASE UNCHANGED recs
    BY <2>1
  <2>2. CASE \E snapshot \in plan.snapshots : GenerateCheck(snapshot)
    BY <2>2 DEF GenerateCheck
  <2>3. CASE \E o \in plan.offers : GenerateStore(Cardinality(DOMAIN recs) + 1, o)
    BY <2>3 DEF GenerateStore, Inserted
  <2> QED  BY <1>2, <2>1, <2>2, <2>3 DEF generate_recommendation
<1>3. CASE \/ IssueBaselines \/ interpret_due_reviews
           \/ Authorize \/ Deploy \/ RegisterEra \/ Decide \/ Tick \/ UNCHANGED vars
  BY <1>3 DEF IssueBaselines, interpret_due_reviews, Authorize, Deploy, RegisterEra, Decide, Tick, vars
<1> QED  BY <1>1, <1>2, <1>3 DEF Next

LEMMA ReviewRowsStay == Core /\ Slots /\ ReviewRows /\ [Next]_vars => ReviewRows'
<1> SUFFICES ASSUME Core, Slots, ReviewRows, [Next]_vars PROVE ReviewRows'
  OBVIOUS
<1>1. DOMAIN recs \subseteq DOMAIN recs'
  BY RecommendationsStay
<1>2. ASSUME UNCHANGED <<cutoffs, reviews>> PROVE ReviewRows'
  BY <1>1, <1>2 DEF ReviewRows, Members
<1>3. ASSUME NEW w \in Workers, ReviewStep(w) PROVE ReviewRows'
  <2> DEFINE cutoff == pass[w].at
             due == ReviewDue(cutoff)
  <2>1. /\ cutoffs' = [r \in Members \cup due |-> IF r \in due THEN cutoff ELSE cutoffs[r]]
        /\ reviews' = [r \in Members \cup due |->
                         IF r \in due THEN Review(<<>>, r, cutoff) ELSE reviews[r]]
    BY <1>3 DEF ReviewStep, build_due_review_cohort
  <2>2. due \subseteq DOMAIN recs
    BY DEF ReviewDue
  <2>3. cutoff \in Nat
    BY CoreTimes
  <2>4. Chained(<<>>)
    BY DEF Chained
  <2> HIDE DEF due, cutoff
  <2>5. \A r \in Members \cup due : Chained(reviews'[r])
    BY <2>1, <2>3, <2>4, ReviewKeepsChains DEF ReviewRows
  <2>6. Members' = Members \cup due /\ DOMAIN reviews' = Members \cup due
    BY <2>1 DEF Members
  <2> QED  BY <1>1, <2>2, <2>5, <2>6 DEF ReviewRows
<1>4. ASSUME NEW w \in Workers, ReassessStep(w) PROVE ReviewRows'
  <2>1. PICK cutoff \in Range(cutoffs) :
          reviews' = [r \in Members |-> IF r \in Cohort(cutoff) /\ Projectable(r, pass[w].at)
                                        THEN Review(reviews[r], r, pass[w].at) ELSE reviews[r]]
    BY <1>4 DEF ReassessStep, reassess_review_cohort
  <2>2. pass[w].at \in Nat /\ UNCHANGED cutoffs
    BY <1>4, CoreTimes DEF ReassessStep
  <2>3. \A r \in Members : Chained(reviews'[r])
    BY <2>1, <2>2, ReviewKeepsChains DEF ReviewRows
  <2>4. Members' = Members /\ DOMAIN reviews' = Members
    BY <2>1, <2>2 DEF Members
  <2> QED  BY <1>1, <2>3, <2>4 DEF ReviewRows
<1>5. ASSUME NEW w \in Workers, StartPass(w) \/ Dies(w) \/ Step(w), ~ReviewStep(w), ~ReassessStep(w)
      PROVE  UNCHANGED <<cutoffs, reviews>>
  BY <1>5 DEF StartPass, Dies, Step, StoreStep, TargetsStep, ForecastsStep, RecommendationsStep,
              PortfolioStep, AssessRead, AssessStore, AssessDone, CheckStep, postmortems
<1>6. CASE \/ generate_recommendation \/ IssueBaselines \/ interpret_due_reviews
           \/ Authorize \/ Deploy \/ RegisterEra \/ Decide \/ Tick \/ UNCHANGED vars
  <2>1. UNCHANGED <<cutoffs, reviews>>
    BY <1>6 DEF generate_recommendation, IssueBaselines, interpret_due_reviews, Authorize, Deploy, RegisterEra,
                Decide, Tick, postmortems, vars
  <2> QED  BY <1>2, <2>1
<1> QED  BY <1>2, <1>3, <1>4, <1>5, <1>6 DEF Next

\* A member has one attempt, and the hypothesis rests on accepted ones.
AttemptRows ==
  /\ DOMAIN attempts \subseteq Members
  /\ \A r \in DOMAIN attempts : attempts[r].status \in {"accepted", "rejected"} /\ attempts[r].id \in Nat
  /\ hypothesis \subseteq LearningObservation /\ authorized \in BOOLEAN

LEMMA AttemptRowsStay == Core /\ Slots /\ ReviewRows /\ AttemptRows /\ [Next]_vars => AttemptRows'
<1> SUFFICES ASSUME Core, Slots, ReviewRows, AttemptRows, [Next]_vars PROVE AttemptRows'
  OBVIOUS
<1>1. ASSUME UNCHANGED <<attempts, hypothesis>>, Members \subseteq Members', authorized' \in BOOLEAN
      PROVE  AttemptRows'
  BY <1>1 DEF AttemptRows, LearningObservation
<1>2. CASE interpret_due_reviews
  <2>1. PICK r \in Members, status \in {"accepted", "rejected"} : interpret_review_member(r, status)
    BY <1>2 DEF interpret_due_reviews
  <2> DEFINE new == [packet |-> build_rights_cleared_packet(r), status |-> status,
                     id |-> Cardinality(DOMAIN attempts)]
             observed == [s \in LearningObservation' |-> attempts'[s].id]
  <2>2. attempts' = Inserted(attempts, r, new) /\ hypothesis' = _create_candidate_hypothesis(observed)
        /\ UNCHANGED <<cutoffs, authorized>>
    BY <1>2, <2>1 DEF interpret_review_member, interpret_due_reviews
  <2>3. Cardinality(DOMAIN attempts) \in Nat
    <3>1. IsFiniteSet(DOMAIN attempts)
      BY SlotsSuffice, FS_Subset DEF ReviewRows, AttemptRows
    <3> QED  BY <3>1, FS_CardinalityType
  <2>4. new.status = status /\ new.id \in Nat
    BY <2>3
  <2> HIDE DEF new
  <2>5. DOMAIN attempts' = DOMAIN attempts \cup {r} /\ \A s \in DOMAIN attempts' :
          attempts'[s] = IF s \in DOMAIN attempts THEN attempts[s] ELSE new
    BY <2>2 DEF Inserted
  <2>6. LearningObservation \subseteq LearningObservation'
    BY <2>5 DEF LearningObservation
  <2>7. DOMAIN observed = LearningObservation'
    OBVIOUS
  <2> HIDE DEF observed
  <2>8. hypothesis' \subseteq LearningObservation'
    BY <2>2, <2>6, <2>7 DEF _create_candidate_hypothesis, AttemptRows
  <2>9. Members' = Members
    BY <2>2 DEF Members
  <2> QED  BY <2>1, <2>2, <2>4, <2>5, <2>8, <2>9 DEF AttemptRows
<1>3. ASSUME NEW w \in Workers, StartPass(w) \/ Dies(w) \/ Step(w)
      PROVE  AttemptRows'
  <2>1. UNCHANGED <<attempts, hypothesis, authorized>>
    BY <1>3 DEF StartPass, Dies, Step, StoreStep, TargetsStep, ForecastsStep, RecommendationsStep,
                PortfolioStep, AssessRead, AssessStore, AssessDone, CheckStep, ReviewStep, ReassessStep,
                postmortems
  <2>2. Members \subseteq Members'
    BY <1>3 DEF StartPass, Dies, Step, StoreStep, TargetsStep, ForecastsStep, RecommendationsStep,
                PortfolioStep, AssessRead, AssessStore, AssessDone, CheckStep, ReviewStep, ReassessStep,
                postmortems, Members, build_due_review_cohort
  <2> QED  BY <1>1, <2>1, <2>2 DEF AttemptRows
<1>4. CASE \/ generate_recommendation \/ IssueBaselines
           \/ Authorize \/ Deploy \/ RegisterEra \/ Decide \/ Tick \/ UNCHANGED vars
  <2>1. UNCHANGED <<attempts, hypothesis, cutoffs>> /\ (UNCHANGED authorized \/ authorized' = TRUE)
    BY <1>4 DEF generate_recommendation, IssueBaselines, Authorize, authorize_candidate_hypothesis, Deploy,
                RegisterEra, Decide, Tick, postmortems, vars
  <2> QED  BY <1>1, <2>1 DEF AttemptRows, Members
<1> QED  BY <1>2, <1>3, <1>4 DEF Next

-----------------------------------------------------------------------------
(* Types, and the outcomes that every writer agrees on.                       *)

UndercutRows == undercut \subseteq {"assessed", "missing"} \X (1..now)

LEMMA UndercutRowsStay == Core /\ AssessRows /\ UndercutRows /\ [Next]_vars => UndercutRows'
<1> SUFFICES ASSUME Core, AssessRows, UndercutRows, [Next]_vars PROVE UndercutRows'
  OBVIOUS
<1>1. now \in Nat \ {0} /\ 1..now \subseteq 1..now'
  BY NothingIsTakenBack, CoreTimes DEF TimePasses
<1>2. CASE UNCHANGED vars
  BY <1>2 DEF vars, UndercutRows
<1>3. CASE Next
  <2> DEFINE assessed == {x \in CutoffsRead : \E f \in StampedFacts' \ StampedFacts : f[4] \in 1..x}
             missing == {x \in FoundMissing : \E d \in Days : candles[d] = None /\ candles'[d] \in 1..x}
  <2>1. undercut' = undercut \cup {<<"assessed", c>> : c \in assessed} \cup {<<"missing", c>> : c \in missing}
    BY <1>3 DEF Next, Observe
  <2>2. CutoffsRead \subseteq 0..now
    <3>1. \A a \in assessments : a.at \in 1..now
      BY DEF AssessRows, Assessable
    <3>2. ASSUME NEW w \in Workers PROVE pass[w].read.at \in 0..now
      <4>1. CASE pass[w].read = NoRead
        BY <1>1, <4>1 DEF NoRead, None
      <4>2. CASE pass[w].read # NoRead
        BY <4>2 DEF AssessRows, Assessable
      <4> QED  BY <4>1, <4>2
    <3> QED  BY <1>1, <3>1, <3>2 DEF CutoffsRead
  <2>3. FoundMissing \subseteq 0..now
    <3>1. ASSUME NEW t \in DOMAIN targets, targets[t].res.outcome = "missing"
          PROVE  targets[t].res.at \in 0..now
      <4>1. SoundTarget(now, tech, t, targets[t])
        BY DEF Core, TargetRows
      <4>2. targets[t].res \in TargetResolution /\ targets[t].res # NoRes
        BY <3>1, <4>1, TargetFields DEF SoundTarget, NoRes
      <4> QED  BY <1>1, <4>1, <4>2, ResolutionFields DEF SoundTarget
    <3> QED  BY <3>1 DEF FoundMissing
  <2>4. \A x \in 0..now : (\E i : i \in 1..x) => x \in 1..now
    BY <1>1
  <2>5. assessed \subseteq 1..now /\ missing \subseteq 1..now
    BY <2>2, <2>3, <2>4
  <2> HIDE DEF assessed, missing
  <2>6. \A c \in assessed \cup missing : c \in 1..now'
    BY <1>1, <2>5
  <2> QED  BY <1>1, <2>1, <2>6 DEF UndercutRows
<1> QED  BY <1>2, <1>3

Rows ==
  /\ Core /\ LegacyRows /\ Slots /\ AssessRows /\ DecisionRows
  /\ ReviewRows /\ AttemptRows /\ UndercutRows

LEMMA InitRows == Init => Rows
<1> SUFFICES ASSUME Init PROVE Rows
  OBVIOUS
<1>1. Core
  BY InitCore
<1>2. SoundPlan(plan) /\ SoundStart(plan.start)
  BY PlanIsSound DEF Init, SoundPlan
<1>3. LegacyRows /\ DecisionRows /\ UndercutRows
  BY DEF Init, LegacyRows, DecisionRows, UndercutRows
<1>4. AssessRows
  BY DEF Init, AssessRows, NoPass
<1>5. ReviewRows
  BY DEF Init, ReviewRows, Members
<1>6. AttemptRows
  BY <1>2 DEF Init, AttemptRows, SoundStart
<1>7. Slots
  <2> DEFINE k == Cardinality(DOMAIN plan.start.recs)
  <2>1. /\ DOMAIN recs = 1..k /\ k \in Nat /\ gen = plan.start.gen
        /\ spent = [passes |-> 0, gens |-> 0] /\ plan.gens \in Nat
    BY <1>2 DEF Init, SoundPlan
  <2>2. Flying(gen) \in 0..1
    BY DEF Flying
  <2> HIDE DEF k
  <2>3. k + Flying(gen) <= k + Flying(plan.start.gen) + spent.gens
    BY <2>1, <2>2
  <2> QED  BY <2>1, <2>3 DEF Slots, k
<1> QED  BY <1>1, <1>3, <1>4, <1>5, <1>6, <1>7 DEF Rows

LEMMA NextRows == Rows /\ [Next]_vars => Rows'
<1> SUFFICES ASSUME Rows, [Next]_vars PROVE Rows'
  OBVIOUS
<1>1. Core'
  BY NextCore DEF Rows
<1>2. LegacyRows' /\ Slots' /\ AssessRows' /\ DecisionRows'
  BY <1>1, LegacyStays, SlotsStay, AssessRowsStay, DecisionRowsStay DEF Rows
<1>3. ReviewRows' /\ AttemptRows' /\ UndercutRows'
  BY ReviewRowsStay, AttemptRowsStay, UndercutRowsStay DEF Rows
<1> QED  BY <1>1, <1>2, <1>3 DEF Rows

LEMMA RowsHold == Spec => []Rows
  BY InitRows, NextRows, PTL DEF Spec

LEMMA RowsAreTyped == Rows => TypeOK
<1> SUFFICES ASSUME Rows PROVE TypeOK
  OBVIOUS
<1>1. Core
  BY DEF Rows
<1>2. /\ now \in Nat \ {0} /\ now \in 1..plan.until
      /\ candles \in [Days -> 0..now] /\ tech \in [Days -> Seq(1..now)]
      /\ Policy \in EvaluationPolicy /\ config \in Configs
  <2>1. plan.until \in Nat
    BY PlanIsSound DEF Core, Clocks, SoundPlan, Rows
  <2> QED  BY <1>1, <2>1, ForecastsAssumption DEF Core, Clocks, Market, SoundMarket
<1>3. ASSUME NEW t \in DOMAIN targets
      PROVE  t[1] \in Days /\ t[2] \in DOMAIN tech[t[1]] /\ targets[t] \in TargetOccurrence
  BY <1>1 DEF Core, TargetRows, SoundTarget
<1>4. \A t \in DOMAIN legacy : legacy[t] \in ForecastResolution
  BY DEF Rows, LegacyRows
<1>5. Range(eras) \subseteq ExperimentEra
  <2> DEFINE Row == [kind : {"champion", "challenger"}, method : ForecastMethodIdentity,
                     policy : {c.policy : c \in Configs}, starts : Nat, supersedes : Nat, champion : Nat]
  <2>1. eras \in Seq(Row) /\ \A e \in DOMAIN eras : SoundEra(eras, e)
    BY <1>1 DEF Core, SoundEras
  <2>2. ASSUME NEW e \in DOMAIN eras PROVE eras[e] \in ExperimentEra
    <3>1. eras[e] \in Row /\ SoundEra(eras, e)
      <4> HIDE DEF Row
      <4> QED  BY <2>1, ElementOfSeq, LenProperties
    <3>2. /\ eras[e].kind = "challenger" <=> eras[e].champion # None
          /\ eras[e].champion # None => eras[e].champion \in EraIds
                                        /\ eras[eras[e].champion].kind = "champion"
          /\ eras[e].supersedes # None => eras[e].supersedes \in EraIds
                                          /\ eras[eras[e].supersedes].kind = eras[e].kind
      BY <3>1 DEF SoundEra, EraIds
    <3>3. eras[e] \in [kind : {"champion", "challenger"}, method : ForecastMethodIdentity,
                       policy : {c.policy : c \in Configs}, starts : Nat,
                       supersedes : EraIds \cup {None}, champion : EraIds \cup {None}]
      BY <3>1, <3>2
    <3> QED  BY <3>2, <3>3 DEF ExperimentEra
  <2> QED  BY <2>2 DEF Range
<1>6. DOMAIN recs \subseteq Recs
  BY SlotsSuffice DEF Rows
<1>7. ASSUME NEW r \in DOMAIN recs
      PROVE  recs[r] \in Recommendation /\ recs[r].eras \subseteq ExperimentSample(r)
  <2>1. SoundRecommendation(now, targets, eras, recs[r])
    BY <1>1 DEF Core, RecRows
  <2>2. recs[r] \in Recommendation
    BY <1>2, <2>1 DEF SoundRecommendation, Recommendation, EraIds
  <2>3. recs[r].eras \subseteq ExperimentSample(r)
    BY <2>1 DEF SoundRecommendation, InEra, ExperimentSample, EraIds
  <2> QED  BY <2>2, <2>3
<1>8. assessments = ExperimentAssessment /\ failed \subseteq EraIds \X (1..now)
  BY DEF Rows, AssessRows, Assessable, ExperimentAssessment
<1>9. deciding \cup decisions \subseteq PromotionRecord
  BY DEF Rows, DecisionRows, PromotionRecord
<1>10. Members = DOMAIN reviews /\ DOMAIN attempts \subseteq Members
  BY DEF Rows, ReviewRows, AttemptRows
<1>11. ASSUME NEW r \in Members, NEW i \in DOMAIN reviews[r]
       PROVE  Restrict(reviews[r][i], {"kind", "coverage", "at", "supersedes"}) \in DeterministicReview(r)
  <2> DEFINE v == reviews[r][i]
             x == Restrict(v, {"kind", "coverage", "at", "supersedes"})
  <2>1. /\ v.kind \in {"thesis", "execution", "reconciliation"}
        /\ v.coverage \in {"complete", "not_applicable", "missing"}
        /\ v.at \in Nat /\ v.supersedes \in 0..Len(reviews[r])
        /\ v.supersedes # None => reviews[r][v.supersedes].kind = v.kind
    BY DEF Rows, ReviewRows, Chained
  <2>2. x = [kind |-> v.kind, coverage |-> v.coverage, at |-> v.at, supersedes |-> v.supersedes]
    <3> HIDE DEF v
    <3> QED  BY DEF Restrict
  <2> HIDE DEF v, x
  <2> QED  BY <2>1, <2>2 DEF DeterministicReview, x, v
<1>12. ASSUME NEW r \in DOMAIN attempts
       PROVE  Restrict(attempts[r], {"status", "id"}) \in InterpretationAttempt
  <2> DEFINE v == attempts[r]
             x == Restrict(v, {"status", "id"})
  <2>1. v.status \in {"accepted", "rejected"} /\ v.id \in Nat
    BY DEF Rows, AttemptRows
  <2>2. x = [status |-> v.status, id |-> v.id]
    <3> HIDE DEF v
    <3> QED  BY DEF Restrict
  <2> HIDE DEF v, x
  <2> QED  BY <2>1, <2>2 DEF InterpretationAttempt, x, v
<1>13. /\ hypothesis \subseteq LearningObservation /\ authorized \in BOOLEAN
       /\ undercut \subseteq {"assessed", "missing"} \X (1..now)
  BY DEF Rows, AttemptRows, UndercutRows
<1> QED  BY <1>2, <1>3, <1>4, <1>5, <1>6, <1>7, <1>8, <1>9, <1>10, <1>11, <1>12, <1>13 DEF TypeOK

\* Rows keep the shapes of their classes, services and triggers compute the
\* same endpoint and outcome, predictions carry the outcome of their target
\* and no baseline is scored before its horizon (targets.resolve_target,
\* targets.derive_resolution, services.resolve_forecast).
THEOREM EveryWriterAgrees == Spec => []OutcomesAgree
<1>1. Rows => TypeOK
  BY RowsAreTyped
<1>2. Rows => LegacyNeverEarly
  BY DEF Rows, Core, LegacyRows, TargetRows, SoundTarget, LegacyNeverEarly
<1>3. Rows => TypeOK /\ LegacyNeverEarly
  BY <1>1, <1>2
<1>4. Spec => [](TypeOK /\ LegacyNeverEarly)
  BY <1>3, RowsHold, PTL
<1> QED  BY <1>4, TriggersNeverFire, PredictionsShareOutcomes, PTL DEF OutcomesAgree

-----------------------------------------------------------------------------
(* What is reported: a step only adds to what reports are computed from.      *)

CandlesKeep == \A d \in Days : candles[d] # None => candles'[d] = candles[d]

\* Nothing stored is taken back or rewritten, and no step stores a candle and
\* an outcome together.
LEMMA NothingIsRewritten ==
  Core /\ [Next]_vars =>
    TargetsKeep /\ TargetsSettle /\ RecsKeep /\ CandlesKeep /\ (UNCHANGED candles \/ UNCHANGED targets)
<1> SUFFICES ASSUME Core, [Next]_vars
             PROVE  /\ TargetsKeep /\ TargetsSettle /\ RecsKeep /\ CandlesKeep
                    /\ UNCHANGED candles \/ UNCHANGED targets
  OBVIOUS
<1>1. CASE UNCHANGED <<candles, targets, recs>>
  BY <1>1, UnchangedKeeps DEF CandlesKeep
<1>2. ASSUME NEW w \in Workers, StoreStep(w)
      PROVE  UNCHANGED <<targets, recs>> /\ CandlesKeep
  <2>1. PICK B \in SUBSET {d \in plan.arrivals : candles[d] = None} : store_ingestion(B, pass[w].at)
    BY <1>2 DEF StoreStep
  <2>2. CandlesKeep
    BY <2>1 DEF store_ingestion, CandlesKeep
  <2> QED  BY <1>2, <2>2 DEF StoreStep
<1>3. ASSUME NEW w \in Workers, TargetsStep(w)
      PROVE  UNCHANGED <<candles, recs>> /\ TargetsKeep /\ TargetsSettle
  <2>1. UNCHANGED <<now, market, recs>> /\ reconcile_targets(pass[w].at)
    BY <1>3 DEF TargetsStep
  <2>2. pass[w].at \in 0..now
    BY CoreTimes
  <2> QED  BY <2>1, <2>2, ReconcilingIsSound DEF Core, market
<1>4. ASSUME NEW w \in Workers, ForecastsStep(w)
      PROVE  UNCHANGED <<candles, recs>> /\ TargetsKeep /\ TargetsSettle
  <2>1. UNCHANGED <<now, market, recs>> /\ resolve_due_forecasts
    BY <1>4 DEF ForecastsStep
  <2> QED  BY <2>1, ForecastsAreSound DEF Core, market
<1>5. ASSUME NEW w \in Workers, RecommendationsStep(w)
      PROVE  UNCHANGED candles /\ TargetsKeep /\ TargetsSettle /\ RecsKeep
  <2>1. UNCHANGED <<now, market, eras>> /\ resolve_due_recommendations
    BY <1>5 DEF RecommendationsStep, experiments
  <2> QED  BY <2>1, RecommendationsAreSound DEF Core, market
<1>6. ASSUME NEW w \in Workers, PortfolioStep(w)
      PROVE  UNCHANGED <<candles, targets>> /\ RecsKeep
  <2>1. UNCHANGED <<now, market, targets, eras>>
    BY <1>6 DEF PortfolioStep, experiments
  <2>2. CASE UNCHANGED recs
    BY <2>1, <2>2, UnchangedKeeps DEF market
  <2>3. CASE \E r \in DOMAIN recs, kind \in plan.terminals : PaperFact(r, kind, pass[w].at)
    <3>1. PICK r \in DOMAIN recs, kind \in plan.terminals : PaperFact(r, kind, pass[w].at)
      BY <2>3
    <3>2. kind \in {"target_hit", "missing_data"} /\ pass[w].at \in Nat
      BY CoreTimes, PlanIsSound DEF SoundPlan, Clocks, Core
    <3> QED  BY <2>1, <3>1, <3>2, FactIsSound DEF Core, market
  <2> QED  BY <1>6, <2>2, <2>3 DEF PortfolioStep
<1>7. CASE generate_recommendation
  <2>1. UNCHANGED <<now, market, targets, eras, config>>
    BY <1>7 DEF generate_recommendation
  <2>2. CASE UNCHANGED recs
    BY <1>1, <2>1, <2>2 DEF market
  <2>3. CASE \E snapshot \in plan.snapshots : GenerateCheck(snapshot)
    <3>1. RecsKeep
      BY <2>1, <2>3, CheckedIsSound DEF Core, Clocks
    <3> QED  BY <2>1, <3>1, UnchangedKeeps DEF market, CandlesKeep
  <2>4. CASE \E o \in plan.offers : GenerateStore(Cardinality(DOMAIN recs) + 1, o)
    <3>1. RecsKeep
      BY <2>1, <2>4, StoredIsSound DEF Core, Clocks
    <3> QED  BY <2>1, <3>1, UnchangedKeeps DEF market, CandlesKeep
  <2> QED  BY <1>7, <2>2, <2>3, <2>4 DEF generate_recommendation
<1>8. ASSUME NEW w \in Workers,
             \/ StartPass(w) \/ Dies(w) \/ AssessRead(w) \/ AssessStore(w) \/ AssessDone(w)
             \/ CheckStep(w) \/ ReviewStep(w) \/ ReassessStep(w)
      PROVE  UNCHANGED <<candles, targets, recs>>
  BY <1>8 DEF StartPass, Dies, AssessRead, AssessStore, AssessDone, CheckStep, ReviewStep, ReassessStep, market
<1>9. CASE \E w \in Workers : StartPass(w) \/ Dies(w) \/ Step(w)
  BY <1>1, <1>2, <1>3, <1>4, <1>5, <1>6, <1>8, <1>9, UnchangedKeeps DEF Step, CandlesKeep
<1>10. CASE \/ IssueBaselines \/ interpret_due_reviews \/ Authorize \/ Deploy \/ RegisterEra \/ Decide
            \/ Tick \/ UNCHANGED vars
  <2>1. UNCHANGED <<candles, targets, recs>>
    BY <1>10 DEF IssueBaselines, interpret_due_reviews, Authorize, Deploy, RegisterEra, Decide, Tick, vars, market
  <2> QED  BY <1>1, <2>1
<1> QED  BY <1>7, <1>9, <1>10 DEF Next

-----------------------------------------------------------------------------
(* The hypothesis rests on distinct issuances.                                *)

\* Attempts are numbered in the order of insertion.
AttemptIds ==
  /\ \A r \in DOMAIN attempts : attempts[r].id < Cardinality(DOMAIN attempts)
  /\ \A r, s \in DOMAIN attempts : attempts[r].id = attempts[s].id => r = s

LEMMA DistinctIssuances ==
  ASSUME NEW Q, IsFiniteSet(Q), \A r, s \in Q : recs[r].at = recs[s].at => r = s
  PROVE  Cardinality({recs[r].at : r \in Q}) = Cardinality(Q)
<1> DEFINE T == {recs[r].at : r \in Q}
           f == [r \in Q |-> recs[r].at]
<1>1. f \in Surjection(Q, T)
  BY DEF Surjection
<1>2. f \in Injection(Q, T)
  BY DEF Injection, IsInjective
<1> HIDE DEF f, T
<1>3. Cardinality(T) = Cardinality(Q)
  BY <1>1, <1>2, FS_Surjection
<1> QED  BY <1>3 DEF T

\* Of the members observed, the first of each issuance qualify.
LEMMA QualifyingAreDistinct ==
  ASSUME NEW observed, IsFiniteSet(DOMAIN observed), \A r \in DOMAIN observed : observed[r] \in Nat,
         \A r, s \in DOMAIN observed : observed[r] = observed[s] => r = s,
         hypothesis = {}, _create_candidate_hypothesis(observed) # {}
  PROVE  LET H == _create_candidate_hypothesis(observed)
         IN H \subseteq DOMAIN observed /\ Cardinality({recs[r].at : r \in H}) >= MinClusters
<1> DEFINE first(r) == \A s \in DOMAIN observed : recs[s].at = recs[r].at => observed[s] >= observed[r]
           Q == {r \in DOMAIN observed : first(r)}
<1>1. /\ _create_candidate_hypothesis(observed) = Q
      /\ ~(Cardinality(Q) < MinClusters)
  BY DEF _create_candidate_hypothesis
<1>2. \A r, s \in Q : recs[r].at = recs[s].at => r = s
  <2> TAKE r, s \in Q
  <2> HAVE recs[r].at = recs[s].at
  <2>1. observed[r] >= observed[s] /\ observed[s] >= observed[r]
    OBVIOUS
  <2>2. r \in DOMAIN observed /\ s \in DOMAIN observed
    OBVIOUS
  <2> QED  BY <2>1, <2>2
<1>3. Q \subseteq DOMAIN observed
  OBVIOUS
<1> HIDE DEF Q
<1>4. IsFiniteSet(Q) /\ Cardinality(Q) \in Nat
  BY <1>3, FS_Subset, FS_CardinalityType
<1>5. Cardinality({recs[r].at : r \in Q}) = Cardinality(Q)
  BY <1>2, <1>4, DistinctIssuances
<1>6. MinClusters \in Nat
  BY ForecastsAssumption
<1> QED  BY <1>1, <1>3, <1>4, <1>5, <1>6

LEMMA HypothesisStays ==
  Rows /\ AttemptIds /\ HypothesisSpansClusters /\ [Next]_vars
    => AttemptIds' /\ HypothesisSpansClusters'
<1> SUFFICES ASSUME Rows, AttemptIds, HypothesisSpansClusters, [Next]_vars
             PROVE  AttemptIds' /\ HypothesisSpansClusters'
  OBVIOUS
<1>1. RecsKeep /\ IsFiniteSet(DOMAIN recs)
  BY NothingIsRewritten, SlotsSuffice DEF Rows
<1>2. /\ hypothesis \subseteq DOMAIN attempts /\ DOMAIN attempts \subseteq DOMAIN recs
      /\ \A r \in hypothesis : attempts[r].status = "accepted"
      /\ \A r \in DOMAIN attempts : attempts[r].id \in Nat
      /\ hypothesis # {} => Cardinality({recs[r].at : r \in hypothesis}) >= MinClusters
  BY DEF Rows, AttemptRows, ReviewRows, LearningObservation, HypothesisSpansClusters
<1>3. {recs'[r].at : r \in hypothesis} = {recs[r].at : r \in hypothesis}
  BY <1>1, <1>2 DEF RecsKeep, Kept
<1>4. CASE UNCHANGED <<attempts, hypothesis>>
  BY <1>2, <1>3, <1>4 DEF AttemptIds, HypothesisSpansClusters
<1>5. CASE interpret_due_reviews
  <2>1. PICK r \in Members, status \in {"accepted", "rejected"} : interpret_review_member(r, status)
    BY <1>5 DEF interpret_due_reviews
  <2> DEFINE n == Cardinality(DOMAIN attempts)
             new == [packet |-> build_rights_cleared_packet(r), status |-> status, id |-> n]
             observed == [s \in LearningObservation' |-> attempts'[s].id]
  <2>2. attempts' = Inserted(attempts, r, new) /\ hypothesis' = _create_candidate_hypothesis(observed)
        /\ UNCHANGED recs
    BY <1>5, <2>1 DEF interpret_review_member, interpret_due_reviews
  <2>3. IsFiniteSet(DOMAIN attempts) /\ n \in Nat
    BY <1>1, <1>2, FS_Subset, FS_CardinalityType
  <2>4. new.id = n
    OBVIOUS
  <2> HIDE DEF new
  <2>5. DOMAIN attempts' = DOMAIN attempts \cup {r} /\ \A s \in DOMAIN attempts' :
          attempts'[s] = IF s \in DOMAIN attempts THEN attempts[s] ELSE new
    BY <2>2 DEF Inserted
  <2>6. /\ IsFiniteSet(DOMAIN attempts')
        /\ Cardinality(DOMAIN attempts') = IF r \in DOMAIN attempts THEN n ELSE n + 1
    BY <2>3, <2>5, FS_AddElement
  <2>7. \A s \in DOMAIN attempts : attempts[s].id \in Nat /\ attempts[s].id < n
    BY <1>2 DEF AttemptIds
  <2> HIDE DEF n
  <2>8. \A s \in DOMAIN attempts' : attempts'[s].id \in Nat /\ attempts'[s].id < Cardinality(DOMAIN attempts')
    BY <2>3, <2>4, <2>5, <2>6, <2>7
  <2>9. \A s, q \in DOMAIN attempts' : attempts'[s].id = attempts'[q].id => s = q
    <3> TAKE s, q \in DOMAIN attempts'
    <3>1. CASE s \in DOMAIN attempts /\ q \in DOMAIN attempts
      BY <2>5, <3>1 DEF AttemptIds
    <3>2. CASE s \in DOMAIN attempts /\ q \notin DOMAIN attempts
      BY <2>3, <2>4, <2>5, <2>7, <3>2
    <3>3. CASE s \notin DOMAIN attempts /\ q \in DOMAIN attempts
      BY <2>3, <2>4, <2>5, <2>7, <3>3
    <3>4. CASE s \notin DOMAIN attempts /\ q \notin DOMAIN attempts
      BY <2>5, <3>4
    <3> QED  BY <3>1, <3>2, <3>3, <3>4
  <2>10. AttemptIds'
    BY <2>8, <2>9 DEF AttemptIds
  <2>11. HypothesisSpansClusters'
    <3>1. CASE hypothesis # {}
      <4>1. hypothesis' = hypothesis
        BY <2>2, <3>1 DEF _create_candidate_hypothesis
      <4> QED  BY <1>2, <2>2, <2>5, <3>1, <4>1 DEF HypothesisSpansClusters
    <3>2. CASE hypothesis = {} /\ hypothesis' # {}
      <4>1. LearningObservation' \subseteq DOMAIN attempts'
            /\ \A s \in LearningObservation' : attempts'[s].status = "accepted"
        BY DEF LearningObservation
      <4>2. DOMAIN observed = LearningObservation' /\ \A s \in DOMAIN observed : observed[s] = attempts'[s].id
        OBVIOUS
      <4> HIDE DEF observed
      <4>3. IsFiniteSet(DOMAIN observed)
        BY <2>6, <4>1, <4>2, FS_Subset
      <4>4. /\ hypothesis' \subseteq DOMAIN observed
            /\ Cardinality({recs[s].at : s \in hypothesis'}) >= MinClusters
        BY <2>2, <2>8, <2>9, <3>2, <4>1, <4>2, <4>3, QualifyingAreDistinct
      <4> QED  BY <2>2, <4>1, <4>2, <4>4 DEF HypothesisSpansClusters
    <3>3. CASE hypothesis' = {}
      BY <3>3 DEF HypothesisSpansClusters
    <3> QED  BY <3>1, <3>2, <3>3
  <2> QED  BY <2>10, <2>11
<1>6. ASSUME NEW w \in Workers, StartPass(w) \/ Dies(w) \/ Step(w)
      PROVE  UNCHANGED <<attempts, hypothesis>>
  BY <1>6 DEF StartPass, Dies, Step, StoreStep, TargetsStep, ForecastsStep, RecommendationsStep,
              PortfolioStep, AssessRead, AssessStore, AssessDone, CheckStep, ReviewStep, ReassessStep, postmortems
<1>7. CASE \/ generate_recommendation \/ IssueBaselines
           \/ Authorize \/ Deploy \/ RegisterEra \/ Decide \/ Tick \/ UNCHANGED vars
  <2>1. UNCHANGED <<attempts, hypothesis>>
    BY <1>7 DEF generate_recommendation, IssueBaselines, Authorize, Deploy, RegisterEra, Decide, Tick,
                postmortems, vars
  <2> QED  BY <1>4, <2>1
<1> QED  BY <1>4, <1>5, <1>6, <1>7 DEF Next

-----------------------------------------------------------------------------
(* Reviews follow the facts.                                                  *)

\* An execution review saw no more facts than lie under its time.
Observed(r, v) ==
  /\ v.at \in Nat
  /\ v.input = <<recs[r].facts[1].kind, v.input[2]>>
  /\ v.input[2] \in Nat /\ v.input[2] <= Cardinality(Facts(r, v.at))

\* No two execution reviews of a member saw the same.
Distinct(rows) ==
  \A i, j \in DOMAIN rows :
    rows[i].kind = "execution" /\ rows[j].kind = "execution" /\ rows[i].input = rows[j].input => i = j

Executions(rows, r) ==
  /\ \A i \in DOMAIN rows : rows[i].kind = "execution" => Observed(r, rows[i])
  /\ Distinct(rows)

ReviewsCount ==
  \A r \in Members : recs[r].facts # <<>> /\ Executions(reviews[r], r)

\* The facts of a recommendation under a time.
LEMMA StampsAreFinite ==
  ASSUME NEW S, NEW s \in Seq(S), NEW at
  PROVE  LET F == {i \in DOMAIN s : s[i].at <= at}
         IN IsFiniteSet(F) /\ Cardinality(F) \in Nat /\ (F # {} => s # <<>>)
<1> DEFINE F == {i \in DOMAIN s : s[i].at <= at}
<1>1. F \subseteq 1..Len(s) /\ Len(s) \in Nat /\ (s = <<>> => F = {})
  OBVIOUS
<1>2. IsFiniteSet(1..Len(s))
  BY <1>1, FS_Interval
<1> HIDE DEF F
<1>3. IsFiniteSet(F) /\ Cardinality(F) \in Nat
  BY <1>1, <1>2, FS_Subset, FS_CardinalityType
<1> QED  BY <1>1, <1>3 DEF F

LEMMA FactsAreFinite ==
  ASSUME Core, NEW r \in DOMAIN recs, NEW at
  PROVE  /\ IsFiniteSet(Facts(r, at)) /\ Cardinality(Facts(r, at)) \in Nat
         /\ Facts(r, at) # {} => recs[r].facts # <<>>
         /\ recs[r].facts \in Seq(PaperFacts)
<1>1. recs[r].facts \in Seq(PaperFacts)
  BY RecommendationFields DEF Core, RecRows
<1> HIDE DEF PaperFacts
<1> QED  BY <1>1, StampsAreFinite DEF Facts

LEMMA LaterFactsAreFinite ==
  ASSUME Core', RecsKeep, NEW r \in DOMAIN recs, NEW at
  PROVE  IsFiniteSet(Facts(r, at)') /\ Cardinality(Facts(r, at)') \in Nat
<1>1. r \in DOMAIN recs'
  BY DEF RecsKeep
<1>2. recs'[r].facts \in Seq(PaperFacts)
  BY <1>1, RecommendationFields DEF Core, RecRows
<1> HIDE DEF PaperFacts
<1> QED  BY <1>2, StampsAreFinite DEF Facts

LEMMA FactsGrow ==
  ASSUME Core, Core', RecsKeep, NEW r \in DOMAIN recs, NEW at
  PROVE  /\ Cardinality(Facts(r, at)) <= Cardinality(Facts(r, at)')
         /\ recs[r].facts # <<>> => recs'[r].facts # <<>> /\ recs'[r].facts[1] = recs[r].facts[1]
         /\ \A i \in DOMAIN recs[r].facts : i \in DOMAIN recs'[r].facts /\ recs'[r].facts[i] = recs[r].facts[i]
<1> DEFINE s == recs[r].facts
           t == recs'[r].facts
<1>1. s \in Seq(PaperFacts) /\ Adds(s, t)
  BY FactsAreFinite DEF RecsKeep, Kept
<1> HIDE DEF PaperFacts
<1>2. \A i \in DOMAIN s : i \in DOMAIN t /\ t[i] = s[i]
  <2> HIDE DEF s, t
  <2> QED  BY <1>1 DEF Adds
<1>3. s # <<>> => 1 \in DOMAIN s
  <2> HIDE DEF s
  <2> QED  BY <1>1
<1>4. s # <<>> => t # <<>> /\ t[1] = s[1]
  BY <1>2, <1>3
<1>5. Facts(r, at) \subseteq Facts(r, at)'
  BY <1>2 DEF Facts
<1>6. IsFiniteSet(Facts(r, at)')
  BY LaterFactsAreFinite
<1>7. Cardinality(Facts(r, at)) <= Cardinality(Facts(r, at)')
  BY <1>5, <1>6, FS_Subset
<1> QED  BY <1>2, <1>4, <1>7

LEMMA ObservedStays ==
  ASSUME Core, Core', RecsKeep, NEW r \in DOMAIN recs, recs[r].facts # <<>>, NEW v, Observed(r, v)
  PROVE  Observed(r, v)'
<1> DEFINE n == Cardinality(Facts(r, v.at))
           m == Cardinality(Facts(r, v.at)')
<1>1. n <= m /\ recs'[r].facts[1] = recs[r].facts[1] /\ n \in Nat
  BY FactsGrow, FactsAreFinite
<1>2. m \in Nat
  BY LaterFactsAreFinite
<1>3. /\ v.at \in Nat /\ v.input = <<recs[r].facts[1].kind, v.input[2]>>
      /\ v.input[2] \in Nat /\ v.input[2] <= n
  BY DEF Observed
<1>4. v.input[2] <= m
  <2> HIDE DEF n, m
  <2> QED  BY <1>1, <1>2, <1>3
<1> QED  BY <1>1, <1>3, <1>4 DEF Observed

\* What a review adds to a member's reviews keeps them observed and distinct.
Plain(base, rows) == \A i \in DOMAIN rows : i > Len(base) => rows[i].kind # "execution"
Continues(r, base, rows) ==
  /\ \E S : base \in Seq(S) /\ rows \in Seq(S)
  /\ Begins(base, rows) /\ Executions(rows, r)

LEMMA ReviewContinues ==
  ASSUME NEW r, NEW base, NEW rows, Continues(r, base, rows), NEW new,
         new.kind = "execution" =>
           /\ Plain(base, rows) /\ Observed(r, new)
           /\ \A i \in DOMAIN base : rows[i].kind = "execution" => rows[i].input # new.input
  PROVE  LET x == rows \o <<new>>
         IN Continues(r, base, x) /\ (Plain(base, rows) /\ new.kind # "execution" => Plain(base, x))
<1> DEFINE x == rows \o <<new>>
           n == Len(rows)
<1>1. PICK S : base \in Seq(S) /\ rows \in Seq(S)
  BY DEF Continues
<1>2. Begins(base, rows) /\ Executions(rows, r)
  BY DEF Continues
<1>3. base \in Seq(S \cup {new}) /\ rows \in Seq(S \cup {new}) /\ <<new>> \in Seq(S \cup {new})
  BY <1>1, SeqMonotonic
<1>4. /\ x \in Seq(S \cup {new}) /\ DOMAIN x = 1..(n + 1) /\ n \in Nat /\ Len(x) = n + 1
      /\ DOMAIN rows = 1..n /\ DOMAIN base = 1..Len(base) /\ Len(base) \in Nat /\ Len(base) <= n
      /\ x[n + 1] = new /\ \A i \in 1..n : x[i] = rows[i]
  BY <1>2, <1>3 DEF Begins
<1> HIDE DEF x, n
<1>5. \A i \in DOMAIN x : i \in DOMAIN rows \/ i = n + 1
  BY <1>4
<1>6. Begins(base, x)
  BY <1>2, <1>4 DEF Begins, n
<1>7. \A i \in DOMAIN x : x[i].kind = "execution" => Observed(r, x[i])
  <2> TAKE i \in DOMAIN x
  <2>1. CASE i \in DOMAIN rows
    BY <1>2, <1>4, <2>1 DEF Executions
  <2>2. CASE i = n + 1
    BY <1>4, <2>2
  <2> QED  BY <1>5, <2>1, <2>2
<1>8. ASSUME NEW i \in DOMAIN rows, rows[i].kind = "execution", new.kind = "execution"
      PROVE  rows[i].input # new.input
  <2>1. i \in DOMAIN base
    BY <1>4, <1>8 DEF Plain
  <2> QED  BY <1>8, <2>1
<1>9. Distinct(x)
  <2>1. ASSUME NEW i \in DOMAIN x, NEW j \in DOMAIN x, x[i].kind = "execution", x[j].kind = "execution",
               x[i].input = x[j].input
        PROVE  i = j
    <3>1. CASE i \in DOMAIN rows /\ j \in DOMAIN rows
      <4>1. x[i] = rows[i] /\ x[j] = rows[j]
        BY <1>4, <3>1
      <4> QED  BY <1>2, <2>1, <3>1, <4>1 DEF Executions, Distinct
    <3>2. CASE i \in DOMAIN rows /\ j = n + 1
      BY <1>4, <1>8, <2>1, <3>2
    <3>3. CASE i = n + 1 /\ j \in DOMAIN rows
      BY <1>4, <1>8, <2>1, <3>3
    <3>4. CASE i = n + 1 /\ j = n + 1
      BY <3>4
    <3> QED  BY <1>5, <2>1, <3>1, <3>2, <3>3, <3>4
  <2> QED  BY <2>1 DEF Distinct
<1>10. Continues(r, base, x)
  BY <1>3, <1>4, <1>6, <1>7, <1>9 DEF Continues, Executions
<1>11. ASSUME Plain(base, rows), new.kind # "execution" PROVE Plain(base, x)
  <2>1. ASSUME NEW i \in DOMAIN x, i > Len(base) PROVE x[i].kind # "execution"
    <3>1. CASE i \in DOMAIN rows
      BY <1>4, <1>11, <2>1, <3>1 DEF Plain
    <3>2. CASE i = n + 1
      BY <1>4, <1>11, <3>2
    <3> QED  BY <1>5, <3>1, <3>2
  <2> QED  BY <2>1 DEF Plain
<1> QED  BY <1>10, <1>11 DEF x

LEMMA ReusedContinues ==
  ASSUME NEW r, NEW base, NEW rows, Continues(r, base, rows), NEW p, NEW at \in Nat,
         p.kind = "execution" =>
           /\ Plain(base, rows) /\ p.input = <<recs[r].facts[1].kind, p.input[2]>>
           /\ p.input[2] \in Nat /\ p.input[2] <= Cardinality(Facts(r, at))
  PROVE  LET x == rows \o _create_or_reuse_review(base, p, at)
         IN Continues(r, base, x) /\ (Plain(base, rows) /\ p.kind # "execution" => Plain(base, x))
<1> DEFINE new == [kind |-> p.kind, input |-> p.input, coverage |-> p.coverage, at |-> at,
                   supersedes |-> Current(base, p.kind)]
           known == \E i \in DOMAIN base : base[i].kind = p.kind /\ base[i].input = p.input
<1>1. _create_or_reuse_review(base, p, at) = IF known THEN <<>> ELSE <<new>>
  BY DEF _create_or_reuse_review
<1>2. rows \o <<>> = rows
  BY DEF Continues
<1>3. new.kind = p.kind /\ new.input = p.input /\ new.at = at
  OBVIOUS
<1> HIDE DEF new
<1>4. CASE known
  BY <1>1, <1>2, <1>4
<1>5. CASE ~known
  <2>1. ASSUME p.kind = "execution" PROVE Observed(r, new)
    BY <1>3, <2>1 DEF Observed
  <2>2. \A i \in DOMAIN base : rows[i] = base[i]
    BY DEF Continues, Begins
  <2>3. ASSUME p.kind = "execution", NEW i \in DOMAIN base, rows[i].kind = "execution"
        PROVE  rows[i].input # new.input
    BY <1>3, <1>5, <2>2, <2>3
  <2>4. LET x == rows \o <<new>>
        IN Continues(r, base, x) /\ (Plain(base, rows) /\ new.kind # "execution" => Plain(base, x))
    BY <1>3, <2>1, <2>3, ReviewContinues
  <2> QED  BY <1>1, <1>3, <1>5, <2>4
<1> QED  BY <1>4, <1>5

LEMMA ReviewObserves ==
  ASSUME Core, NEW r \in DOMAIN recs, NEW rows, Chained(rows), Executions(rows, r), NEW at \in Nat
  PROVE  Executions(Review(rows, r, at), r)
<1> DEFINE p == _projections(r, at)
           add(i) == _create_or_reuse_review(rows, p[i], at)
<1>1. /\ p[1].kind = "thesis" /\ p[2].kind = "execution" /\ p[3].kind = "reconciliation"
      /\ p[2].input = <<recs[r].facts[1].kind, Cardinality(Facts(r, at))>>
  BY DEF _projections, _thesis_projection, _execution_projection, _reconciliation_projection
<1>2. Cardinality(Facts(r, at)) \in Nat
  BY FactsAreFinite
<1>3. Review(rows, r, at) = ((rows \o add(1)) \o add(2)) \o add(3)
  BY DEF Review
<1> HIDE DEF p
<1>4. Continues(r, rows, rows) /\ Plain(rows, rows)
  BY DEF Chained, Continues, Begins, Plain
<1>5. Continues(r, rows, rows \o add(1)) /\ Plain(rows, rows \o add(1))
  BY <1>1, <1>4, ReusedContinues
<1>6. Continues(r, rows, (rows \o add(1)) \o add(2))
  <2> DEFINE x == rows \o add(1)
  <2>1. Continues(r, rows, x) /\ Plain(rows, x)
    BY <1>5
  <2> HIDE DEF x
  <2>2. p[2].input = <<recs[r].facts[1].kind, p[2].input[2]>> /\ p[2].input[2] = Cardinality(Facts(r, at))
    BY <1>1
  <2>3. Continues(r, rows, x \o add(2))
    BY <1>2, <2>1, <2>2, ReusedContinues
  <2> QED  BY <2>3 DEF x
<1>7. Continues(r, rows, ((rows \o add(1)) \o add(2)) \o add(3))
  <2> DEFINE x == (rows \o add(1)) \o add(2)
  <2>1. Continues(r, rows, x)
    BY <1>6
  <2> HIDE DEF x
  <2>2. Continues(r, rows, x \o add(3))
    BY <1>1, <2>1, ReusedContinues
  <2> QED  BY <2>2 DEF x
<1> QED  BY <1>3, <1>7 DEF Continues

LEMMA ReviewsCountStay == Rows /\ Core' /\ ReviewsCount /\ [Next]_vars => ReviewsCount'
<1> SUFFICES ASSUME Rows, Core', ReviewsCount, [Next]_vars PROVE ReviewsCount'
  OBVIOUS
<1>1. Core /\ RecsKeep /\ Members \subseteq DOMAIN recs /\ DOMAIN reviews = Members
      /\ \A r \in Members : Chained(reviews[r])
  BY NothingIsRewritten DEF Rows, ReviewRows
<1>2. ASSUME NEW r \in DOMAIN recs, recs[r].facts # <<>>, NEW rows, Executions(rows, r)
      PROVE  recs'[r].facts # <<>> /\ Executions(rows, r)'
  <2>1. recs'[r].facts # <<>>
    BY <1>1, <1>2, FactsGrow
  <2>2. \A v : Observed(r, v) => Observed(r, v)'
    BY <1>1, <1>2, ObservedStays
  <2> QED  BY <1>2, <2>1, <2>2 DEF Executions, Distinct
<1>3. CASE UNCHANGED <<cutoffs, reviews>>
  BY <1>1, <1>2, <1>3 DEF ReviewsCount, Members
<1>4. ASSUME NEW w \in Workers, ReviewStep(w) PROVE ReviewsCount'
  <2> DEFINE cutoff == pass[w].at
             due == ReviewDue(cutoff)
  <2>1. /\ cutoffs' = [r \in Members \cup due |-> IF r \in due THEN cutoff ELSE cutoffs[r]]
        /\ reviews' = [r \in Members \cup due |->
                         IF r \in due THEN Review(<<>>, r, cutoff) ELSE reviews[r]]
    BY <1>4 DEF ReviewStep, build_due_review_cohort
  <2>2. due \subseteq DOMAIN recs /\ \A r \in due : Facts(r, cutoff) # {}
    BY DEF ReviewDue, Projectable
  <2>3. cutoff \in Nat
    BY <1>1, CoreTimes
  <2>4. Chained(<<>>) /\ \A r : Executions(<<>>, r)
    BY DEF Chained, Executions, Distinct
  <2> HIDE DEF due, cutoff
  <2>5. ASSUME NEW r \in Members \cup due
        PROVE  r \in DOMAIN recs /\ recs[r].facts # <<>> /\ Executions(reviews'[r], r)
    <3>1. CASE r \in due
      <4>1. recs[r].facts # <<>>
        BY <1>1, <2>2, <3>1, FactsAreFinite
      <4>2. Executions(Review(<<>>, r, cutoff), r)
        BY <1>1, <2>2, <2>3, <2>4, <3>1, ReviewObserves
      <4> QED  BY <2>1, <2>2, <3>1, <4>1, <4>2
    <3>2. CASE r \notin due
      BY <1>1, <2>1, <3>2 DEF ReviewsCount
    <3> QED  BY <3>1, <3>2
  <2>6. Members' = Members \cup due
    BY <2>1 DEF Members
  <2> QED  BY <1>2, <2>5, <2>6 DEF ReviewsCount
<1>5. ASSUME NEW w \in Workers, ReassessStep(w) PROVE ReviewsCount'
  <2>1. PICK cutoff \in Range(cutoffs) :
          reviews' = [r \in Members |-> IF r \in Cohort(cutoff) /\ Projectable(r, pass[w].at)
                                        THEN Review(reviews[r], r, pass[w].at) ELSE reviews[r]]
    BY <1>5 DEF ReassessStep, reassess_review_cohort
  <2>2. pass[w].at \in Nat /\ UNCHANGED cutoffs
    BY <1>1, <1>5, CoreTimes DEF ReassessStep
  <2>3. ASSUME NEW r \in Members
        PROVE  r \in DOMAIN recs /\ recs[r].facts # <<>> /\ Executions(reviews'[r], r)
    <3>1. r \in DOMAIN recs /\ recs[r].facts # <<>> /\ Executions(reviews[r], r) /\ Chained(reviews[r])
      BY <1>1 DEF ReviewsCount
    <3>2. Executions(Review(reviews[r], r, pass[w].at), r)
      BY <1>1, <2>2, <3>1, ReviewObserves
    <3> QED  BY <2>1, <3>1, <3>2
  <2>4. Members' = Members
    BY <2>2 DEF Members
  <2> QED  BY <1>2, <2>3, <2>4 DEF ReviewsCount
<1>6. ASSUME NEW w \in Workers, StartPass(w) \/ Dies(w) \/ Step(w), ~ReviewStep(w), ~ReassessStep(w)
      PROVE  UNCHANGED <<cutoffs, reviews>>
  BY <1>6 DEF StartPass, Dies, Step, StoreStep, TargetsStep, ForecastsStep, RecommendationsStep,
              PortfolioStep, AssessRead, AssessStore, AssessDone, CheckStep, postmortems
<1>7. CASE \/ generate_recommendation \/ IssueBaselines \/ interpret_due_reviews
           \/ Authorize \/ Deploy \/ RegisterEra \/ Decide \/ Tick \/ UNCHANGED vars
  <2>1. UNCHANGED <<cutoffs, reviews>>
    BY <1>7 DEF generate_recommendation, IssueBaselines, interpret_due_reviews, Authorize, Deploy, RegisterEra,
                Decide, Tick, postmortems, vars
  <2> QED  BY <1>3, <2>1
<1> QED  BY <1>3, <1>4, <1>5, <1>6, <1>7 DEF Next

\* The later of two reviews saw more, or did not see what lay under its time.
LEMMA ReviewsFollow == Rows /\ ReviewsCount => ReviewsFollowFacts
<1> SUFFICES ASSUME Rows, ReviewsCount, NEW r \in Members, NEW i \in DOMAIN reviews[r], NEW j \in DOMAIN reviews[r],
                    reviews[r][i].kind = "execution", reviews[r][j].kind = "execution",
                    reviews[r][i].at < reviews[r][j].at
             PROVE  \/ reviews[r][i].input[2] < reviews[r][j].input[2]
                    \/ reviews[r][j].input[2] < Cardinality(Facts(r, reviews[r][j].at))
  BY DEF ReviewsFollowFacts
<1> DEFINE a == reviews[r][i]
           b == reviews[r][j]
           n == Cardinality(Facts(r, a.at))
           m == Cardinality(Facts(r, b.at))
<1>1. Core /\ r \in DOMAIN recs
  BY DEF Rows, ReviewRows
<1>2. Observed(r, a) /\ Observed(r, b) /\ (a.input = b.input => i = j)
  BY DEF ReviewsCount, Executions, Distinct
<1>3. /\ a.at \in Nat /\ a.input = <<recs[r].facts[1].kind, a.input[2]>> /\ a.input[2] \in Nat /\ a.input[2] <= n
      /\ b.at \in Nat /\ b.input = <<recs[r].facts[1].kind, b.input[2]>> /\ b.input[2] \in Nat /\ b.input[2] <= m
  BY <1>2 DEF Observed
<1>4. n \in Nat /\ m \in Nat
  BY <1>1, FactsAreFinite
<1>5. n <= m
  <2>1. \A k \in DOMAIN recs[r].facts : recs[r].facts[k].at \in Nat
    <3>1. recs[r].facts \in Seq(PaperFacts)
      BY <1>1, FactsAreFinite
    <3>2. \A k \in DOMAIN recs[r].facts : recs[r].facts[k] \in PaperFacts
      <4> HIDE DEF PaperFacts
      <4> QED  BY <3>1, ElementOfSeq, LenProperties
    <3> QED  BY <3>2 DEF PaperFacts
  <2>2. Facts(r, a.at) \subseteq Facts(r, b.at)
    BY <1>3, <2>1 DEF Facts
  <2>3. IsFiniteSet(Facts(r, b.at))
    BY <1>1, FactsAreFinite
  <2> QED  BY <2>2, <2>3, FS_Subset
<1>6. a.at < b.at => i # j
  BY <1>3
<1>7. a.at < b.at
  OBVIOUS
<1> HIDE DEF a, b, n, m
<1>8. a.input[2] # b.input[2]
  BY <1>2, <1>3, <1>6, <1>7
<1>9. a.input[2] < b.input[2] \/ b.input[2] < m
  BY <1>3, <1>4, <1>5, <1>8
<1> QED  BY <1>9 DEF a, b, m

-----------------------------------------------------------------------------
(* The integrity report.                                                      *)

\* A resolution is what its time found stored, unless a candle was stored
\* under it later.
Stands(t, r) ==
  /\ r.outcome = "missing" => Maturity(t[1]) <= r.at
  /\ validate_resolution(t, r) \/ (r.outcome = "missing" /\ <<"missing", r.at>> \in undercut)
ResolutionsStand == \A t \in DOMAIN targets : targets[t].res # NoRes => Stands(t, targets[t].res)

LEMMA ResolutionsStandFirst == Init => ResolutionsStand
<1> SUFFICES ASSUME Init, NEW t \in DOMAIN targets, targets[t].res # NoRes
             PROVE  Stands(t, targets[t].res)
  BY DEF ResolutionsStand
<1> DEFINE r == targets[t].res
           e == Endpoint(t[1])
           found == e \in Days /\ candles[e] \in 1..r.at
<1>1. SoundResolution(candles, t, r) /\ SoundStart(plan.start)
  BY PlanIsSound DEF Init, SoundPlan, SoundStart
<1>2. Core /\ SoundTarget(now, tech, t, targets[t])
  BY InitCore DEF Core, TargetRows
<1>3. /\ r \in TargetResolution /\ r.outcome # "none" /\ t[1] \in Days
      /\ candles \in [Days -> 0..now] /\ now \in Nat
  BY <1>2, TargetFields DEF SoundTarget, Core, Market, SoundMarket
<1>4. /\ Maturity(t[1]) = Completion(e) /\ Maturity(t[1]) \in Nat
      /\ r.at \in Nat /\ (r.outcome \in Scored <=> r.end # None)
  BY <1>3, SessionTimes, ResolutionFields
<1> HIDE DEF r, e
<1>5. /\ Maturity(t[1]) <= r.at /\ (found \/ r.outcome = "missing")
      /\ found => r.end = e /\ r.outcome = classify_change(Price[e] - Price[t[1]], Bands[t[2]])
  BY <1>1 DEF SoundResolution, e
<1>6. CASE found
  <2>1. r.outcome \in Scored
    BY <1>5, <1>6, ClassIsScored
  <2>2. Stored(e) /\ candles[e] <= r.at /\ r.at >= Completion(e)
    BY <1>3, <1>4, <1>5, <1>6 DEF Stored, None
  <2> QED  BY <1>5, <1>6, <2>1, <2>2 DEF Stands, validate_resolution, e, r
<1>7. CASE ~found
  <2>1. r.outcome = "missing" /\ r.outcome \notin Scored /\ r.end = None
    BY <1>4, <1>5, <1>7 DEF Scored
  <2>2. ~eligible_endpoint(t, r.at)
    BY <1>3, <1>4, <1>7 DEF eligible_endpoint, Stored, None, e
  <2> QED  BY <1>5, <2>1, <2>2 DEF Stands, validate_resolution, r
<1> QED  BY <1>6, <1>7

\* A resolution made by a step.
LEMMA NewResolutionStands ==
  ASSUME Core, NEW t \in DOMAIN targets, NEW r, r.at \in Nat, NewResolution(t, r.at, r)
  PROVE  validate_resolution(t, r) /\ (r.outcome = "missing" => Maturity(t[1]) <= r.at)
<1>1. t[1] \in Days
  BY TargetFields DEF Core, TargetRows
<1>2. Maturity(t[1]) = Completion(Endpoint(t[1])) /\ Maturity(t[1]) \in Nat /\ Maturity(t[1]) <= r.at
  BY <1>1, SessionTimes DEF NewResolution
<1>3. CASE eligible_endpoint(t, r.at)
  <2>1. r.outcome \in Scored /\ r.end = Endpoint(t[1])
        /\ r.outcome = classify_change(Price[r.end] - Price[t[1]], Bands[t[2]])
    BY <1>3, ClassIsScored DEF NewResolution
  <2> QED  BY <1>2, <1>3, <2>1 DEF validate_resolution, eligible_endpoint
<1>4. CASE ~eligible_endpoint(t, r.at)
  <2>1. r.outcome = "missing" /\ r.outcome \notin Scored /\ r.end = None
    BY <1>4 DEF NewResolution, Scored
  <2> QED  BY <1>2, <1>4, <2>1 DEF validate_resolution
<1> QED  BY <1>3, <1>4

\* Only a candle stored under the time of a finding unsettles it.
LEMMA ResolutionStands ==
  ASSUME Core, Core', CandlesKeep, Observe, NEW t \in Days \X (Nat \ {0}), NEW r \in TargetResolution,
         r.outcome # "none", r.outcome = "missing" => r.at \in FoundMissing, Stands(t, r)
  PROVE  Stands(t, r)'
<1> DEFINE e == Endpoint(t[1])
<1>1. /\ t[1] \in Days /\ Maturity(t[1]) = Completion(e) /\ Maturity(t[1]) \in Nat /\ r.at \in Nat
      /\ candles \in [Days -> 0..now] /\ candles' \in [Days -> 0..now'] /\ now' \in Nat /\ now \in Nat
  BY SessionTimes, ResolutionFields DEF Core, Market, SoundMarket
<1>2. undercut \subseteq undercut'
  BY DEF Observe
<1>3. CASE r.outcome \in Scored
  <2>1. validate_resolution(t, r) /\ r.outcome # "missing"
    BY <1>3 DEF Stands, Scored
  <2>2. r.end = e /\ Stored(e) /\ candles[e] <= r.at /\ r.at >= Completion(e)
        /\ r.outcome = classify_change(Price[e] - Price[t[1]], Bands[t[2]])
    BY <1>3, <2>1 DEF validate_resolution
  <2>3. Stored(e)' /\ candles'[e] <= r.at
    BY <2>2 DEF CandlesKeep, Stored
  <2> HIDE DEF e
  <2>4. validate_resolution(t, r)'
    BY <1>3, <2>2, <2>3 DEF validate_resolution, e
  <2> QED  BY <2>1, <2>4 DEF Stands
<1>4. CASE r.outcome = "missing"
  <2>1. Maturity(t[1]) <= r.at
    BY <1>4 DEF Stands
  <2>2. CASE <<"missing", r.at>> \in undercut
    BY <1>2, <1>4, <2>1, <2>2 DEF Stands
  <2>3. CASE validate_resolution(t, r)
    <3>1. r.end = None /\ ~eligible_endpoint(t, r.at)
      BY <1>4, <2>3 DEF validate_resolution, Scored
    <3>2. CASE eligible_endpoint(t, r.at)'
      <4>1. e \in Days /\ candles'[e] # None /\ candles'[e] <= r.at
        BY <3>2 DEF eligible_endpoint, Stored
      <4>2. candles[e] = None
        BY <1>1, <2>1, <3>1, <4>1 DEF eligible_endpoint, Stored, CandlesKeep
      <4>3. candles'[e] \in 1..r.at
        BY <1>1, <4>1 DEF None
      <4>4. r.at \in FoundMissing
        BY <1>4
      <4> HIDE DEF e
      <4>5. <<"missing", r.at>> \in undercut'
        BY <4>1, <4>2, <4>3, <4>4 DEF Observe
      <4> QED  BY <1>4, <2>1, <4>5 DEF Stands
    <3>3. CASE ~eligible_endpoint(t, r.at)'
      <4>1. validate_resolution(t, r)'
        BY <1>4, <2>1, <3>1, <3>3 DEF validate_resolution, Scored
      <4> QED  BY <2>1, <4>1 DEF Stands
    <3> QED  BY <3>2, <3>3
  <2> QED  BY <1>4, <2>2, <2>3 DEF Stands
<1>5. r.outcome \in Scored \cup {"missing"}
  BY ResolutionFields
<1> QED  BY <1>3, <1>4, <1>5

LEMMA ResolutionsStandStay == Core /\ Core' /\ ResolutionsStand /\ [Next]_vars => ResolutionsStand'
<1> SUFFICES ASSUME Core, Core', ResolutionsStand, [Next]_vars,
                    NEW t \in DOMAIN targets', NEW r, r = targets'[t].res, r # NoRes
             PROVE  Stands(t, r)'
  BY DEF ResolutionsStand
<1>1. /\ TargetsKeep /\ TargetsSettle /\ CandlesKeep
      /\ UNCHANGED candles \/ UNCHANGED targets
  BY NothingIsRewritten
<1>2. t \in DOMAIN targets => Settles(t, targets'[t])
  BY <1>1 DEF TargetsSettle
<1>3. t \in Days \X (Nat \ {0}) /\ r \in TargetResolution /\ r.outcome # "none" /\ r.at \in Nat
  <2>1. SoundTarget(now, tech, t, targets[t])'
    BY DEF Core, TargetRows
  <2>2. t \in Days \X (Nat \ {0}) /\ targets'[t] \in TargetOccurrence /\ r.outcome # "none"
    BY <2>1 DEF SoundTarget
  <2>3. r \in TargetResolution
    BY <2>2 DEF TargetOccurrence
  <2> QED  BY <2>2, <2>3, ResolutionFields
<1>4. CASE UNCHANGED vars
  <2>1. t \in DOMAIN targets /\ r = targets[t].res /\ Stands(t, r)
    BY <1>4 DEF vars, ResolutionsStand
  <2>2. UNCHANGED <<candles, undercut>>
    BY <1>4 DEF vars, market
  <2> QED  BY <2>1, <2>2 DEF Stands, validate_resolution, eligible_endpoint, Stored
<1>5. CASE Next /\ t \in DOMAIN targets /\ r = targets[t].res
  <2>1. Observe /\ Stands(t, r)
    BY <1>5 DEF Next, ResolutionsStand
  <2>2. r.outcome = "missing" => r.at \in FoundMissing
    BY <1>5 DEF FoundMissing
  <2> QED  BY <1>1, <1>3, <2>1, <2>2, ResolutionStands
<1>6. CASE Next /\ t \in DOMAIN targets /\ r # targets[t].res
  <2>1. UNCHANGED candles
    BY <1>1, <1>6
  <2>2. NewResolution(t, r.at, r)
    BY <1>2, <1>6 DEF Settles
  <2>3. validate_resolution(t, r) /\ (r.outcome = "missing" => Maturity(t[1]) <= r.at)
    BY <1>3, <1>6, <2>2, NewResolutionStands
  <2>4. validate_resolution(t, r)'
    BY <2>1, <2>3 DEF validate_resolution, eligible_endpoint, Stored
  <2> QED  BY <2>3, <2>4 DEF Stands
<1>7. CASE t \notin DOMAIN targets
  BY <1>1, <1>7 DEF TargetsSettle
<1> QED  BY <1>4, <1>5, <1>6, <1>7

\* The report finds only what ResolutionsStand leaves open.
LEMMA ReportExplained == Core /\ ResolutionsStand => ReportIsExplained
<1> SUFFICES ASSUME Core, ResolutionsStand PROVE ReportIsExplained
  OBVIOUS
<1> DEFINE at == now
           issued == {r \in DOMAIN recs : recs[r].at <= at}
           registered == {t \in DOMAIN targets : targets[t].registered <= at}
           mature(t) == Maturity(t[1]) <= at
           shared(t) == IF Known(targets[t].res, at) THEN targets[t].res ELSE NoRes
           agrees(res, t) == Known(res, at) => res.outcome = shared(t).outcome
<1>1. ASSUME NEW r \in DOMAIN recs
      PROVE  /\ targets[recs[r].target].issued <= recs[r].at /\ recs[r].at <= now
             /\ comparable_control(r, recs[r].at)
             /\ agrees(recs[r].res, recs[r].target)
             /\ \A e \in recs[r].eras : eras[e].starts <= recs[r].at
  <2>1. SoundRecommendation(now, targets, eras, recs[r])
    BY DEF Core, RecRows
  <2>2. /\ targets[recs[r].target].issued <= recs[r].at
        /\ Agrees(recs[r].res, targets[recs[r].target].res)
        /\ \A e \in recs[r].eras : eras[e].starts <= recs[r].at
        /\ recs[r].at \in 1..now /\ recs[r].res \in RecommendationResolution
        /\ recs[r].target \in DOMAIN targets
    BY <2>1 DEF SoundRecommendation, InEra
  <2>3. {recs[r].res, targets[recs[r].target].res} \subseteq TargetResolution
    BY <2>2, TargetFields DEF Core, TargetRows, RecommendationResolution
  <2>4. {recs[r].res.at, targets[recs[r].target].res.at, now} \subseteq Nat
    BY <2>3, ResolutionFields DEF Core, Market, SoundMarket
  <2>5. agrees(recs[r].res, recs[r].target)
    BY <2>2, <2>4 DEF Agrees, Known
  <2> HIDE DEF agrees
  <2> QED  BY <2>2, <2>5 DEF comparable_control
<1>2. ASSUME NEW t \in DOMAIN targets
      PROVE  /\ validate_target(t, targets[t])
             /\ shared(t) # NoRes => agrees(targets[t].ctl, t)
             /\ shared(t).outcome = "missing" => mature(t)
  <2>1. SoundTarget(now, tech, t, targets[t])
    BY DEF Core, TargetRows
  <2>2. validate_target(t, targets[t]) /\ Agrees(targets[t].ctl, targets[t].res)
        /\ t[1] \in Days
    BY <2>1, TargetFields DEF SoundTarget
  <2>3. {targets[t].ctl.at, targets[t].res.at, now, Maturity(t[1])} \subseteq Nat
    <3>1. {targets[t].ctl, targets[t].res} \subseteq TargetResolution
      BY <2>1, TargetFields
    <3>2. {targets[t].ctl.at, targets[t].res.at} \subseteq Nat
      BY <3>1, ResolutionFields
    <3>3. Maturity(t[1]) \in Nat
      BY <2>2, SessionTimes
    <3> QED  BY <3>2, <3>3, CoreTimes
  <2>4. shared(t) # NoRes => agrees(targets[t].ctl, t)
    BY <2>2, <2>3 DEF Agrees, Known
  <2>5. shared(t).outcome = "missing" => mature(t)
    <3>1. NoRes.outcome # "missing"
      BY DEF NoRes
    <3>2. targets[t].res # NoRes => Stands(t, targets[t].res)
      BY DEF ResolutionsStand
    <3> QED  BY <2>3, <3>1, <3>2 DEF Stands, Known
  <2> HIDE DEF agrees, shared, mature
  <2> QED  BY <2>2, <2>4, <2>5
<1>3. report(now) \subseteq {"mature_target_missing_resolution", "shared_resolution_invalid"}
  <2> DEFINE H1 == \A r \in issued : targets[recs[r].target].issued <= recs[r].at
             H2 == \A r \in issued : comparable_control(r, recs[r].at)
             H3 == \A r \in issued : agrees(recs[r].res, recs[r].target)
             H4 == \A t \in registered : validate_target(t, targets[t])
             H5 == \A t \in registered : mature(t) => shared(t) # NoRes
             H6 == \A t \in registered : shared(t) # NoRes => validate_resolution(t, shared(t))
             H7 == \A t \in registered : shared(t).outcome = "missing" => mature(t)
             H8 == \A t \in registered : shared(t) # NoRes => agrees(targets[t].ctl, t)
             H9 == \A r \in issued : \A e \in recs[r].eras : eras[e].starts <= recs[r].at
             holds == [retrospective_control |-> H1,
                       recommendation_control_identity_mismatch |-> H2,
                       recommendation_shared_resolution_disagreement |-> H3,
                       target_identity_invalid |-> H4,
                       mature_target_missing_resolution |-> H5,
                       shared_resolution_invalid |-> H6,
                       immature_target_marked_missing |-> H7,
                       forecast_shared_resolution_disagreement |-> H8,
                       sample_before_cutover |-> H9]
  <2>1. H1 /\ H2 /\ H3 /\ H9
    <3> HIDE DEF agrees
    <3> QED  BY <1>1
  <2>2. H4 /\ H7 /\ H8
    <3> HIDE DEF agrees, shared, mature
    <3> QED  BY <1>2
  <2>3. report(now) = {code \in DOMAIN holds : ~holds[code]}
    BY DEF report
  <2> HIDE DEF H1, H2, H3, H4, H5, H6, H7, H8, H9
  <2> QED  BY <2>1, <2>2, <2>3
<1>4. ASSUME NEW t \in DOMAIN targets, targets[t].res # NoRes, ~validate_resolution(t, targets[t].res)
      PROVE  <<"missing", targets[t].res.at>> \in undercut
  BY <1>4 DEF ResolutionsStand, Stands
<1> QED  BY <1>3, <1>4 DEF ReportIsExplained

-----------------------------------------------------------------------------
(* Assessments.                                                            *)

\* What an assessment as of a time sees is the same before and after a step.
SameRow(r, at) ==
  /\ recs'[r].at = recs[r].at /\ recs'[r].target = recs[r].target /\ recs'[r].offer = recs[r].offer
  /\ Known(recs'[r].res, at) <=> Known(recs[r].res, at)
  /\ Known(recs[r].res, at) => recs'[r].res = recs[r].res
  /\ (recs'[r].facts # <<>> /\ recs'[r].facts[1].at <= at)
       <=> (recs[r].facts # <<>> /\ recs[r].facts[1].at <= at)
SameTarget(t, at) ==
  /\ targets'[t].issued = targets[t].issued
  /\ Known(targets'[t].res, at) <=> Known(targets[t].res, at)
  /\ Known(targets[t].res, at) => targets'[t].res = targets[t].res
  /\ Known(targets'[t].ctl, at) <=> Known(targets[t].ctl, at)
SameView(at) ==
  /\ \A c : Samples(c, at)' = Samples(c, at)
  /\ \A r \in DOMAIN recs : SameRow(r, at) /\ recs[r].target \in DOMAIN targets
  /\ \A t \in DOMAIN targets : SameTarget(t, at)

\* The operators of an assessment read what SameView keeps.
LEMMA SamplesAreIssued == \A c, at : Samples(c, at) \subseteq DOMAIN recs
  BY DEF Samples

LEMMA ValidStays ==
  ASSUME NEW at, SameView(at), NEW S, S \subseteq DOMAIN recs, NEW t \in DOMAIN targets
  PROVE  /\ Valid(S, t, at)' = Valid(S, t, at) /\ Valid(S, t, at) \subseteq S
         /\ Paired(S, t, at)' = Paired(S, t, at) /\ Paired(S, t, at) \subseteq S
<1>1. SameTarget(t, at) /\ \A r \in S : SameRow(r, at)
  BY DEF SameView
<1>2. ASSUME NEW r \in S
      PROVE  /\ recs'[r].target = recs[r].target
             /\ Known(recs'[r].res, at) <=> Known(recs[r].res, at)
             /\ comparable_control(r, at)' <=> comparable_control(r, at)
  <2>1. SameRow(r, at) /\ SameTarget(recs[r].target, at)
    BY <1>1 DEF SameView
  <2> QED  BY <2>1 DEF SameRow, SameTarget, comparable_control
<1>3. /\ Known(targets'[t].res, at) <=> Known(targets[t].res, at)
      /\ Known(targets[t].res, at) => targets'[t].res = targets[t].res
      /\ Known(targets'[t].ctl, at) <=> Known(targets[t].ctl, at)
  BY <1>1 DEF SameTarget
<1>4. Valid(S, t, at)' = Valid(S, t, at) /\ Valid(S, t, at) \subseteq S
  BY <1>2, <1>3 DEF Valid
<1>5. Paired(S, t, at)' = Paired(S, t, at) /\ Paired(S, t, at) \subseteq S
  BY <1>2, <1>3, <1>4 DEF Paired
<1> QED  BY <1>4, <1>5

LEMMA ScoreStays ==
  ASSUME NEW at, SameView(at), NEW R, R \subseteq DOMAIN recs, NEW outcome
  PROVE  TargetScore(R, outcome)' = TargetScore(R, outcome)
<1>1. \A r \in R : recs'[r].offer = recs[r].offer
  BY DEF SameView, SameRow
<1> QED  BY <1>1 DEF TargetScore

\* The scored targets of a set of samples and what is known of them.
LEMMA OutcomeStays ==
  ASSUME NEW at, SameView(at), NEW S, S \subseteq DOMAIN recs, NEW t \in DOMAIN targets,
         Valid(S, t, at) # {}
  PROVE  /\ targets'[t].res = targets[t].res
         /\ ControlScore(t)' = ControlScore(t)
         /\ TargetScore(Valid(S, t, at), targets[t].res.outcome)'
              = TargetScore(Valid(S, t, at), targets[t].res.outcome)
         /\ TargetScore(Paired(S, t, at), targets[t].res.outcome)'
              = TargetScore(Paired(S, t, at), targets[t].res.outcome)
<1>1. targets'[t].res = targets[t].res
  <2>1. Known(targets[t].res, at)
    BY DEF Valid
  <2> QED  BY <2>1 DEF SameView, SameTarget
<1>2. /\ Valid(S, t, at)' = Valid(S, t, at) /\ Valid(S, t, at) \subseteq DOMAIN recs
      /\ Paired(S, t, at)' = Paired(S, t, at) /\ Paired(S, t, at) \subseteq DOMAIN recs
  BY ValidStays
<1>3. ControlScore(t)' = ControlScore(t)
  BY <1>1 DEF ControlScore
<1>4. /\ TargetScore(Valid(S, t, at), targets[t].res.outcome)'
           = TargetScore(Valid(S, t, at), targets[t].res.outcome)
      /\ TargetScore(Paired(S, t, at), targets[t].res.outcome)'
           = TargetScore(Paired(S, t, at), targets[t].res.outcome)
  <2>1. \A R : R \subseteq DOMAIN recs =>
          \A outcome : TargetScore(R, outcome)' = TargetScore(R, outcome)
    BY ScoreStays
  <2> QED  BY <1>1, <1>2, <2>1
<1> QED  BY <1>1, <1>3, <1>4

LEMMA CalibrationStays ==
  ASSUME NEW at, SameView(at), NEW S, S \subseteq DOMAIN recs, NEW scored, scored \subseteq DOMAIN targets
  PROVE  _calibration_error(S, scored, at)' = _calibration_error(S, scored, at)
<1> DEFINE top(r) == CHOOSE i \in 1..3 : LET p == recs[r].offer.p IN
                       /\ \A j \in 1..3 : p[j] <= p[i]
                       /\ \A j \in 1..(i - 1) : p[j] < p[i]
           resolved == UNION {Valid(S, t, at) : t \in scored}
           week(r) == Week[recs[r].target[1]]
           weight(r) == 144 \div (Cardinality({t \in scored : Week[t[1]] = week(r)})
                                   * Cardinality(Valid(S, recs[r].target, at)))
           gap(r) == LET p == recs[r].offer.p[top(r)] IN
                       p - (IF Labels[top(r)] = recs[r].res.outcome THEN 100 ELSE 0)
           bin(r) == recs[r].offer.p[top(r)] \div 10
           inBin(b) == {r \in resolved : bin(r) = b}
           error(b) == SumFunction([r \in inBin(b) |-> weight(r) * gap(r)])
           bins == {bin(r) : r \in resolved}
           whole == SumFunction([b \in bins |-> IF error(b) < 0 THEN -error(b) ELSE error(b)])
<1>1. /\ _calibration_error(S, scored, at) = whole
      /\ _calibration_error(S, scored, at)' = whole'
  BY DEF _calibration_error
<1>2. \A t \in scored : Valid(S, t, at)' = Valid(S, t, at) /\ Valid(S, t, at) \subseteq S
  BY ValidStays
<1>3. resolved' = resolved
  BY <1>2
<1>4. ASSUME NEW r \in resolved
      PROVE  /\ recs'[r].offer = recs[r].offer /\ recs'[r].target = recs[r].target
             /\ recs'[r].res = recs[r].res
             /\ Valid(S, recs[r].target, at)' = Valid(S, recs[r].target, at)
  <2>1. PICK t \in scored : r \in Valid(S, t, at)
    OBVIOUS
  <2>2. r \in DOMAIN recs /\ recs[r].target = t /\ Known(recs[r].res, at)
    BY <2>1 DEF Valid
  <2>3. SameRow(r, at)
    BY <2>2 DEF SameView
  <2>4. recs'[r].target = t
    BY <2>2, <2>3 DEF SameRow
  <2>5. Valid(S, recs[r].target, at)' = Valid(S, recs[r].target, at)
    BY <1>2, <2>1, <2>2, <2>4
  <2> QED  BY <2>2, <2>3, <2>5 DEF SameRow
<1>5. ASSUME NEW r \in resolved PROVE top(r)' = top(r)
  BY <1>4
<1>6. ASSUME NEW r \in resolved PROVE gap(r)' = gap(r) /\ bin(r)' = bin(r)
  <2> HIDE DEF top, resolved
  <2> QED  BY <1>4, <1>5
<1>7. ASSUME NEW r \in resolved PROVE weight(r)' = weight(r)
  <2> HIDE DEF resolved
  <2>1. week(r)' = week(r)
    BY <1>4
  <2> HIDE DEF week
  <2> QED  BY <1>4, <2>1
<1> HIDE DEF resolved, weight, gap, bin
<1>8. bins' = bins /\ \A b : inBin(b)' = inBin(b) /\ inBin(b) \subseteq resolved
  BY <1>3, <1>6
<1> HIDE DEF inBin, bins
<1>9. \A b : error(b)' = error(b)
  <2> SUFFICES ASSUME NEW b PROVE error(b)' = error(b)
    OBVIOUS
  <2>1. \A r \in inBin(b) : weight(r)' = weight(r) /\ gap(r)' = gap(r)
    BY <1>6, <1>7, <1>8
  <2>2. inBin(b)' = inBin(b)
    BY <1>8
  <2>3. [r \in inBin(b) |-> weight(r) * gap(r)]' = [r \in inBin(b) |-> weight(r) * gap(r)]
    BY <2>1, <2>2
  <2> QED  BY <2>3
<1> HIDE DEF error
<1>10. whole' = whole
  <2>1. [b \in bins |-> IF error(b) < 0 THEN -error(b) ELSE error(b)]'
          = [b \in bins |-> IF error(b) < 0 THEN -error(b) ELSE error(b)]
    BY <1>8, <1>9
  <2> QED  BY <2>1
<1> HIDE DEF whole
<1> QED  BY <1>1, <1>10

\* Targets of which something valid is known.
Scores(S, scored, at) ==
  S \subseteq DOMAIN recs /\ \A t \in scored : t \in DOMAIN targets /\ Valid(S, t, at) # {}

LEMMA GuardStays ==
  ASSUME NEW at, SameView(at), NEW S, NEW scored, Scores(S, scored, at)
  PROVE  Guarded(S, scored, at)' <=> Guarded(S, scored, at)
<1> DEFINE model == [t \in scored |-> TargetScore(Valid(S, t, at), targets[t].res.outcome)]
           paired == [t \in scored |-> TargetScore(Paired(S, t, at), targets[t].res.outcome)]
           control == [t \in scored |-> ControlScore(t)]
           n == Cardinality(WeeksOf(scored))
           P1 == \A r \in S : comparable_control(r, at)
           P2 == \A t \in scored : Paired(S, t, at) # {}
           P3 == ClusterMean(model) + Width[n] < UNIFORM_BRIER
           P4 == ClusterMean(paired) < ClusterMean(control)
           P5 == _calibration_error(S, scored, at) <= Policy.calibration * 144 * n
<1>1. /\ Guarded(S, scored, at) <=> P1 /\ P2 /\ P3 /\ P4 /\ P5
      /\ Guarded(S, scored, at)' <=> P1' /\ P2' /\ P3' /\ P4' /\ P5'
  BY DEF Guarded
<1>2. S \subseteq DOMAIN recs /\ scored \subseteq DOMAIN targets
  BY DEF Scores
<1>3. model' = model /\ paired' = paired /\ control' = control
  BY <1>2, OutcomeStays DEF Scores
<1>4. P1' <=> P1
  BY <1>2 DEF SameView, SameRow, SameTarget, comparable_control
<1>5. P2' <=> P2
  BY <1>2, ValidStays
<1>6. P5' <=> P5
  BY <1>2, CalibrationStays
<1> HIDE DEF model, paired, control
<1>7. (P3' <=> P3) /\ (P4' <=> P4)
  BY <1>3
<1> HIDE DEF P1, P2, P3, P4, P5
<1> QED  BY <1>1, <1>4, <1>5, <1>6, <1>7

LEMMA DeltaStays ==
  ASSUME NEW at, SameView(at), NEW e, eras'[e].champion = eras[e].champion,
         NEW S, NEW scored, Scores(S, scored, at)
  PROVE  ChampionDelta(e, S, scored, at)' = ChampionDelta(e, S, scored, at)
<1> DEFINE C == {r \in Samples(eras[e].champion, at) : r \in Paired({r}, recs[r].target, at)}
           both == {t \in scored : \E r \in C : recs[r].target = t}
           of(t) == {r \in C : recs[r].target = t}
           delta(t) == TargetScore(Valid(S, t, at), targets[t].res.outcome)
                         - TargetScore(of(t), targets[t].res.outcome)
<1>1. /\ ChampionDelta(e, S, scored, at) = [t \in both |-> delta(t)]
      /\ ChampionDelta(e, S, scored, at)' = [t \in both |-> delta(t)]'
  BY DEF ChampionDelta
<1>2. /\ Samples(eras[e].champion, at)' = Samples(eras[e].champion, at)
      /\ Samples(eras[e].champion, at) \subseteq DOMAIN recs
  BY SamplesAreIssued DEF SameView
<1>3. ASSUME NEW r \in DOMAIN recs
      PROVE  /\ recs'[r].target = recs[r].target
             /\ Paired({r}, recs[r].target, at)' = Paired({r}, recs[r].target, at)
  <2>1. recs'[r].target = recs[r].target /\ recs[r].target \in DOMAIN targets
    BY DEF SameView, SameRow
  <2> DEFINE t == recs[r].target
  <2>2. \A u \in DOMAIN targets : Paired({r}, u, at)' = Paired({r}, u, at)
    BY ValidStays
  <2> QED  BY <2>1, <2>2
<1>4. C' = C /\ C \subseteq DOMAIN recs
  BY <1>2, <1>3
<1> HIDE DEF C
<1>5. both' = both /\ both \subseteq scored /\ \A t : of(t)' = of(t) /\ of(t) \subseteq DOMAIN recs
  BY <1>3, <1>4
<1> HIDE DEF of, both
<1>6. ASSUME NEW t \in scored PROVE delta(t)' = delta(t)
  <2>1. /\ targets'[t].res = targets[t].res
        /\ TargetScore(Valid(S, t, at), targets[t].res.outcome)'
             = TargetScore(Valid(S, t, at), targets[t].res.outcome)
    BY OutcomeStays DEF Scores
  <2>2. \A R : R \subseteq DOMAIN recs =>
          \A outcome : TargetScore(R, outcome)' = TargetScore(R, outcome)
    BY ScoreStays
  <2>3. TargetScore(of(t), targets[t].res.outcome)' = TargetScore(of(t), targets[t].res.outcome)
    BY <1>5, <2>1, <2>2
  <2> QED  BY <2>1, <2>3
<1> HIDE DEF delta
<1>7. [t \in both |-> delta(t)]' = [t \in both |-> delta(t)]
  BY <1>5, <1>6
<1> QED  BY <1>1, <1>7

\* What an assessment finds depends on its view alone.
LEMMA ValuesStay ==
  ASSUME NEW at, SameView(at), NEW e, eras'[e] = eras[e]
  PROVE  assessment_values(e, at)' = assessment_values(e, at)
<1> DEFINE S == Samples(e, at)
           T == {recs[r].target : r \in S}
           mature == Mature(T, at)
           scored == {t \in mature : Valid(S, t, at) # {}}
           missing == {t \in mature : /\ Known(targets[t].res, at)
                                      /\ targets[t].res.outcome = "missing"}
           both == {t \in scored : Paired(S, t, at) # {}}
           terminal == _execution_metrics(S, at)
           ready == /\ Cardinality(S) >= Policy.raw /\ Cardinality(scored) >= Policy.raw
                    /\ at - eras[e].starts >= Policy.days
                    /\ Cardinality(WeeksOf(scored)) >= Policy.clusters
           delta == ChampionDelta(e, S, scored, at)
           better == /\ Cardinality(DOMAIN delta) >= Policy.raw
                     /\ Cardinality(WeeksOf(DOMAIN delta)) >= Policy.clusters
                     /\ ClusterMean(delta) + 2 * Width[Cardinality(WeeksOf(DOMAIN delta))] < 0
           guarded == Guarded(S, scored, at)
           kind == eras[e].kind
           status == IF ~ready THEN "collecting"
                     ELSE IF 100 * Cardinality(scored) < Policy.coverage * Cardinality(mature)
                     THEN "coverage_limited"
                     ELSE IF ~guarded THEN "guardrail_failed"
                     ELSE IF kind = "champion" THEN "descriptive_ready"
                     ELSE IF better THEN "promotion_eligible" ELSE "guardrail_failed"
           values == [raw |-> Cardinality(S), targets |-> Cardinality(T),
                      mature |-> Cardinality(mature), scored |-> Cardinality(scored),
                      missing |-> Cardinality(missing), paired |-> Cardinality(both),
                      terminal |-> terminal, status |-> status]
<1>1. assessment_values(e, at) = values /\ assessment_values(e, at)' = values'
  BY DEF assessment_values
<1>2. S' = S /\ S \subseteq DOMAIN recs
  BY SamplesAreIssued DEF SameView
<1>3. \A r \in S : SameRow(r, at) /\ recs[r].target \in DOMAIN targets
  BY <1>2 DEF SameView
<1> HIDE DEF S
<1>4. T' = T /\ T \subseteq DOMAIN targets
  BY <1>2, <1>3 DEF SameRow
<1>5. terminal' = terminal
  <2>1. {r \in S : recs[r].facts # <<>> /\ recs[r].facts[1].at <= at}'
          = {r \in S : recs[r].facts # <<>> /\ recs[r].facts[1].at <= at}
    BY <1>2, <1>3 DEF SameRow
  <2> QED  BY <2>1 DEF _execution_metrics
<1> HIDE DEF T, terminal
<1>6. mature' = mature /\ mature \subseteq DOMAIN targets
  BY <1>4 DEF Mature
<1> HIDE DEF mature
<1>7. \A t \in mature : SameTarget(t, at) /\ Valid(S, t, at)' = Valid(S, t, at)
                        /\ Paired(S, t, at)' = Paired(S, t, at)
  BY <1>2, <1>6, ValidStays DEF SameView
<1>8. scored' = scored /\ Scores(S, scored, at)
  <2>1. \A t \in mature : Valid(S, t, at)' = Valid(S, t, at)
    BY <1>7
  <2>2. scored' = scored
    BY <1>2, <1>6, <2>1
  <2> QED  BY <1>2, <1>6, <2>2 DEF Scores
<1>9. missing' = missing
  BY <1>6, <1>7 DEF SameTarget
<1>10. both' = both
  <2>1. scored \subseteq mature
    OBVIOUS
  <2> HIDE DEF scored
  <2> QED  BY <1>2, <1>7, <1>8, <2>1
<1> HIDE DEF scored, missing, both
<1>11. guarded' <=> guarded
  BY <1>2, <1>8, GuardStays
<1>12. delta' = delta
  BY <1>2, <1>8, DeltaStays
<1> HIDE DEF guarded, delta
<1>13. (ready' <=> ready) /\ (better' <=> better) /\ kind' = kind
  BY <1>2, <1>8, <1>12
<1> HIDE DEF ready, better, kind
<1>14. status' = status
  BY <1>6, <1>8, <1>11, <1>13
<1> HIDE DEF status
<1>15. values' = values
  BY <1>2, <1>4, <1>5, <1>6, <1>8, <1>9, <1>10, <1>14
<1> HIDE DEF values
<1> QED  BY <1>1, <1>15

\* A fact is stamped once: by its row, what it is and its time.
RecStamps(rows, r) ==
  {<<"sample", r, e, rows[r].at>> : e \in rows[r].eras}
  \cup {<<"fact", r, i, rows[r].facts[i].at>> : i \in DOMAIN rows[r].facts}
  \cup {<<"res", r, None, rows[r].res.at>>}
TargetStamps(rows, t) == {<<"shared", t, None, rows[t].res.at>>, <<"ctl", t, None, rows[t].ctl.at>>}

LEMMA StampsUnfold ==
  /\ StampedFacts = (UNION {RecStamps(recs, r) : r \in DOMAIN recs})
                    \cup (UNION {TargetStamps(targets, t) : t \in DOMAIN targets})
  /\ StampedFacts' = (UNION {RecStamps(recs', r) : r \in DOMAIN recs'})
                     \cup (UNION {TargetStamps(targets', t) : t \in DOMAIN targets'})
  BY DEF StampedFacts, RecStamps, TargetStamps

LEMMA Stamps ==
  /\ \A r, e, a : <<"sample", r, e, a>> \in StampedFacts => r \in DOMAIN recs /\ e \in recs[r].eras
  /\ \A r, i, a : <<"fact", r, i, a>> \in StampedFacts => r \in DOMAIN recs /\ i \in DOMAIN recs[r].facts
  /\ \A r, i, a : <<"res", r, i, a>> \in StampedFacts => r \in DOMAIN recs /\ a = recs[r].res.at
  /\ \A t, i, a : <<"shared", t, i, a>> \in StampedFacts => t \in DOMAIN targets /\ a = targets[t].res.at
  /\ \A t, i, a : <<"ctl", t, i, a>> \in StampedFacts => t \in DOMAIN targets /\ a = targets[t].ctl.at
<1>1. \A f \in StampedFacts : \/ \E r \in DOMAIN recs : f \in RecStamps(recs, r)
                              \/ \E t \in DOMAIN targets : f \in TargetStamps(targets, t)
  <2> DEFINE R == {RecStamps(recs, r) : r \in DOMAIN recs}
             T == {TargetStamps(targets, t) : t \in DOMAIN targets}
  <2>1. StampedFacts = (UNION R) \cup (UNION T)
    BY StampsUnfold
  <2>2. /\ \A x \in R : \E r \in DOMAIN recs : x = RecStamps(recs, r)
        /\ \A x \in T : \E t \in DOMAIN targets : x = TargetStamps(targets, t)
    OBVIOUS
  <2> HIDE DEF R, T
  <2> SUFFICES ASSUME NEW f \in StampedFacts
               PROVE  \/ \E r \in DOMAIN recs : f \in RecStamps(recs, r)
                      \/ \E t \in DOMAIN targets : f \in TargetStamps(targets, t)
    OBVIOUS
  <2>3. PICK x \in R \cup T : f \in x
    BY <2>1
  <2> QED  BY <2>2, <2>3
<1>2. \A q \in DOMAIN recs :
        /\ \A r, e, a : <<"sample", r, e, a>> \in RecStamps(recs, q) => r = q /\ e \in recs[q].eras
        /\ \A r, i, a : <<"fact", r, i, a>> \in RecStamps(recs, q) => r = q /\ i \in DOMAIN recs[q].facts
        /\ \A r, i, a : <<"res", r, i, a>> \in RecStamps(recs, q) => r = q /\ a = recs[q].res.at
        /\ \A t, i, a : <<"shared", t, i, a>> \notin RecStamps(recs, q)
        /\ \A t, i, a : <<"ctl", t, i, a>> \notin RecStamps(recs, q)
  BY DEF RecStamps
<1>3. \A u \in DOMAIN targets :
        /\ \A r, i, a : <<"sample", r, i, a>> \notin TargetStamps(targets, u)
        /\ \A r, i, a : <<"fact", r, i, a>> \notin TargetStamps(targets, u)
        /\ \A r, i, a : <<"res", r, i, a>> \notin TargetStamps(targets, u)
        /\ \A t, i, a : <<"shared", t, i, a>> \in TargetStamps(targets, u) => t = u /\ a = targets[u].res.at
        /\ \A t, i, a : <<"ctl", t, i, a>> \in TargetStamps(targets, u) => t = u /\ a = targets[u].ctl.at
  BY DEF TargetStamps
<1> QED  BY <1>1, <1>2, <1>3

LEMMA StampsNext ==
  /\ \A r \in DOMAIN recs' :
       /\ \A e \in recs'[r].eras : <<"sample", r, e, recs'[r].at>> \in StampedFacts'
       /\ \A i \in DOMAIN recs'[r].facts : <<"fact", r, i, recs'[r].facts[i].at>> \in StampedFacts'
       /\ <<"res", r, None, recs'[r].res.at>> \in StampedFacts'
  /\ \A t \in DOMAIN targets' :
       /\ <<"shared", t, None, targets'[t].res.at>> \in StampedFacts'
       /\ <<"ctl", t, None, targets'[t].ctl.at>> \in StampedFacts'
<1>1. /\ \A r \in DOMAIN recs' : RecStamps(recs', r) \subseteq StampedFacts'
      /\ \A t \in DOMAIN targets' : TargetStamps(targets', t) \subseteq StampedFacts'
  <2> DEFINE R == {RecStamps(recs', r) : r \in DOMAIN recs'}
             T == {TargetStamps(targets', t) : t \in DOMAIN targets'}
  <2>1. StampedFacts' = (UNION R) \cup (UNION T)
    BY StampsUnfold
  <2>2. /\ \A r \in DOMAIN recs' : RecStamps(recs', r) \in R
        /\ \A t \in DOMAIN targets' : TargetStamps(targets', t) \in T
    OBVIOUS
  <2> HIDE DEF R, T
  <2> QED  BY <2>1, <2>2
<1>2. \A r \in DOMAIN recs' :
        /\ \A e \in recs'[r].eras : <<"sample", r, e, recs'[r].at>> \in RecStamps(recs', r)
        /\ \A i \in DOMAIN recs'[r].facts : <<"fact", r, i, recs'[r].facts[i].at>> \in RecStamps(recs', r)
        /\ <<"res", r, None, recs'[r].res.at>> \in RecStamps(recs', r)
  BY DEF RecStamps
<1>3. \A t \in DOMAIN targets' :
        /\ <<"shared", t, None, targets'[t].res.at>> \in TargetStamps(targets', t)
        /\ <<"ctl", t, None, targets'[t].ctl.at>> \in TargetStamps(targets', t)
  BY DEF TargetStamps
<1> QED  BY <1>1, <1>2, <1>3

\* Where a step stores nothing under a time, what that time sees stays.
Nothing(at) == \A f \in StampedFacts' : f[4] \in 1..at => f \in StampedFacts

LEMMA RowStays ==
  ASSUME Core, Core', RecsKeep, NEW at \in 1..now, Nothing(at), NEW r \in DOMAIN recs
  PROVE  SameRow(r, at)
<1> DEFINE x == recs[r]
           y == recs'[r]
<1>1. r \in DOMAIN recs' /\ Kept(x, y)
  BY DEF RecsKeep
<1>2. SoundRecommendation(now, targets, eras, recs[r]) /\ SoundRecommendation(now, targets, eras, recs[r])'
  BY <1>1 DEF Core, RecRows
<1>3. /\ {x.res, y.res} \subseteq TargetResolution
      /\ x.facts \in Seq(PaperFacts) /\ y.facts \in Seq(PaperFacts)
      /\ y.at \in 1..now' /\ (y.res # NoRes => y.at <= y.res.at)
  <2>1. x.res \in RecommendationResolution /\ x.facts \in Seq(PaperFacts)
    BY <1>2 DEF SoundRecommendation
  <2>2. /\ y.res \in RecommendationResolution /\ y.facts \in Seq(PaperFacts)
        /\ y.at \in 1..now' /\ (y.res # NoRes => y.at <= y.res.at)
    BY <1>2 DEF SoundRecommendation
  <2> HIDE DEF x, y
  <2> QED  BY <2>1, <2>2 DEF RecommendationResolution
<1>4. x.res.at \in Nat /\ y.res.at \in Nat /\ NoRes.at = 0 /\ now' \in Nat
  BY <1>3, ResolutionFields DEF NoRes, None, Core, Market, SoundMarket
<1>5. /\ Known(y.res, at) <=> Known(x.res, at)
      /\ Known(x.res, at) => y.res = x.res
  <2>1. CASE x.res # NoRes
    BY <1>1, <2>1 DEF Kept, Known
  <2>2. CASE x.res = NoRes /\ Known(y.res, at)
    <3>1. y.res.at \in 1..at
      BY <1>3, <1>4, <2>2 DEF Known
    <3>2. <<"res", r, None, y.res.at>> \in StampedFacts'
      BY <1>1, StampsNext
    <3> HIDE DEF y
    <3>3. <<"res", r, None, y.res.at>> \in StampedFacts
      BY <3>1, <3>2 DEF Nothing
    <3>4. y.res.at = x.res.at
      BY <3>3, Stamps
    <3> QED  BY <1>4, <2>2, <3>1, <3>4
  <2> QED  BY <2>1, <2>2 DEF Known
<1>6. (y.facts # <<>> /\ y.facts[1].at <= at) <=> (x.facts # <<>> /\ x.facts[1].at <= at)
  <2> HIDE DEF PaperFacts
  <2>1. CASE y.facts = x.facts
    BY <2>1
  <2>2. CASE y.facts # x.facts
    <3>1. PICK f : f.at # 0 /\ y.facts = Append(x.facts, f)
      BY <1>1, <2>2 DEF Kept, Adds
    <3> DEFINE s == x.facts
               u == y.facts
    <3>2. /\ s \in Seq(PaperFacts) /\ u \in Seq(PaperFacts) /\ u = Append(s, f)
      BY <1>3, <3>1
    <3>2a. f \in PaperFacts
      <4> HIDE DEF s, u
      <4>1. u[Len(s) + 1] = f /\ Len(s) + 1 \in 1..Len(u)
        BY <3>2
      <4> QED  BY <3>2, <4>1
    <3>3. CASE s # <<>>
      <4> HIDE DEF s, u
      <4>1. u # <<>> /\ u[1] = s[1]
        BY <3>2, <3>3
      <4> QED  BY <3>3, <4>1 DEF s, u
    <3>4. CASE s = <<>>
      <4>1. u = <<f>> /\ 1 \in DOMAIN u /\ u[1] = f
        <5> HIDE DEF s, u
        <5> QED  BY <3>2, <3>4
      <4>2. <<"fact", r, 1, f.at>> \in StampedFacts'
        <5>1. <<"fact", r, 1, y.facts[1].at>> \in StampedFacts'
          BY <1>1, <4>1, StampsNext
        <5> QED  BY <4>1, <5>1
      <4>3. ~(f.at <= at)
        <5>1. SUFFICES ASSUME f.at <= at PROVE FALSE
          OBVIOUS
        <5>2. f.at \in 1..at
          BY <3>1, <3>2a, <5>1 DEF PaperFacts
        <5>3. <<"fact", r, 1, f.at>> \in StampedFacts
          BY <4>2, <5>2 DEF Nothing
        <5>4. 1 \in DOMAIN x.facts
          BY <5>3, Stamps
        <5> QED  BY <3>4, <5>4
      <4> QED  BY <3>4, <4>1, <4>3
    <3> QED  BY <3>3, <3>4
  <2> QED  BY <2>1, <2>2
<1>7. y.at = x.at /\ y.target = x.target /\ y.offer = x.offer
  BY <1>1 DEF Kept
<1> QED  BY <1>5, <1>6, <1>7 DEF SameRow

LEMMA TargetStays ==
  ASSUME Core, Core', ResolutionsStand, TargetsKeep, TargetsSettle, NEW at \in 1..now, Nothing(at),
         NEW t \in DOMAIN targets
  PROVE  SameTarget(t, at)
<1> DEFINE x == targets[t]
           y == targets'[t]
<1>1. t \in DOMAIN targets' /\ TargetKept(x, y) /\ Settles(t, y)
  BY DEF TargetsKeep, TargetsSettle
<1>2. SoundTarget(now, tech, t, x) /\ SoundTarget(now', tech', t, y)
  <2>1. SoundTarget(now, tech, t, x)
    BY DEF Core, TargetRows
  <2>2. SoundTarget(now, tech, t, targets[t])'
    BY <1>1 DEF Core, TargetRows
  <2> QED  BY <2>1, <2>2 DEF SoundTarget, Agrees, validate_target
<1>3. /\ {x.res, y.res, x.ctl, y.ctl} \subseteq TargetResolution
      /\ Agrees(y.ctl, y.res) /\ t[1] \in Days
  BY <1>2 DEF SoundTarget, TargetOccurrence, ForecastResolution
<1>4. /\ {x.res.at, y.res.at, x.ctl.at, y.ctl.at} \subseteq Nat /\ NoRes.at = 0
      /\ Maturity(t[1]) \in Nat \ {0}
  <2>1. \A d \in Days : Maturity(d) \in Nat \ {0}
    BY SessionTimes
  <2> HIDE DEF x, y
  <2>2. {x.res.at, y.res.at, x.ctl.at, y.ctl.at} \subseteq Nat
    BY <1>3, ResolutionFields
  <2> QED  BY <1>3, <2>1, <2>2 DEF NoRes, None
<1>5. y.res # NoRes => Maturity(t[1]) <= y.res.at
  <2>1. CASE x.res # NoRes
    <3>1. y.res = x.res /\ Stands(t, x.res)
      BY <1>1, <2>1 DEF TargetKept, ResolutionsStand
    <3>2. x.res.outcome \in Scored \/ x.res.outcome = "missing"
      <4>1. x.res.outcome # "none"
        BY <1>2, <2>1 DEF SoundTarget
      <4> QED  BY <1>3, <4>1, ResolutionFields
    <3>3. Maturity(t[1]) = Completion(Endpoint(t[1]))
      BY DEF Maturity
    <3> QED  BY <1>4, <3>1, <3>2, <3>3 DEF Stands, validate_resolution, Scored
  <2>2. CASE x.res = NoRes
    BY <1>1, <2>2 DEF Settles, NewResolution
  <2> QED  BY <2>1, <2>2
<1>6. /\ Known(y.res, at) <=> Known(x.res, at)
      /\ Known(x.res, at) => y.res = x.res
  <2>1. CASE x.res # NoRes
    BY <1>1, <2>1 DEF TargetKept, Known
  <2>2. CASE x.res = NoRes /\ Known(y.res, at)
    <3>1. y.res.at \in 1..at
      BY <1>4, <1>5, <2>2 DEF Known
    <3>2. <<"shared", t, None, y.res.at>> \in StampedFacts'
      BY <1>1, StampsNext
    <3> HIDE DEF y
    <3>3. <<"shared", t, None, y.res.at>> \in StampedFacts
      BY <3>1, <3>2 DEF Nothing
    <3>4. y.res.at = x.res.at
      BY <3>3, Stamps
    <3> QED  BY <1>4, <2>2, <3>1, <3>4
  <2> QED  BY <2>1, <2>2 DEF Known
<1>7. Known(y.ctl, at) <=> Known(x.ctl, at)
  <2>1. CASE x.ctl # NoRes
    BY <1>1, <2>1 DEF TargetKept, Known
  <2>2. CASE x.ctl = NoRes /\ Known(y.ctl, at)
    <3>1. y.ctl.at \in 1..at
      BY <1>3, <1>4, <1>5, <2>2 DEF Known, Agrees
    <3>2. <<"ctl", t, None, y.ctl.at>> \in StampedFacts'
      BY <1>1, StampsNext
    <3> HIDE DEF y
    <3>3. <<"ctl", t, None, y.ctl.at>> \in StampedFacts
      BY <3>1, <3>2 DEF Nothing
    <3>4. y.ctl.at = x.ctl.at
      BY <3>3, Stamps
    <3> QED  BY <1>4, <2>2, <3>1, <3>4
  <2> QED  BY <2>1, <2>2 DEF Known
<1>8. y.issued = x.issued
  BY <1>1 DEF TargetKept
<1> QED  BY <1>6, <1>7, <1>8 DEF SameTarget

LEMMA ViewStays ==
  ASSUME Core, Core', ResolutionsStand, RecsKeep, TargetsKeep, TargetsSettle, ErasGrow,
         NEW at \in 1..now, Nothing(at)
  PROVE  SameView(at)
<1>1. \A r \in DOMAIN recs : SameRow(r, at) /\ recs[r].target \in DOMAIN targets
  <2>1. \A r \in DOMAIN recs : recs[r].target \in DOMAIN targets
    BY DEF Core, RecRows, SoundRecommendation
  <2> QED  BY <2>1, RowStays
<1>2. \A t \in DOMAIN targets : SameTarget(t, at)
  BY TargetStays
<1>3. ASSUME NEW c PROVE Samples(c, at)' = Samples(c, at)
  <2>1. ASSUME NEW r \in Samples(c, at)
        PROVE  r \in DOMAIN recs' /\ c \in recs'[r].eras /\ recs'[r].at <= at
               /\ eras'[c].starts <= recs'[r].at
    <3>1. r \in DOMAIN recs /\ c \in recs[r].eras /\ recs[r].at <= at /\ eras[c].starts <= recs[r].at
      BY DEF Samples
    <3>2. Kept(recs[r], recs'[r]) /\ r \in DOMAIN recs'
      BY <3>1 DEF RecsKeep
    <3>3. c \in DOMAIN eras
      BY <3>1 DEF Core, RecRows, SoundRecommendation
    <3>4. eras'[c] = eras[c]
      BY <3>3 DEF ErasGrow
    <3> QED  BY <3>1, <3>2, <3>4 DEF Kept
  <2>2. ASSUME NEW r \in DOMAIN recs', c \in recs'[r].eras, recs'[r].at <= at,
               eras'[c].starts <= recs'[r].at
        PROVE  r \in Samples(c, at)
    <3>1. SoundRecommendation(now, targets, eras, recs[r])'
      BY DEF Core, RecRows
    <3>2. recs'[r].at \in 1..now'
      BY <3>1 DEF SoundRecommendation
    <3>3. recs'[r].at \in 1..at
      BY <2>2, <3>2
    <3>4. <<"sample", r, c, recs'[r].at>> \in StampedFacts'
      BY <2>2, StampsNext
    <3>5. <<"sample", r, c, recs'[r].at>> \in StampedFacts
      BY <3>3, <3>4 DEF Nothing
    <3>6. r \in DOMAIN recs /\ c \in recs[r].eras
      BY <3>5, Stamps
    <3>7. recs'[r].at = recs[r].at
      BY <3>6 DEF RecsKeep, Kept
    <3>8. c \in DOMAIN eras
      BY <3>6 DEF Core, RecRows, SoundRecommendation
    <3>9. eras'[c] = eras[c]
      BY <3>8 DEF ErasGrow
    <3> QED  BY <2>2, <3>6, <3>7, <3>9 DEF Samples
  <2>3. Samples(c, at)' = {r \in DOMAIN recs' : /\ c \in recs'[r].eras
                             /\ recs'[r].at <= at /\ eras'[c].starts <= recs'[r].at}
    BY DEF Samples
  <2> QED  BY <2>1, <2>2, <2>3
<1> QED  BY <1>1, <1>2, <1>3 DEF SameView

\* An assessment stands while nothing has been stored under its time.
Reproduces(a) == <<"assessed", a.at>> \notin undercut => assessment_values(a.era, a.at) = a.values
AssessmentsStand ==
  /\ \A a \in assessments : Reproduces(a)
  /\ \A w \in Workers : pass[w].read # NoRead => Reproduces(pass[w].read)

LEMMA OneStands ==
  ASSUME Core, Core', ResolutionsStand, Next, NEW a, Assessable(a, now), a.at \in CutoffsRead, Reproduces(a)
  PROVE  Reproduces(a)'
<1>1. a.era \in DOMAIN eras /\ a.at \in 1..now
  BY DEF Assessable, EraIds
<1>2. /\ RecsKeep /\ TargetsKeep /\ TargetsSettle /\ ErasGrow
  BY NothingIsRewritten, NothingIsTakenBack
<1> SUFFICES ASSUME <<"assessed", a.at>> \notin undercut'
             PROVE  assessment_values(a.era, a.at)' = a.values
  BY DEF Reproduces
<1>3. Observe
  BY DEF Next
<1>4. <<"assessed", a.at>> \notin undercut /\ Nothing(a.at)
  <2>1. <<"assessed", a.at>> \notin undercut
    BY <1>3 DEF Observe
  <2>2. ASSUME NEW f \in StampedFacts' \ StampedFacts, f[4] \in 1..a.at PROVE FALSE
    <3>1. a.at \in {x \in CutoffsRead : \E g \in StampedFacts' \ StampedFacts : g[4] \in 1..x}
      BY <2>2
    <3> QED  BY <1>3, <3>1 DEF Observe
  <2> QED  BY <2>1, <2>2 DEF Nothing
<1>5. eras'[a.era] = eras[a.era]
  BY <1>1, <1>2 DEF ErasGrow
<1>6. SameView(a.at)
  BY <1>1, <1>2, <1>4, ViewStays
<1>7. assessment_values(a.era, a.at)' = assessment_values(a.era, a.at)
  BY <1>5, <1>6, ValuesStay
<1> QED  BY <1>4, <1>7 DEF Reproduces

LEMMA AssessmentsStandStay ==
  Core /\ Core' /\ Slots /\ AssessRows /\ ResolutionsStand /\ AssessmentsStand /\ [Next]_vars
    => AssessmentsStand'
<1> SUFFICES ASSUME Core, Core', Slots, AssessRows, ResolutionsStand, AssessmentsStand, [Next]_vars
             PROVE  AssessmentsStand'
  OBVIOUS
<1>1. CASE UNCHANGED vars
  <2>1. UNCHANGED <<recs, targets, eras, assessments, undercut, pass>>
    BY <1>1 DEF vars, experiments
  <2>2. \A a : assessment_values(a.era, a.at)' = assessment_values(a.era, a.at)
    <3>1. \A at : SameView(at)
      BY <2>1 DEF SameView, SameRow, SameTarget, Samples, Core, RecRows, SoundRecommendation
    <3> QED  BY <2>1, <3>1, ValuesStay
  <2> QED  BY <2>1, <2>2 DEF AssessmentsStand, Reproduces
<1>2. CASE Next
  <2>1. \A a \in assessments : Assessable(a, now) /\ a.at \in CutoffsRead /\ Reproduces(a)
    BY DEF AssessRows, CutoffsRead, AssessmentsStand
  <2>2. \A w \in Workers : pass[w].read # NoRead =>
          Assessable(pass[w].read, now) /\ pass[w].read.at \in CutoffsRead /\ Reproduces(pass[w].read)
    BY DEF AssessRows, CutoffsRead, AssessmentsStand
  <2>3. /\ \A a \in assessments : Reproduces(a)'
        /\ \A w \in Workers : pass[w].read # NoRead => \A a : a = pass[w].read => Reproduces(a)'
    <3>1. \A a : Assessable(a, now) /\ a.at \in CutoffsRead /\ Reproduces(a) => Reproduces(a)'
      BY <1>2, OneStands
    <3> QED  BY <2>1, <2>2, <3>1
  <2>4. ASSUME NEW a, Reads(a) PROVE Reproduces(a)'
    <3>1. UNCHANGED <<recs, targets, eras>>
      BY <2>4 DEF Reads
    <3>2. PICK e, at : a = Assessed(e, at)
      BY <2>4 DEF Reads
    <3>3. a.era = e /\ a.at = at /\ a.values = assessment_values(e, at)
      BY <3>2 DEF Assessed
    <3>4. assessment_values(e, at)' = assessment_values(e, at)
      <4>1. SameView(at)
        BY <3>1 DEF SameView, SameRow, SameTarget, Samples, Core, RecRows, SoundRecommendation
      <4> QED  BY <3>1, <4>1, ValuesStay
    <3> QED  BY <3>3, <3>4 DEF Reproduces
  <2>5. ASSUME NEW w \in Workers, StartPass(w) \/ Dies(w) \/ Step(w) PROVE AssessmentsStand'
    <3>1. ASSUME NEW v \in Workers, NEW a, a = pass'[v].read, a # NoRead PROVE Reproduces(a)'
      <4>1. a \in {pass[v].read, NoRead} \/ Reads(a)
        BY <2>5, <3>1, WorkersRead
      <4> QED  BY <2>3, <2>4, <3>1, <4>1
    <3>2. ASSUME NEW a \in assessments' PROVE Reproduces(a)'
      <4>1. CASE a \in assessments
        BY <2>3, <4>1
      <4>2. CASE a \notin assessments
        <5>1. AssessStore(w)
          BY <2>5, <4>2 DEF StartPass, Dies, Step, StoreStep, TargetsStep, ForecastsStep,
            RecommendationsStep, PortfolioStep, AssessRead, AssessStore, AssessDone, CheckStep, ReviewStep,
            ReassessStep, experiments
        <5>2. a = pass[w].read /\ pass[w].read # NoRead
          BY <4>2, <5>1 DEF AssessStore, refresh_experiment_assessment
        <5> QED  BY <2>3, <5>2
      <4> QED  BY <4>1, <4>2
    <3> QED  BY <3>1, <3>2 DEF AssessmentsStand
  <2>6. ASSUME UNCHANGED <<assessments, pass>> PROVE AssessmentsStand'
    BY <2>3, <2>6 DEF AssessmentsStand
  <2>7. \/ \E w \in Workers : StartPass(w) \/ Dies(w) \/ Step(w)
        \/ UNCHANGED <<assessments, pass>>
    BY <1>2 DEF Next, generate_recommendation, IssueBaselines, interpret_due_reviews, Authorize, Deploy,
      RegisterEra, Decide, Tick, experiments
  <2> QED  BY <2>5, <2>6, <2>7
<1> QED  BY <1>1, <1>2

\* Everything that is reported can be derived again from the rows, unless
\* something was stored under a time after it had been read
\* (populations.assessment_values, integrity.report,
\* reviews._create_or_reuse_review, interpretations._create_candidate_hypothesis).
Reported ==
  /\ Rows /\ AttemptIds /\ HypothesisSpansClusters /\ ReviewsCount
  /\ ResolutionsStand /\ AssessmentsStand

THEOREM ReportsAreReproducible == Spec => []ReportsReproduce
<1>1. Init => Reported
  <2> SUFFICES ASSUME Init PROVE Reported
    OBVIOUS
  <2>1. Rows /\ ResolutionsStand
    BY InitRows, ResolutionsStandFirst
  <2>2. /\ DOMAIN attempts = {} /\ hypothesis = {} /\ DOMAIN reviews = {} /\ assessments = {}
        /\ \A w \in Workers : pass[w].read = NoRead
    BY DEF Init, NoPass
  <2>3. AttemptIds /\ HypothesisSpansClusters /\ AssessmentsStand
    BY <2>2 DEF AttemptIds, HypothesisSpansClusters, AssessmentsStand
  <2>4. ReviewsCount
    BY <2>1, <2>2 DEF ReviewsCount, Rows, ReviewRows
  <2> QED  BY <2>1, <2>3, <2>4 DEF Reported
<1>2. Reported /\ [Next]_vars => Reported'
  <2> SUFFICES ASSUME Reported, [Next]_vars PROVE Reported'
    OBVIOUS
  <2>1. Rows /\ Rows' /\ Core /\ Core' /\ Slots /\ AssessRows
    BY NextRows DEF Reported, Rows
  <2>2. (AttemptIds /\ HypothesisSpansClusters)'
    BY <2>1, HypothesisStays DEF Reported
  <2>3. ReviewsCount'
    BY <2>1, ReviewsCountStay DEF Reported
  <2>4. ResolutionsStand'
    BY <2>1, ResolutionsStandStay DEF Reported
  <2>5. AssessmentsStand'
    BY <2>1, AssessmentsStandStay DEF Reported
  <2> QED  BY <2>1, <2>2, <2>3, <2>4, <2>5 DEF Reported
<1>3. Reported => ReportsReproduce
  <2> SUFFICES ASSUME Reported PROVE ReportsReproduce
    OBVIOUS
  <2>1. AssessmentsReproduce
    BY DEF Reported, AssessmentsStand, Reproduces, AssessmentsReproduce, assessment_mismatch
  <2>2. ReportIsExplained
    BY ReportExplained DEF Reported, Rows
  <2>3. ReviewsFollowFacts
    BY ReviewsFollow DEF Reported
  <2> QED  BY <2>1, <2>2, <2>3 DEF Reported, ReportsReproduce
<1> QED  BY <1>1, <1>2, <1>3, PTL DEF Spec
=============================================================================
