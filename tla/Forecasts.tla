----------------------------- MODULE Forecasts -----------------------------
(***************************************************************************)
(* The forecast side as it runs: ingestion, the hourly reconciliation, the *)
(* command that resolves forecasts, generation, health, reviews and the    *)
(* owner's decisions, interleaved (forecasts/operations.py,                *)
(* operations/tasks.py and the management commands over Targets,           *)
(* Experiments and Reviews).                                               *)
(*                                                                         *)
(* A pass is one job or command.  Each of its steps reads the time when    *)
(* the step before it ends and commits later, so other passes and the      *)
(* clock move between a step's stamp and its commit.                       *)
(***************************************************************************)
EXTENDS Reviews

CONSTANTS
  Workers,   \* who may run a pass
  Plans      \* starting states with the bounds explored from each

VARIABLES
  plan,      \* the plan of this behaviour
  pass,      \* the pass each worker runs
  spent,     \* passes and generations started
  undercut   \* times under which something was stored after they were read

experiments == <<config, eras, gen, assessments, failed, deciding, decisions>>
postmortems == <<cutoffs, reviews, attempts, hypothesis, authorized>>
vars == <<now, market, targets, legacy, recs, raised, experiments, postmortems,
          plan, pass, spent, undercut>>

NoRead == [era |-> None, at |-> None, rows |-> {}, values |-> <<>>]
NoPass == [todo |-> <<>>, at |-> None, failed |-> FALSE, era |-> None, read |-> NoRead]

\* A job runs its steps to the mark "check" whatever fails and then ends if
\* something has; a failure after the mark ends it at once.
reconcile == <<"targets", "forecasts", "recommendations", "portfolio", "health", "check">>
resolve_forecasts == <<"forecasts", "recommendations", "portfolio", "review">>
refresh_experiments == <<"health">>
build_postmortems == <<"review">>
Programs == {"reconcile", "ingest_D", "ingest_H1", "resolve_forecasts", "refresh_experiments",
             "build_postmortems", "reassess"}
Program(name) ==
  CASE name = "reconcile" -> reconcile
    [] name = "ingest_D"  -> <<"store">>
    [] name = "ingest_H1" -> <<"portfolio", "review">>
    [] name = "resolve_forecasts" -> resolve_forecasts
    [] name = "refresh_experiments" -> refresh_experiments
    [] name = "build_postmortems" -> build_postmortems
    [] name = "reassess" -> <<"reassess">>

enabled == \E e \in EraIds : eras[e].starts <= now

\* What an ingestion of daily candles does once they are stored.
AfterStore == (IF enabled THEN reconcile ELSE <<>>)
              \o <<"forecasts", "recommendations", "portfolio", "review">>

-----------------------------------------------------------------------------
(* A starting state is one the program can have reached: its rows have the *)
(* shapes of their classes and lie in the past, and what was stored        *)
(* together still fits together.                                           *)

\* A candle is stored under a time at which its session was complete.
SoundMarket(time, stored, calculated) ==
  /\ time \in Nat \ {0}
  /\ stored \in [Days -> 0..time] /\ calculated \in [Days -> Seq(1..time)]
  /\ \A d \in Days : stored[d] # None => Completion(d) <= stored[d]

\* A prediction's outcome is the shared one, derived no earlier.
Agrees(res, shared) ==
  res # NoRes => shared # NoRes /\ res.outcome = shared.outcome /\ res.end = shared.end
                 /\ res.at >= shared.at

SoundTarget(time, calculated, t, x) ==
  /\ t \in Days \X (Nat \ {0}) /\ t[2] \in DOMAIN calculated[t[1]]
  /\ x \in TargetOccurrence
  /\ validate_target(t, x)
  /\ x.registered <= x.issued /\ x.issued <= time /\ x.issued < Maturity(t[1])
  /\ x.res # NoRes => x.res.outcome # "none" /\ x.res.at <= time
  /\ Agrees(x.ctl, x.res)
  /\ x.macro # NoRes => x.macro.end - t[1] >= MacroHorizon

\* A resolution is what its time finds stored for the endpoint.
SoundResolution(stored, t, r) ==
  LET e == Endpoint(t[1])
      found == e \in Days /\ stored[e] \in 1..r.at
  IN /\ Maturity(t[1]) <= r.at
     /\ found \/ r.outcome = "missing"
     /\ found => r.end = e /\ r.outcome = classify_change(Price[e] - Price[t[1]], Bands[t[2]])

SoundEra(es, e) ==
  /\ es[e].kind = "challenger" <=> es[e].champion # None
  /\ es[e].champion # None => es[e].champion \in DOMAIN es /\ es[es[e].champion].kind = "champion"
  /\ es[e].supersedes # None =>
       es[e].supersedes \in DOMAIN es /\ es[es[e].supersedes].kind = es[e].kind

SoundEras(es) ==
  /\ es \in Seq([kind : {"champion", "challenger"}, method : ForecastMethodIdentity,
                  policy : {c.policy : c \in Configs}, starts : Nat,
                  supersedes : Nat, champion : Nat])
  /\ \A e \in DOMAIN es : SoundEra(es, e)

\* The method was that of a champion at the time.
ChampionIssued(es, method, at) ==
  \E e \in DOMAIN es : es[e].kind = "champion" /\ es[e].method = method /\ es[e].starts <= at

InEra(es, e, at) ==
  /\ es[e].starts <= at
  /\ \A f \in DOMAIN es : es[f].supersedes = e => at <= es[f].starts

SoundRecommendation(time, rows, es, x) ==
  /\ x \in [at : 1..time, target : DOMAIN rows, offer : Offer, snapshot : Nat,
            method : ForecastMethodIdentity, eras : SUBSET DOMAIN es,
            res : RecommendationResolution, facts : Seq(PaperFacts)]
  /\ rows[x.target].issued <= x.at
  /\ Agrees(x.res, rows[x.target].res)
  /\ x.res # NoRes => x.at <= x.res.at
  /\ \A e \in x.eras : InEra(es, e, x.at)
  /\ ChampionIssued(es, x.method, x.at)

\* What is paid for cites a control of its time.
SoundGeneration(time, rows, es, g) ==
  /\ g.pc = "none" => g = NoGen
  /\ g \in [pc : {"none", "check", "paid"}, at : 0..time, target : (DOMAIN rows) \cup {NoContract},
            method : ForecastMethodIdentity \cup {None}, snapshot : Nat]
  /\ g.pc # "none" => g.at # 0
  /\ g.pc = "paid" =>
       /\ g.target \in DOMAIN rows /\ g.method \in ForecastMethodIdentity
       /\ rows[g.target].issued <= g.at /\ g.at < Maturity(g.target[1])
       /\ ChampionIssued(es, g.method, g.at)

SoundStart(s) ==
  /\ SoundMarket(s.now, s.candles, s.tech)
  /\ \A t \in DOMAIN s.targets :
       /\ SoundTarget(s.now, s.tech, t, s.targets[t])
       /\ s.targets[t].res # NoRes => SoundResolution(s.candles, t, s.targets[t].res)
  /\ SoundEras(s.eras)
  /\ \A r \in DOMAIN s.recs : SoundRecommendation(s.now, s.targets, s.eras, s.recs[r])
  /\ SoundGeneration(s.now, s.targets, s.eras, s.gen)
  /\ s.config \in Configs /\ s.authorized \in BOOLEAN

\* A plan starts from such a state and explores what the classes admit.
SoundPlan(p) ==
  LET issued == Cardinality(DOMAIN p.start.recs)
  IN /\ SoundStart(p.start) /\ p.start.now <= p.until
     /\ p.programs \subseteq Programs /\ p.arrivals \subseteq Days
     /\ p.snapshots \subseteq Nat /\ p.offers \subseteq Offer /\ p.configs \subseteq Configs
     /\ p.terminals \subseteq {"target_hit", "missing_data"}
     /\ p.decisions \subseteq {"continue", "reject", "promote"}
     /\ DOMAIN p.start.recs = 1..issued
     /\ 1..(issued + p.gens + (IF p.start.gen = NoGen THEN 0 ELSE 1)) \subseteq Recs
     /\ {p.until, p.gens, issued} \subseteq Nat

ASSUME ForecastsAssumption ==
  /\ \E last \in Days : Days \subseteq 1..last
  /\ {Session, Horizon, MacroHorizon} \subseteq Nat \ {0} /\ MinClusters \in Nat
  /\ Policy \in EvaluationPolicy
  /\ \A c \in Configs : {c.method, c.policy} \subseteq Nat
  /\ \A p \in Plans : SoundPlan(p)

-----------------------------------------------------------------------------
Init ==
  /\ plan \in Plans
  /\ now = plan.start.now
  /\ candles = plan.start.candles
  /\ tech = plan.start.tech
  /\ targets = plan.start.targets
  /\ legacy = <<>>
  /\ recs = plan.start.recs
  /\ raised = {}
  /\ config = plan.start.config
  /\ eras = plan.start.eras
  /\ gen = plan.start.gen
  /\ assessments = {} /\ failed = {} /\ deciding = {} /\ decisions = {}
  /\ cutoffs = <<>> /\ reviews = <<>> /\ attempts = <<>> /\ hypothesis = {}
  /\ authorized = plan.start.authorized
  /\ pass = [w \in Workers |-> NoPass]
  /\ spent = [passes |-> 0, gens |-> 0]
  /\ undercut = {}

AtStep(w, op) == pass[w].todo # <<>> /\ Head(pass[w].todo) = op

\* The next step reads its time now, unless it reads none.
Timeless == {"forecasts", "recommendations", "check"}
Ready(todo, bad) ==
  [todo |-> todo, at |-> IF Head(todo) \in Timeless THEN None ELSE now,
   failed |-> bad, era |-> None, read |-> NoRead]

\* The pass after a step.
Advanced(w, bad) ==
  LET p == pass[w]
      left == IF bad /\ "check" \notin Range(p.todo) THEN <<>> ELSE Tail(p.todo)
  IN IF left = <<>> THEN NoPass
     ELSE Ready(left, p.failed \/ bad)
Advance(w, bad) == pass' = [pass EXCEPT ![w] = Advanced(w, bad)]

StartPass(w) ==
  \E name \in plan.programs :
    /\ pass[w] = NoPass /\ spent.passes < plan.passes
    /\ Cardinality({v \in Workers : pass[v] # NoPass}) < plan.concurrent
    /\ name = "reconcile" => enabled
    /\ pass' = [pass EXCEPT ![w] = Ready(Program(name), FALSE)]
    /\ spent' = [spent EXCEPT !.passes = @ + 1]
    /\ UNCHANGED <<now, market, targets, legacy, recs, raised, experiments, postmortems, plan>>

\* The job dies; what it committed stays.
Dies(w) ==
  /\ plan.deaths /\ pass[w] # NoPass
  /\ pass' = [pass EXCEPT ![w] = NoPass]
  /\ UNCHANGED <<now, market, targets, legacy, recs, raised, experiments, postmortems, plan, spent>>

StoreStep(w) ==
  /\ AtStep(w, "store")
  /\ \E B \in SUBSET {d \in plan.arrivals : candles[d] = None} : store_ingestion(B, pass[w].at)
  /\ pass' = [pass EXCEPT ![w] = Ready(AfterStore, FALSE)]
  /\ UNCHANGED <<now, targets, legacy, recs, raised, experiments, postmortems, plan, spent>>

TargetsStep(w) ==
  /\ AtStep(w, "targets")
  /\ reconcile_targets(pass[w].at)
  /\ Advance(w, TargetsRefused(pass[w].at) \/ raised' # raised)
  /\ UNCHANGED <<now, market, legacy, recs, experiments, postmortems, plan, spent>>

ForecastsStep(w) ==
  /\ AtStep(w, "forecasts")
  /\ resolve_due_forecasts
  /\ Advance(w, raised' # raised)
  /\ UNCHANGED <<now, market, recs, experiments, postmortems, plan, spent>>

RecommendationsStep(w) ==
  /\ AtStep(w, "recommendations")
  /\ resolve_due_recommendations
  /\ Advance(w, raised' # raised)
  /\ UNCHANGED <<now, market, legacy, experiments, postmortems, plan, spent>>

PortfolioStep(w) ==
  /\ AtStep(w, "portfolio")
  /\ \/ UNCHANGED recs
     \/ \E r \in DOMAIN recs, kind \in plan.terminals :
          /\ recs[r].offer.action # "abstain" /\ Len(recs[r].facts) < plan.facts
          /\ PaperFact(r, kind, pass[w].at)
  /\ Advance(w, FALSE)
  /\ UNCHANGED <<now, market, targets, legacy, raised, experiments, postmortems, plan, spent>>

\* The eras the health step assesses before an era: the last started comes
\* first.
AssessedBefore(e) ==
  {f \in EraIds : \/ eras[f].starts > eras[e].starts
                  \/ eras[f].starts = eras[e].starts /\ f > e}

AssessRead(w) ==
  /\ AtStep(w, "health") /\ pass[w].read = NoRead
  /\ \E e \in EraIds :
       /\ Cardinality(AssessedBefore(e)) = pass[w].era
       /\ pass' = [pass EXCEPT ![w].era = @ + 1, ![w].read = Assessed(e, pass[w].at)]
  /\ UNCHANGED <<now, market, targets, legacy, recs, raised, experiments, postmortems, plan, spent>>

AssessStore(w) ==
  /\ AtStep(w, "health") /\ pass[w].read # NoRead
  /\ \/ refresh_experiment_assessment(pass[w].read) /\ UNCHANGED failed
     \/ /\ plan.failures
        /\ failed' = failed \cup {<<pass[w].read.era, pass[w].read.at>>}
        /\ UNCHANGED assessments
  /\ pass' = [pass EXCEPT ![w].read = NoRead]
  /\ UNCHANGED <<now, market, targets, legacy, recs, raised, postmortems, plan, spent,
                 config, eras, gen, deciding, decisions>>

AssessDone(w) ==
  /\ AtStep(w, "health") /\ pass[w].read = NoRead /\ pass[w].era >= Len(eras)
  /\ Advance(w, FALSE)
  /\ UNCHANGED <<now, market, targets, legacy, recs, raised, experiments, postmortems, plan, spent>>

CheckStep(w) ==
  /\ AtStep(w, "check")
  /\ pass' = [pass EXCEPT ![w] = IF @.failed THEN NoPass ELSE Advanced(w, FALSE)]
  /\ UNCHANGED <<now, market, targets, legacy, recs, raised, experiments, postmortems, plan, spent>>

ReviewStep(w) ==
  /\ AtStep(w, "review")
  /\ build_due_review_cohort(pass[w].at)
  /\ Advance(w, FALSE)
  /\ UNCHANGED <<now, market, targets, legacy, recs, raised, experiments, plan, spent,
                 attempts, hypothesis, authorized>>

ReassessStep(w) ==
  /\ AtStep(w, "reassess")
  /\ \E cutoff \in Range(cutoffs) : reassess_review_cohort(cutoff, pass[w].at)
  /\ Advance(w, FALSE)
  /\ UNCHANGED <<now, market, targets, legacy, recs, raised, experiments, plan, spent,
                 cutoffs, attempts, hypothesis, authorized>>

Step(w) == \/ StoreStep(w) \/ TargetsStep(w) \/ ForecastsStep(w) \/ RecommendationsStep(w)
           \/ PortfolioStep(w) \/ AssessRead(w) \/ AssessStore(w) \/ AssessDone(w)
           \/ CheckStep(w) \/ ReviewStep(w) \/ ReassessStep(w)

-----------------------------------------------------------------------------
(* Generation, postmortems and the owner.                                  *)

generate_recommendation ==
  /\ UNCHANGED <<now, market, targets, legacy, postmortems, plan, pass,
                 config, eras, assessments, failed, deciding, decisions>>
  /\ \/ /\ spent.gens < plan.gens
        /\ GenerateStart
        /\ spent' = [spent EXCEPT !.gens = @ + 1]
        /\ UNCHANGED <<recs, raised>>
     \/ /\ \E snapshot \in plan.snapshots : GenerateCheck(snapshot)
        /\ UNCHANGED <<raised, spent>>
     \/ /\ \E o \in plan.offers : GenerateStore(Cardinality(DOMAIN recs) + 1, o)
        /\ UNCHANGED spent
     \/ GenerateFails /\ UNCHANGED <<recs, raised, spent>>

IssueBaselines ==
  /\ plan.baselines
  /\ issue_baselines
  /\ UNCHANGED <<now, market, targets, recs, raised, experiments, postmortems, plan, pass, spent>>

interpret_due_reviews ==
  /\ plan.interpret
  /\ \E r \in Members, status \in {"accepted", "rejected"} : interpret_review_member(r, status)
  /\ UNCHANGED <<now, market, targets, legacy, recs, raised, experiments, plan, pass, spent,
                 cutoffs, reviews, authorized>>

Authorize ==
  /\ authorize_candidate_hypothesis
  /\ UNCHANGED <<now, market, targets, legacy, recs, raised, experiments, plan, pass, spent,
                 cutoffs, reviews, attempts, hypothesis>>

Deploy ==
  /\ \E c \in plan.configs : c # config /\ config' = c
  /\ UNCHANGED <<now, market, targets, legacy, recs, raised, postmortems, plan, pass, spent,
                 eras, gen, assessments, failed, deciding, decisions>>

RegisterEra ==
  /\ Len(eras) < plan.eras
  /\ \/ \E starts \in {now, now + 1} : register_champion_era(starts)
     \/ authorized /\ \E c \in plan.configs : start_challenger_era(c.method)
  /\ UNCHANGED <<now, market, targets, legacy, recs, raised, postmortems, plan, pass, spent,
                 config, gen, assessments, failed, deciding, decisions>>

Decide ==
  /\ UNCHANGED <<now, market, targets, legacy, recs, raised, postmortems, plan, pass, spent,
                 config, eras, gen, assessments, failed>>
  /\ \/ /\ \E e \in EraIds, d \in plan.decisions : DecideCheck(e, d)
        /\ UNCHANGED decisions
     \/ \E p \in deciding : record_promotion_decision(p)

Tick ==
  /\ now < plan.until
  /\ now' = now + 1
  /\ UNCHANGED <<market, targets, legacy, recs, raised, experiments, postmortems, plan, pass, spent>>

-----------------------------------------------------------------------------
(* The read-only integrity report.                                         *)

\* The codes it raises as of a time for recommendations, targets and samples.
report(at) ==
  LET issued == {r \in DOMAIN recs : recs[r].at <= at}
      registered == {t \in DOMAIN targets : targets[t].registered <= at}
      mature(t) == Maturity(t[1]) <= at
      shared(t) == IF Known(targets[t].res, at) THEN targets[t].res ELSE NoRes
      agrees(res, t) == Known(res, at) => res.outcome = shared(t).outcome
      holds ==
        [retrospective_control |->
           \A r \in issued : targets[recs[r].target].issued <= recs[r].at,
         recommendation_control_identity_mismatch |->
           \A r \in issued : comparable_control(r, recs[r].at),
         recommendation_shared_resolution_disagreement |->
           \A r \in issued : agrees(recs[r].res, recs[r].target),
         target_identity_invalid |-> \A t \in registered : validate_target(t, targets[t]),
         mature_target_missing_resolution |->
           \A t \in registered : mature(t) => shared(t) # NoRes,
         shared_resolution_invalid |->
           \A t \in registered : shared(t) # NoRes => validate_resolution(t, shared(t)),
         immature_target_marked_missing |->
           \A t \in registered : shared(t).outcome = "missing" => mature(t),
         forecast_shared_resolution_disagreement |->
           \A t \in registered : shared(t) # NoRes => agrees(targets[t].ctl, t),
         sample_before_cutover |->
           \A r \in issued : \A e \in recs[r].eras : eras[e].starts <= recs[r].at]
  IN {code \in DOMAIN holds : ~holds[code]}

assessment_mismatch(a) == assessment_values(a.era, a.at) # a.values

-----------------------------------------------------------------------------
\* What is stored, with the time it is stored under.
StampedFacts ==
  (UNION {{<<"sample", r, e, recs[r].at>> : e \in recs[r].eras}
          \cup {<<"fact", r, i, recs[r].facts[i].at>> : i \in DOMAIN recs[r].facts}
          \cup {<<"res", r, None, recs[r].res.at>>} : r \in DOMAIN recs})
  \cup (UNION {{<<"shared", t, None, targets[t].res.at>>, <<"ctl", t, None, targets[t].ctl.at>>} :
                 t \in DOMAIN targets})

CutoffsRead == {a.at : a \in assessments} \cup {pass[w].read.at : w \in Workers}
FoundMissing == {targets[t].res.at : t \in {u \in DOMAIN targets : targets[u].res.outcome = "missing"}}

\* History: the times that something stored by this step reaches back under,
\* a fact under an assessment's cutoff or a candle under a finding that no
\* candle was there.
Observe ==
  undercut' = undercut
    \cup {<<"assessed", c>> : c \in {x \in CutoffsRead :
             \E f \in StampedFacts' \ StampedFacts : f[4] \in 1..x}}
    \cup {<<"missing", c>> : c \in {x \in FoundMissing :
             \E d \in Days : candles[d] = None /\ candles'[d] \in 1..x}}

Next ==
  /\ \/ \E w \in Workers : StartPass(w) \/ Dies(w) \/ Step(w)
     \/ generate_recommendation \/ IssueBaselines \/ interpret_due_reviews
     \/ Authorize \/ Deploy \/ RegisterEra \/ Decide \/ Tick
  /\ Observe

Spec == Init /\ [][Next]_vars

-----------------------------------------------------------------------------
(* Properties.                                                             *)

\* Every row has the shape its class declares: a resolution names a session
\* exactly when it is scored, an era cites a champion exactly when it is a
\* challenger, a review supersedes one of its own kind, and membership,
\* reviews and attempts refer to each other (forecasts/models.py).
TypeOK ==
  /\ now \in 1..plan.until
  /\ candles \in [Days -> 0..now]
  /\ tech \in [Days -> Seq(1..now)]
  /\ \A t \in DOMAIN targets : /\ t[1] \in Days /\ t[2] \in DOMAIN tech[t[1]]
                               /\ targets[t] \in TargetOccurrence
  /\ \A t \in DOMAIN legacy : legacy[t] \in ForecastResolution
  /\ Policy \in EvaluationPolicy /\ config \in Configs
  /\ Range(eras) \subseteq ExperimentEra
  /\ DOMAIN recs \subseteq Recs
  /\ \A r \in DOMAIN recs : recs[r] \in Recommendation /\ recs[r].eras \subseteq ExperimentSample(r)
  /\ assessments = ExperimentAssessment /\ failed \subseteq EraIds \X (1..now)
  /\ deciding \cup decisions \subseteq PromotionRecord
  /\ Members = DOMAIN reviews /\ DOMAIN attempts \subseteq Members
  /\ \A r \in Members : \A i \in DOMAIN reviews[r] :
       Restrict(reviews[r][i], {"kind", "coverage", "at", "supersedes"}) \in DeterministicReview(r)
  /\ \A r \in DOMAIN attempts : Restrict(attempts[r], {"status", "id"}) \in InterpretationAttempt
  /\ hypothesis \subseteq LearningObservation
  /\ authorized \in BOOLEAN
  /\ undercut \subseteq {"assessed", "missing"} \X (1..now)

\* The endpoint, the eligibility of its candle, the control and the outcome
\* that the services compute are the ones the triggers compute again in SQL:
\* no insert of a pass is ever refused (migrations 0019 to 0022).
TriggersAgree == raised = {}

\* Every prediction of a target carries the one shared outcome: a control and
\* a recommendation never disagree, also when one was derived long before the
\* other or a late candle arrived in between (targets.derive_resolution).
DerivedMatchesShared ==
  /\ \A t \in DOMAIN targets : Agrees(targets[t].ctl, targets[t].res)
  /\ \A r \in DOMAIN recs : Agrees(recs[r].res, targets[recs[r].target].res)

\* A baseline without a target is scored at the horizon or, over a gap in the
\* candles, later; never before it (services.resolve_forecast).
LegacyNeverEarly ==
  /\ \A t \in DOMAIN legacy : legacy[t] # NoRes => legacy[t].end - t[1] >= Horizon
  /\ \A t \in DOMAIN targets :
       targets[t].macro # NoRes => targets[t].macro.end - t[1] >= MacroHorizon

\* When the recommendation step of any pass ends, each recommendation whose
\* target has matured is resolved, even if the target step of the pass failed
\* and rolled its own resolutions back (operations.reconcile).
MatureIsSettled ==
  [][\A w \in Workers : RecommendationsStep(w) =>
       \A r \in DOMAIN recs : Maturity(recs[r].target[1]) <= now => recs'[r].res # NoRes]_vars

\* A sample was issued inside its era: not before the start, and not after
\* the start of an era that supersedes it, also when the registration came
\* while the provider was being paid (experiments.assign_recommendation).
SamplesFallInTheirEras ==
  \A r \in DOMAIN recs : \A e \in recs[r].eras :
    /\ eras[e].starts <= recs[r].at
    /\ \A f \in EraIds : eras[f].supersedes = e => recs[r].at <= eras[f].starts

\* Once the owner has rejected or promoted a challenger, its samples are
\* final (experiments.assign_recommendation).
DecidedErasAreFinal ==
  [][\A e \in EraIds : Ended(e) =>
       \A r \in DOMAIN recs' : e \in recs'[r].eras => r \in DOMAIN recs /\ e \in recs[r].eras]_vars

\* A challenger collects a sample only from a method that is or was itself the
\* registered champion when the sample was issued: nothing is generated
\* under a method that is merely challenging (experiments.ensure_champion_era).
ChallengerSamplesAreChampionIssued ==
  \A r \in DOMAIN recs : recs[r].eras # {} =>
    \E e \in EraIds : /\ eras[e].kind = "champion" /\ eras[e].method = recs[r].method
                      /\ eras[e].starts <= recs[r].at

\* An assessment can be computed again from its cutoff alone with the same
\* result, for ever, unless a fact was stored under a time at or before the
\* cutoff after the assessment had read (populations.assessment_values,
\* integrity.report).
AssessmentsReproduce ==
  \A a \in assessments : <<"assessed", a.at>> \notin undercut => ~assessment_mismatch(a)

\* The integrity report finds nothing but a mature target still waiting for
\* its pass, and a target found missing under which a candle was stored later
\* with an earlier finished_at (integrity.report).
ReportIsExplained ==
  /\ report(now) \subseteq {"mature_target_missing_resolution", "shared_resolution_invalid"}
  /\ \A t \in DOMAIN targets :
       LET r == targets[t].res
       IN r # NoRes /\ ~validate_resolution(t, r) => <<"missing", r.at>> \in undercut

\* A later assessment of a member saw more than an earlier one, in whatever
\* order reassessments with stale times ran, so the current review is the
\* fullest; unless a fact was stored under its time after it had read
\* (reviews._create_or_reuse_review).
ReviewsFollowFacts ==
  \A r \in Members : \A i, j \in DOMAIN reviews[r] :
    LET a == reviews[r][i]  b == reviews[r][j]
    IN a.kind = "execution" /\ b.kind = "execution" /\ a.at < b.at
         => \/ a.input[2] < b.input[2]
            \/ b.input[2] < Cardinality(Facts(r, b.at))

\* A review pass freezes every recommendation that was resolved and terminal
\* by its cutoff and touches no member of an earlier cohort
\* (reviews.build_due_review_cohort).
ReviewFreezesTheRest ==
  [][\A w \in Workers : ReviewStep(w) =>
       /\ \A r \in Members : cutoffs'[r] = cutoffs[r] /\ reviews'[r] = reviews[r]
       /\ \A r \in DOMAIN recs : Projectable(r, pass[w].at) => r \in DOMAIN cutoffs']_vars

\* The hypothesis the owner may authorize rests on accepted observations of
\* enough distinct issuances (interpretations._create_candidate_hypothesis).
HypothesisSpansClusters ==
  hypothesis # {} =>
    /\ Cardinality({recs[r].at : r \in hypothesis}) >= MinClusters
    /\ \A r \in hypothesis : attempts[r].status = "accepted"

\* Every writer of an outcome agrees with every other: rows have the shapes of
\* their classes, the services with the triggers, a prediction with its
\* target, and a baseline without one is never scored early.
OutcomesAgree ==
  /\ TypeOK
  /\ TriggersAgree
  /\ DerivedMatchesShared
  /\ LegacyNeverEarly

\* An era's samples are its own: issued inside it, and a challenger's under a
\* method that was the champion's.
SamplesRespectEras ==
  /\ SamplesFallInTheirEras
  /\ ChallengerSamplesAreChampionIssued

\* What is reported can be derived again from the rows: assessments from their
\* cutoffs, the integrity report from stale observations, a review and a
\* hypothesis from the facts they cite.
ReportsReproduce ==
  /\ AssessmentsReproduce
  /\ ReportIsExplained
  /\ ReviewsFollowFacts
  /\ HypothesisSpansClusters

\* A pass settles what is due and leaves alone what was decided: mature
\* recommendations are resolved, the samples of a decided era are final, and
\* a review touches no earlier cohort.
PassesSettle ==
  /\ MatureIsSettled
  /\ DecidedErasAreFinal
  /\ ReviewFreezesTheRest
=============================================================================
