---------------------------- MODULE Experiments ----------------------------
(***************************************************************************)
(* Issuing model recommendations against an exact control, and the eras    *)
(* that collect them (forecasts/recommendations.py, experiments.py and     *)
(* populations.py under migrations 0016 and 0020 to 0029).                 *)
(*                                                                         *)
(* A generation reads its time before it checks anything and before the    *)
(* paid call, and stores under that time afterwards.  An assessment reads  *)
(* its cutoff, then the samples, and stores later.  Scores are exact       *)
(* integers; the width of the Hoeffding interval is a constant for each    *)
(* number of clusters.                                                     *)
(***************************************************************************)
EXTENDS Targets

CONSTANTS
  Configs,     \* the method and policy versions the program may run with
  Policy,      \* minimums and limits of the evaluation policy
  Width,       \* half width of the interval for 1, 2, ... clusters
  Week         \* the ISO week of each session

VARIABLES
  config,       \* the method and the policy the program runs with
  eras,         \* the experiment eras, in order of insertion
  gen,          \* the generation under way
  assessments,  \* the stored assessments
  failed,       \* era and cutoff of the failed attempts
  deciding,     \* promotion decisions checked and not yet stored
  decisions     \* the stored promotion decisions

EraIds == DOMAIN eras

\* The rows.
EvaluationPolicy ==
  [raw : Nat \ {0}, days : Nat \ {0}, clusters : Nat \ {0}, coverage : 1..100, calibration : 0..100]
ForecastMethodIdentity == {c.method : c \in Configs}
ExperimentEra ==
  {e \in [kind : {"champion", "challenger"}, method : ForecastMethodIdentity,
          policy : {c.policy : c \in Configs}, starts : Nat,
          supersedes : EraIds \cup {None}, champion : EraIds \cup {None}] :
     /\ (e.kind = "challenger") <=> (e.champion # None)
     /\ e.champion # None => eras[e.champion].kind = "champion"
     /\ e.supersedes # None => eras[e.supersedes].kind = e.kind}
Offer == [action : {"abstain", "buy", "sell"}, p : Percentages]
PaperFacts == [at : Nat, kind : {"abstained", "target_hit", "missing_data", "cost"}]
\* A recommendation with its outcome, its samples and its paper facts.
Recommendation ==
  [at : Nat, target : DOMAIN targets, offer : Offer, snapshot : Nat,
   method : ForecastMethodIdentity, eras : SUBSET EraIds, res : RecommendationResolution,
   facts : Seq(PaperFacts)]
\* The era of a sample of recommendation r.
ExperimentSample(r) == {e \in EraIds : eras[e].starts <= recs[r].at}
Status == {"collecting", "coverage_limited", "guardrail_failed", "descriptive_ready",
           "promotion_eligible"}
ExperimentAssessment ==
  {a \in assessments : /\ a.era \in EraIds /\ a.values.status \in Status
                       /\ a.values.scored <= a.values.raw}
PromotionRecord ==
  {p \in [era : EraIds, at : Nat, decision : {"continue", "reject", "promote"}] :
     eras[p.era].kind = "challenger"}

NoGen == [pc |-> "none", at |-> None, target |-> NoContract, method |-> None, snapshot |-> None]
Superseded(e) == \E f \in EraIds : eras[f].supersedes = e
Terminal == {"reject", "promote"}
Ended(e) == \E p \in decisions : p.era = e /\ p.decision \in Terminal

\* The champion with the last start, the later insertion winning a tie.
LatestChampion ==
  LET C == {e \in EraIds : eras[e].kind = "champion"}
      L == {e \in C : \A f \in C : eras[f].starts <= eras[e].starts}
  IN IF L = {} THEN None ELSE Max(L)

Matches(e) == eras[e].method = config.method /\ eras[e].policy = config.policy

-----------------------------------------------------------------------------
(* Eras.                                                                   *)

\* ensure_champion_era without registration: the era, or None when refused.
ensure_champion_era(at) ==
  LET e == LatestChampion
  IN IF e # None /\ Matches(e) /\ eras[e].starts <= at THEN e ELSE None

register_champion_era(starts) ==
  LET last == LatestChampion
      new == [kind |-> "champion", method |-> config.method, policy |-> config.policy,
              starts |-> starts, supersedes |-> last, champion |-> None]
  IN /\ starts >= now
     /\ last # None => ~Matches(last)
     /\ new \notin Range(eras)
     /\ eras' = Append(eras, new)

\* The owner starts the one authorized challenger against the last champion.
start_challenger_era(method) ==
  LET champion == LatestChampion
  IN /\ \A e \in EraIds : eras[e].kind # "challenger"
     /\ champion # None /\ eras[champion].method # method
     /\ eras' = Append(eras, [kind |-> "challenger", method |-> method,
                              policy |-> eras[champion].policy, starts |-> now,
                              supersedes |-> None, champion |-> champion])
\* Mutants of assign_recommendation.
assign_recommendation_Superseded(method, at) ==
  {e \in EraIds : eras[e].method = method /\ eras[e].starts <= at /\ ~Ended(e)}
assign_recommendation_Decided(method, at) ==
  {e \in EraIds : eras[e].method = method /\ eras[e].starts <= at /\ ~Superseded(e)}

assign_recommendation(method, at) ==
  {e \in EraIds : /\ eras[e].method = method /\ eras[e].starts <= at
                  /\ ~Superseded(e) /\ ~Ended(e)}

phase3_sample(e, at) ==
  IF at < eras[e].starts THEN {"prospective_era_mismatch"} ELSE {}

-----------------------------------------------------------------------------
(* Recommendations.                                                        *)

GenerateStart ==
  /\ gen = NoGen
  /\ gen' = [NoGen EXCEPT !.pc = "check", !.at = now]

\* The recommendation of the same evidence snapshot and candle.
Existing(t, snapshot) ==
  {r \in DOMAIN recs : recs[r].target[1] = t[1] /\ recs[r].snapshot = snapshot}

\* Either refused, or found already issued (and assigned again), or ready for
\* the paid call with target, control and method settled.
GenerateCheck(snapshot) ==
  LET t == exact_control(gen.at)
      era == ensure_champion_era(gen.at)
      same == Existing(t, snapshot)
      again == assign_recommendation(config.method, recs[Max(same)].at)
  IN /\ gen.pc = "check"
     /\ IF t = NoContract \/ era = None
        THEN gen' = NoGen /\ UNCHANGED recs
        ELSE IF same # {}
        THEN /\ gen' = NoGen
             /\ recs' = IF recs[Max(same)].at >= eras[era].starts
                        THEN [recs EXCEPT ![Max(same)].eras = @ \cup again] ELSE recs
        ELSE /\ gen' = [gen EXCEPT !.pc = "paid", !.target = t,
                                   !.method = config.method, !.snapshot = snapshot]
             /\ UNCHANGED recs

NewRecommendation(o) ==
  [at |-> gen.at, target |-> gen.target, offer |-> o, snapshot |-> gen.snapshot,
   method |-> gen.method, eras |-> assign_recommendation(gen.method, gen.at), res |-> NoRes,
   facts |-> IF o.action = "abstain" THEN <<[at |-> gen.at, kind |-> "abstained"]>> ELSE <<>>]

GenerateStore(r, o) ==
  LET t == targets[gen.target]
      bad == phase3_prediction_insert("recommendation", t.issued, gen.at)
             \cup phase3_issuance_time(gen.target, t.registered, gen.at)
             \cup UNION {phase3_sample(e, gen.at) : e \in assign_recommendation(gen.method, gen.at)}
  IN /\ gen.pc = "paid" /\ r \notin DOMAIN recs
     /\ raised' = raised \cup bad
     /\ recs' = IF bad # {} THEN recs
                ELSE Inserted(recs, r, NewRecommendation(o))
     /\ gen' = NoGen

\* The evidence is stale, or the call fails, its cost is over the cap or its
\* output is rejected.
GenerateFails ==
  /\ gen.pc \in {"check", "paid"}
  /\ gen' = NoGen

-----------------------------------------------------------------------------
(* Assessments.  A mean is scaled by 12, exact for up to four values, so a *)
(* score is in units of 1/(30000 * 12^3).                                  *)

Mean(f) == (12 * SumFunction(f)) \div Cardinality(DOMAIN f)
WeeksOf(T) == {Week[t[1]] : t \in T}
\* One mean per target, then one per week, then one over the weeks.
ClusterMean(f) ==
  Mean([w \in WeeksOf(DOMAIN f) |-> Mean(Restrict(f, {t \in DOMAIN f : Week[t[1]] = w}))])

UNIFORM_BRIER == 11519989   \* 0.222222
\* Mutant of Known.
Known_AnyTime(res, at) == res # NoRes

Known(res, at) == res # NoRes /\ res.at <= at

TargetScore(R, outcome) == Mean([r \in R |-> multiclass_brier(recs[r].offer.p, outcome)])

ControlScore(t) ==
  12 * multiclass_brier(Probabilities[Direction(t)], targets[t].res.outcome)

Samples(e, at) ==
  {r \in DOMAIN recs : /\ e \in recs[r].eras
                       /\ recs[r].at <= at /\ eras[e].starts <= recs[r].at}

Mature(T, at) == {t \in T : Maturity(t[1]) <= at}

\* The resolved members of a target whose shared outcome is scored.
Valid(S, t, at) ==
  {r \in S : /\ recs[r].target = t
             /\ Known(targets[t].res, at) /\ targets[t].res.outcome \in Scored
             /\ Known(recs[r].res, at)}

comparable_control(r, at) ==
  LET t == targets[recs[r].target] IN t.issued <= recs[r].at /\ t.issued <= at

Paired(S, t, at) ==
  {r \in Valid(S, t, at) : comparable_control(r, at) /\ Known(targets[t].ctl, at)}

\* Sum over the confidence bins of |weighted confidence - weighted hits|, the
\* weight of a target's members being 144 / (targets of the week * members).
_calibration_error(S, scored, at) ==
  LET top(r) == CHOOSE i \in 1..3 : LET p == recs[r].offer.p IN
                  /\ \A j \in 1..3 : p[j] <= p[i]
                  /\ \A j \in 1..(i - 1) : p[j] < p[i]
      resolved == UNION {Valid(S, t, at) : t \in scored}
      week(r) == Week[recs[r].target[1]]
      weight(r) == 144 \div (Cardinality({t \in scored : Week[t[1]] = week(r)})
                              * Cardinality(Valid(S, recs[r].target, at)))
      gap(r) == LET p == recs[r].offer.p[top(r)] IN
                  p - (IF Labels[top(r)] = recs[r].res.outcome THEN 100 ELSE 0)
      bin(r) == recs[r].offer.p[top(r)] \div 10
      inBin(b) == {r \in resolved : bin(r) = b}
      error(b) == SumFunction([r \in inBin(b) |-> weight(r) * gap(r)])
      bins == {bin(r) : r \in resolved}
  IN SumFunction([b \in bins |-> IF error(b) < 0 THEN -error(b) ELSE error(b)])

\* Means of the challenger less the champion on the targets both have scored.
ChampionDelta(e, S, scored, at) ==
  LET C == {r \in Samples(eras[e].champion, at) : r \in Paired({r}, recs[r].target, at)}
      both == {t \in scored : \E r \in C : recs[r].target = t}
      of(t) == {r \in C : recs[r].target = t}
  IN [t \in both |-> TargetScore(Valid(S, t, at), targets[t].res.outcome)
                      - TargetScore(of(t), targets[t].res.outcome)]

\* Whether the intervals and the calibration clear the policy's guardrails.
Guarded(S, scored, at) ==
  LET model == [t \in scored |-> TargetScore(Valid(S, t, at), targets[t].res.outcome)]
      paired == [t \in scored |-> TargetScore(Paired(S, t, at), targets[t].res.outcome)]
      control == [t \in scored |-> ControlScore(t)]
      n == Cardinality(WeeksOf(scored))
  IN /\ \A r \in S : comparable_control(r, at)
     /\ \A t \in scored : Paired(S, t, at) # {}
     /\ ClusterMean(model) + Width[n] < UNIFORM_BRIER
     /\ ClusterMean(paired) < ClusterMean(control)
     /\ _calibration_error(S, scored, at) <= Policy.calibration * 144 * n

\* The samples whose paper trade has ended.
_execution_metrics(S, at) ==
  Cardinality({r \in S : recs[r].facts # <<>> /\ recs[r].facts[1].at <= at})

assessment_values(e, at) ==
  LET S == Samples(e, at)
      T == {recs[r].target : r \in S}
      mature == Mature(T, at)
      scored == {t \in mature : Valid(S, t, at) # {}}
      ready == /\ Cardinality(S) >= Policy.raw /\ Cardinality(scored) >= Policy.raw
               /\ at - eras[e].starts >= Policy.days
               /\ Cardinality(WeeksOf(scored)) >= Policy.clusters
      delta == ChampionDelta(e, S, scored, at)
      better == /\ Cardinality(DOMAIN delta) >= Policy.raw
                /\ Cardinality(WeeksOf(DOMAIN delta)) >= Policy.clusters
                /\ ClusterMean(delta) + 2 * Width[Cardinality(WeeksOf(DOMAIN delta))] < 0
  IN [raw |-> Cardinality(S),
      targets |-> Cardinality(T),
      mature |-> Cardinality(mature),
      scored |-> Cardinality(scored),
      missing |-> Cardinality({t \in mature : /\ Known(targets[t].res, at)
                                              /\ targets[t].res.outcome = "missing"}),
      paired |-> Cardinality({t \in scored : Paired(S, t, at) # {}}),
      terminal |-> _execution_metrics(S, at),
      status |-> IF ~ready THEN "collecting"
                 ELSE IF 100 * Cardinality(scored) < Policy.coverage * Cardinality(mature)
                 THEN "coverage_limited"
                 ELSE IF ~Guarded(S, scored, at) THEN "guardrail_failed"
                 ELSE IF eras[e].kind = "champion" THEN "descriptive_ready"
                 ELSE IF better THEN "promotion_eligible" ELSE "guardrail_failed"]

\* What the sample set's digest covers.
_sample_set(e, at) ==
  {[rec |-> r, mature |-> Maturity(recs[r].target[1]) <= at,
    res |-> Known(recs[r].res, at),
    shared |-> Known(targets[recs[r].target].res, at),
    ctl |-> Known(targets[recs[r].target].ctl, at),
    facts |-> Cardinality({i \in DOMAIN recs[r].facts : recs[r].facts[i].at <= at})] :
     r \in {s \in DOMAIN recs : e \in recs[s].eras /\ recs[s].at <= at}}

Assessed(e, at) ==
  [era |-> e, at |-> at, rows |-> _sample_set(e, at), values |-> assessment_values(e, at)]

\* A second assessment of the same sample set returns the stored one.
refresh_experiment_assessment(a) ==
  assessments' = IF \E b \in assessments : b.era = a.era /\ b.at = a.at /\ b.rows = a.rows
                 THEN assessments ELSE assessments \cup {a}

-----------------------------------------------------------------------------
(* The owner's decisions on a challenger.  Nothing is locked between the   *)
(* checks and the insert.                                                  *)

LatestAttempt(e) == Max({a.at : a \in {b \in assessments : b.era = e}}
                        \cup {f[2] : f \in {g \in failed : g[1] = e}} \cup {None})

DecideCheck(e, decision) ==
  \E a \in assessments :
    LET p == [era |-> e, at |-> a.at, decision |-> decision]
    IN /\ a.era = e /\ a.at = LatestAttempt(e) /\ <<e, a.at>> \notin failed
       /\ ~Ended(e)
       /\ p \notin decisions \cup deciding
       /\ eras[e].kind = "challenger"
       /\ decision = "promote" => a.values.status = "promotion_eligible"
       /\ deciding' = deciding \cup {p}

record_promotion_decision(p) ==
  /\ p \in deciding
  /\ decisions' = decisions \cup {p}
  /\ deciding' = deciding \ {p}
=============================================================================
