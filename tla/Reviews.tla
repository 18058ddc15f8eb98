------------------------------ MODULE Reviews ------------------------------
(***************************************************************************)
(* Deterministic postmortems of resolved recommendations and their bounded *)
(* interpretation (forecasts/reviews.py, forecasts/interpretations.py).    *)
(*                                                                         *)
(* A review cohort freezes its members at a cutoff that is read before the *)
(* guard row is locked; a correction reassesses the members as of a later  *)
(* time.  A review is known by its kind and by what its digest covers.     *)
(* The paper facts of a recommendation are written by the portfolio: the   *)
(* first is its terminal state, later ones are cost assessments.           *)
(***************************************************************************)
EXTENDS Experiments

CONSTANTS
  MinClusters  \* issuance clusters a hypothesis must span

VARIABLES
  cutoffs,     \* the cutoff of the cohort each member was frozen in
  reviews,     \* the reviews of each member, in order of insertion
  attempts,    \* the status of each member's interpretation attempt
  hypothesis,  \* the members whose observations support the hypothesis
  authorized   \* whether the owner has authorized the challenger

Members == DOMAIN cutoffs

\* The rows.
DeterministicReview(r) ==
  {v \in [kind : {"thesis", "execution", "reconciliation"},
          coverage : {"complete", "not_applicable", "missing"}, at : Nat,
          supersedes : 0..Len(reviews[r])] :
     v.supersedes # None => reviews[r][v.supersedes].kind = v.kind}
\* Every status but accepted is called rejected.
InterpretationAttempt == [status : {"accepted", "rejected"}, id : Nat]
\* The members whose accepted attempt gave an observation.
LearningObservation == {r \in DOMAIN attempts : attempts[r].status = "accepted"}

\* Lifecycle, paper result and costs, as the portfolio's reconciliation
\* stamps them.
PaperFact(r, kind, at) ==
  LET seen == recs[r].facts
  IN /\ at >= recs[r].at
     /\ seen # <<>> => at >= Last(seen).at
     /\ recs' = [recs EXCEPT ![r].facts =
                   Append(@, [at |-> at, kind |-> IF seen = <<>> THEN kind ELSE "cost"])]

-----------------------------------------------------------------------------
(* Projections as of a time.                                               *)

Facts(r, at) == {i \in DOMAIN recs[r].facts : recs[r].facts[i].at <= at}

directional_hit(r) ==
  <<recs[r].offer.action, recs[r].res.outcome>> \in {<<"buy", "up">>, <<"sell", "down">>}

_thesis_projection(r) ==
  [kind |-> "thesis",
   coverage |-> IF recs[r].res.outcome \in Scored THEN "complete" ELSE "missing",
   input |-> IF recs[r].res.outcome \notin Scored THEN "outcome_unavailable"
             ELSE IF recs[r].offer.action = "abstain" THEN "abstention_observed"
             ELSE IF directional_hit(r) THEN "direction_supported"
             ELSE "direction_not_supported"]

_execution_projection(r, at) ==
  LET terminal == recs[r].facts[1].kind
  IN [kind |-> "execution",
      coverage |-> IF terminal = "abstained" THEN "not_applicable"
                   ELSE IF terminal = "missing_data" THEN "missing" ELSE "complete",
      input |-> <<terminal, Cardinality(Facts(r, at))>>]

_reconciliation_projection(thesis, execution) ==
  LET missing == "missing" \in {thesis.coverage, execution.coverage}
  IN [kind |-> "reconciliation",
      coverage |-> IF missing THEN "missing" ELSE "complete",
      input |-> <<thesis.input, execution.input>>]

Projectable(r, at) == Known(recs[r].res, at) /\ Facts(r, at) # {}

_projections(r, at) ==
  LET thesis == _thesis_projection(r)
      execution == _execution_projection(r, at)
  IN <<thesis, execution, _reconciliation_projection(thesis, execution)>>

\* Index of the current review of a kind: the last assessed, the later
\* insertion winning a tie.
Current(rows, kind) ==
  LET of == {i \in DOMAIN rows : rows[i].kind = kind}
      last == {i \in of : \A j \in of : rows[j].at <= rows[i].at}
  IN IF last = {} THEN None ELSE Max(last)

\* What a projection adds to a member's reviews.
_create_or_reuse_review(rows, p, at) ==
  IF \E i \in DOMAIN rows : rows[i].kind = p.kind /\ rows[i].input = p.input THEN <<>>
  ELSE <<[kind |-> p.kind, input |-> p.input, coverage |-> p.coverage, at |-> at,
          supersedes |-> Current(rows, p.kind)]>>

Review(rows, r, at) ==
  LET p == _projections(r, at)
      add(i) == _create_or_reuse_review(rows, p[i], at)
  IN rows \o add(1) \o add(2) \o add(3)

-----------------------------------------------------------------------------
(* Operations.                                                             *)

\* Resolved and terminal by the cutoff, and in no cohort yet.
ReviewDue(cutoff) ==
  {r \in DOMAIN recs \ Members : recs[r].at <= cutoff /\ Projectable(r, cutoff)}

build_due_review_cohort(cutoff) ==
  LET due == ReviewDue(cutoff)
  IN /\ cutoffs' = [r \in Members \cup due |-> IF r \in due THEN cutoff ELSE cutoffs[r]]
     /\ reviews' = [r \in Members \cup due |->
                      IF r \in due THEN Review(<<>>, r, cutoff) ELSE reviews[r]]

\* The members of the cohort frozen at the given cutoff.
Cohort(cutoff) == {r \in Members : cutoffs[r] = cutoff}

reassess_review_cohort(cutoff, at) ==
  /\ at > cutoff
  /\ reviews' = [r \in Members |->
                   IF r \in Cohort(cutoff) /\ Projectable(r, at)
                   THEN Review(reviews[r], r, at) ELSE reviews[r]]

\* The packet holds coverage, readiness and outcomes, no cost and no lineage,
\* so a member has one packet and one attempt, whatever corrections follow.
build_rights_cleared_packet(r) ==
  [thesis |-> reviews[r][Current(reviews[r], "thesis")].input,
   execution |-> reviews[r][Current(reviews[r], "execution")].input[1]]

\* Observations of distinct issuance clusters, or none while they are too few.
_create_candidate_hypothesis(observed) ==
  LET first(r) == \A s \in DOMAIN observed : recs[s].at = recs[r].at => observed[s] >= observed[r]
      qualifying == {r \in DOMAIN observed : first(r)}
  IN IF hypothesis # {} THEN hypothesis
     ELSE IF Cardinality(qualifying) < MinClusters THEN {} ELSE qualifying

\* A paid attempt of a member ends in one of the statuses; an accepted one
\* stores its observation, and perhaps the hypothesis, with it.
interpret_review_member(r, status) ==
  LET new == [packet |-> build_rights_cleared_packet(r), status |-> status,
              id |-> Cardinality(DOMAIN attempts)]
  IN /\ r \in Members
     /\ r \in DOMAIN attempts => attempts[r].packet # new.packet
     /\ attempts' = Inserted(attempts, r, new)
     /\ hypothesis' =
          _create_candidate_hypothesis([s \in LearningObservation' |-> attempts'[s].id])

authorize_candidate_hypothesis ==
  /\ hypothesis # {} /\ ~authorized
  /\ authorized' = TRUE
=============================================================================
