----------------------------- MODULE MCOperations -----------------------------
(* Provider spend and the scheduler instantiated for TLC.  They share no     *)
(* state: a behaviour follows one of them while the other rests.             *)
EXTENDS ProviderSpend, Scheduler, TLC

\* Runs are interchangeable, and so are the requests of one purpose.
RunSymmetry ==
  Permutations(Runs) \cup Permutations(Recommendations) \cup Permutations(Interpretations)

CONSTANTS everySlot, latestOnly, neverLate

\* One job of each missed-run policy.
MCPolicy ==
  [j \in {everySlot, latestOnly, neverLate} |->
     CASE j = everySlot -> "all" [] j = latestOnly -> "latest" [] j = neverLate -> "skip"]

ASSUME ScheduleAssumption

VARIABLE focus

OperationsInit == SpendInit /\ SchedulerInit /\ focus \in {"spend", "scheduler"}
OperationsNext ==
  \/ focus = "spend" /\ SpendNext /\ UNCHANGED <<focus, schedulerVars>>
  \/ focus = "scheduler" /\ SchedulerNext /\ UNCHANGED <<focus, spendVars>>
OperationsSpec == OperationsInit /\ [][OperationsNext]_<<focus, spendVars, schedulerVars>>
=============================================================================
