---------------------------- MODULE JobLifecycle ----------------------------
(***************************************************************************)
(* What the queue promises of its JobOccurrence rows: the attempts of a    *)
(* row are numbered 1, 2, ... and happen one after the other, each ends in *)
(* success or in a recorded failure, and the row is terminal after a       *)
(* success or after the failure of attempt MaxAttempts.  One transaction   *)
(* of the queue may move several rows.                                     *)
(***************************************************************************)
EXTENDS Naturals

CONSTANTS Rows, MaxAttempts

VARIABLES
  status,   \* JobOccurrence.status, "absent" before the row is created
  attempts, \* the number of the latest attempt
  failed    \* the attempts that have a TaskFailure row

lvars == <<status, attempts, failed>>

\* A row is new, or one that a release without leases left running.
Init ==
  /\ status \in [Rows -> {"absent", "running"}]
  /\ attempts = [r \in Rows |-> IF status[r] = "running" THEN 1 ELSE 0]
  /\ failed = [r \in Rows |-> {}]

Create(r) ==
  /\ status[r] = "absent"
  /\ status'[r] = "queued"
  /\ attempts'[r] = attempts[r]
  /\ failed'[r] = failed[r]

Start(r) ==
  /\ status[r] = "queued"
  /\ attempts[r] < MaxAttempts
  /\ status'[r] = "running"
  /\ attempts'[r] = attempts[r] + 1
  /\ failed'[r] = failed[r]

Succeed(r) ==
  /\ status[r] = "running"
  /\ status'[r] = "succeeded"
  /\ attempts'[r] = attempts[r]
  /\ failed'[r] = failed[r]

Fail(r) ==
  /\ status[r] = "running"
  /\ status'[r] = IF attempts[r] < MaxAttempts THEN "queued" ELSE "failed"
  /\ attempts'[r] = attempts[r]
  /\ failed'[r] = failed[r] \cup {attempts[r]}

\* An attempt that lost its lease is recorded and replaced in one transaction.
Replace(r) ==
  /\ status[r] = "running"
  /\ attempts[r] < MaxAttempts
  /\ status'[r] = "running"
  /\ attempts'[r] = attempts[r] + 1
  /\ failed'[r] = failed[r] \cup {attempts[r]}

Stay(r) ==
  /\ status'[r] = status[r]
  /\ attempts'[r] = attempts[r]
  /\ failed'[r] = failed[r]

Next ==
  \A r \in Rows :
    Create(r) \/ Start(r) \/ Succeed(r) \/ Fail(r) \/ Replace(r) \/ Stay(r)

Spec == Init /\ [][Next]_lvars
=============================================================================
