------------------------------ MODULE JobQueue ------------------------------
(***************************************************************************)
(* The durable job queue of operations/services.py, driven by the worker   *)
(* processes of operations/management/commands/run_worker.py.              *)
(*                                                                         *)
(* Rows of JobOccurrence are claimed under a lease by worker processes.    *)
(* Each worker has a main thread, which claims a row, hands its task to a  *)
(* one-thread pool and then polls the future, heartbeating the row at each *)
(* poll timeout, and the pool's thread, which runs tasks in the order they *)
(* were submitted and cannot be cancelled: a task whose lease was lost     *)
(* keeps running, and the next claimed row's task waits behind it.         *)
(*                                                                         *)
(* Time is relative: a row stores how many ticks are left until a          *)
(* timestamp is reached (`lease_expires_at <= now' is leaseLeft = 0).      *)
(* claim_next_job runs in one transaction with two SELECT ... FOR UPDATE   *)
(* SKIP LOCKED queries, so it is two steps here: BeginClaim locks the      *)
(* expired rows, CommitClaim reaps them, claims the first available row    *)
(* that nobody else holds locked, and commits.  The clock is read once, at *)
(* the start of the transaction; a tick does not fall inside one.          *)
(***************************************************************************)
EXTENDS Integers, Sequences, FiniteSets

CONSTANTS
  MaxOccurrences,   \* bound: rows of JobOccurrence, their ids are 1..MaxOccurrences
  Workers,          \* worker processes (run_worker draws a fresh worker_id per process)
  NoWorker,         \* the empty lease_owner
  MaxAttempts,      \* JobOccurrence.max_attempts
  LeaseDuration,    \* LEASE_DURATION, in ticks
  ExecutionTimeout, \* JobOccurrence.timeout_seconds, in ticks
  BackoffUnit,      \* the 30 seconds of the retry backoff, in ticks
  MaxWait,          \* bound: longer waits of an available row are not told apart
  MaxCrashes        \* bound: worker processes that die

ASSUME ConstantsAssumption ==
  /\ MaxOccurrences \in Nat \ {0}
  /\ NoWorker \notin Workers
  /\ MaxAttempts \in Nat \ {0}
  /\ LeaseDuration \in Nat \ {0}
  /\ ExecutionTimeout \in Nat \ {0}
  /\ BackoffUnit \in Nat
  /\ MaxWait \in Nat
  /\ MaxCrashes \in Nat

VARIABLES
  occ,       \* the JobOccurrence rows
  failures,  \* the TaskFailure rows of each occurrence
  pc,        \* where each worker's main thread is
  locked,    \* the rows each worker's open claim transaction holds locked
  job,       \* the <<row, attempt>> each main thread watches
  future,    \* what the watched future would deliver
  pool,      \* tasks submitted to each worker's pool, the running one first
  crashed    \* how many worker processes died

vars == <<occ, failures, pc, locked, job, future, pool, crashed>>

Occurrences == 1 .. MaxOccurrences
Attempts == 1 .. MaxAttempts
Terminal == {"succeeded", "failed"}
Status == {"absent", "queued", "running"} \cup Terminal
ErrorCode == {"", "lease_expired", "task_error"}
Task == Occurrences \X Attempts
NoJob == <<>>

Occurrence ==
  [status : Status, attempts : 0 .. MaxAttempts, availableIn : Int,
   owner : Workers \cup {NoWorker}, leaseLeft : Nat, deadlineLeft : Nat,
   errorCode : ErrorCode]

TaskFailure == [attempt : Attempts, code : ErrorCode, terminal : BOOLEAN]

Min2(a, b) == IF a < b THEN a ELSE b

AbsentRow ==
  [status |-> "absent", attempts |-> 0, availableIn |-> 0, owner |-> NoWorker,
   leaseLeft |-> 0, deadlineLeft |-> 0, errorCode |-> ""]

\* A row left running by a release that had no leases (no owner, no expiry).
LegacyRow ==
  [status |-> "running", attempts |-> 1, availableIn |-> 0, owner |-> NoWorker,
   leaseLeft |-> 0, deadlineLeft |-> 0, errorCode |-> ""]

Init ==
  /\ \E legacy \in 0 .. 1 :
       occ = [o \in Occurrences |-> IF o <= legacy THEN LegacyRow ELSE AbsentRow]
  /\ failures = [o \in Occurrences |-> {}]
  /\ pc = [w \in Workers |-> "idle"]
  /\ locked = [w \in Workers |-> {}]
  /\ job = [w \in Workers |-> NoJob]
  /\ future = [w \in Workers |-> "pending"]
  /\ pool = [w \in Workers |-> <<>>]
  /\ crashed = 0

-----------------------------------------------------------------------------
(* The queue's transactions.                                               *)

\* enqueue_due_jobs creates a row that is available at once.
Enqueue(o) ==
  /\ occ[o].status = "absent"
  /\ \A p \in Occurrences : p < o => occ[p].status # "absent"
  /\ occ' = [occ EXCEPT ![o] = [AbsentRow EXCEPT !.status = "queued"]]
  /\ UNCHANGED <<failures, pc, locked, job, future, pool, crashed>>

LockedByOthers(w) == UNION {locked[v] : v \in Workers \ {w}}

\* Mutant of IsExpired: expiry ignored.
ExpiredOnlyWithoutOwner(o) == occ[o].status = "running" /\ occ[o].owner = NoWorker

IsExpired(o) ==
  /\ occ[o].status = "running"
  /\ \/ occ[o].owner = NoWorker
     \/ occ[o].leaseLeft = 0
     \/ occ[o].deadlineLeft = 0

IsAvailable(row) == row.status = "queued" /\ row.availableIn <= 0

\* get_or_create on the unique (occurrence, attempt_number).
WithFailure(fs, n, code, terminal) ==
  IF n = 0 \/ \E f \in fs : f.attempt = n
  THEN fs
  ELSE fs \cup {[attempt |-> n, code |-> code, terminal |-> terminal]}

\* Mutant of Reaped: an attempt too many.
ReapedOffByOne(row) ==
  [status |-> IF row.attempts > MaxAttempts THEN "failed" ELSE "queued",
   attempts |-> row.attempts, availableIn |-> 0, owner |-> NoWorker,
   leaseLeft |-> 0, deadlineLeft |-> row.deadlineLeft, errorCode |-> "lease_expired"]

\* The row after the stale-work loop of claim_next_job handled it.
Reaped(row) ==
  [status |-> IF row.attempts >= MaxAttempts THEN "failed" ELSE "queued",
   attempts |-> row.attempts,
   availableIn |-> IF row.attempts >= MaxAttempts THEN row.availableIn ELSE 0,
   owner |-> NoWorker, leaseLeft |-> 0, deadlineLeft |-> row.deadlineLeft,
   errorCode |-> "lease_expired"]

\* Mutant of Claimed: the lease has no owner.
ClaimedWithoutOwner(row, w) ==
  [status |-> "running", attempts |-> row.attempts + 1,
   availableIn |-> row.availableIn, owner |-> NoWorker, leaseLeft |-> LeaseDuration,
   deadlineLeft |-> ExecutionTimeout, errorCode |-> ""]

Claimed(row, w) ==
  [status |-> "running", attempts |-> row.attempts + 1,
   availableIn |-> row.availableIn, owner |-> w, leaseLeft |-> LeaseDuration,
   deadlineLeft |-> ExecutionTimeout, errorCode |-> ""]

\* A process with nothing to reap or claim sleeps (time.sleep(5)).
BeginClaim(w) ==
  /\ pc[w] = "idle"
  /\ \E o \in Occurrences : IsExpired(o) \/ IsAvailable(occ[o])
  /\ locked' = [locked EXCEPT
       ![w] = {o \in Occurrences : IsExpired(o) /\ o \notin LockedByOthers(w)}]
  /\ pc' = [pc EXCEPT ![w] = "claiming"]
  /\ UNCHANGED <<occ, failures, job, future, pool, crashed>>

AfterReap(w) ==
  [o \in Occurrences |-> IF o \in locked[w] THEN Reaped(occ[o]) ELSE occ[o]]

\* Mutant of FailuresAfterReap: only the last attempt is recorded.
OnlyTerminalFailures(w) ==
  [o \in Occurrences |->
     IF o \in locked[w] /\ occ[o].attempts >= MaxAttempts
     THEN WithFailure(failures[o], occ[o].attempts, "lease_expired", TRUE)
     ELSE failures[o]]

FailuresAfterReap(w) ==
  [o \in Occurrences |->
     IF o \in locked[w]
     THEN WithFailure(failures[o], occ[o].attempts, "lease_expired",
                      occ[o].attempts >= MaxAttempts)
     ELSE failures[o]]

\* order_by("available_at", "id")
IsFirst(rows, S, o) ==
  /\ o \in S
  /\ \A p \in S : \/ rows[o].availableIn < rows[p].availableIn
                  \/ rows[o].availableIn = rows[p].availableIn /\ o <= p

Claimable(w) ==
  {o \in Occurrences : IsAvailable(AfterReap(w)[o]) /\ o \notin LockedByOthers(w)}

\* The attempt that claiming row o starts.
ClaimedAttempt(o) == <<o, occ[o].attempts + 1>>

\* Nothing to claim: the reaped rows are committed and claim returns None.
CommitReapOnly(w) ==
  /\ pc[w] = "claiming"
  /\ Claimable(w) = {}
  /\ occ' = AfterReap(w)
  /\ failures' = FailuresAfterReap(w)
  /\ locked' = [locked EXCEPT ![w] = {}]
  /\ pc' = [pc EXCEPT ![w] = "idle"]
  /\ UNCHANGED <<job, future, pool, crashed>>

\* The first available row is claimed and its task is submitted to the pool.
CommitClaim(w) ==
  /\ pc[w] = "claiming"
  /\ \E o \in Claimable(w) :
       /\ IsFirst(AfterReap(w), Claimable(w), o)
       /\ occ' = [AfterReap(w) EXCEPT ![o] = Claimed(@, w)]
       /\ job' = [job EXCEPT ![w] = ClaimedAttempt(o)]
       /\ pool' = [pool EXCEPT ![w] = Append(@, ClaimedAttempt(o))]
  /\ failures' = FailuresAfterReap(w)
  /\ future' = [future EXCEPT ![w] = "pending"]
  /\ locked' = [locked EXCEPT ![w] = {}]
  /\ pc' = [pc EXCEPT ![w] = "watching"]
  /\ UNCHANGED crashed

\* select_for_update without skip_locked waits for whoever holds the row;
\* job[w][1] is only meaningful while w watches a row.
RowIsFree(w) == job[w][1] \notin LockedByOthers(w)

\* Mutant of OwnsRow: the owner is not compared.
RowIsRunning(w) == occ[job[w][1]].status = "running"

OwnsRow(w) ==
  /\ occ[job[w][1]].status = "running"
  /\ occ[job[w][1]].owner = w

StopWatching(w) ==
  /\ pc' = [pc EXCEPT ![w] = "idle"]
  /\ job' = [job EXCEPT ![w] = NoJob]
  /\ future' = [future EXCEPT ![w] = "pending"]

-----------------------------------------------------------------------------
(* The worker process.                                                     *)

\* future.result(timeout=60) raises TimeoutError both when the poll times
\* out and when the task itself ended with one: the handler cannot tell.
PollTimesOut(w) ==
  /\ pc[w] = "watching"
  /\ future[w] \in {"pending", "timeout_error"}
  /\ RowIsFree(w)

\* heartbeat_job extends the lease, never beyond the execution deadline.
HeartbeatKept(w) ==
  /\ PollTimesOut(w)
  /\ OwnsRow(w)
  /\ LET o == job[w][1] IN
       /\ occ[o].deadlineLeft > 0
       /\ occ' = [occ EXCEPT ![o].leaseLeft = Min2(LeaseDuration, occ[o].deadlineLeft)]
  /\ UNCHANGED <<failures, pc, locked, job, future, pool, crashed>>

\* At the deadline heartbeat_job ends the lease; the main thread gives the
\* row up and leaves its task in the pool.
HeartbeatAtDeadline(w) ==
  /\ PollTimesOut(w)
  /\ OwnsRow(w)
  /\ occ[job[w][1]].deadlineLeft = 0
  /\ occ' = [occ EXCEPT ![job[w][1]].leaseLeft = 0]
  /\ StopWatching(w)
  /\ UNCHANGED <<failures, locked, pool, crashed>>

\* The row was reaped, and perhaps claimed by another process, meanwhile.
HeartbeatRefused(w) ==
  /\ PollTimesOut(w)
  /\ ~OwnsRow(w)
  /\ StopWatching(w)
  /\ UNCHANGED <<occ, failures, locked, pool, crashed>>

\* 30 * (2 ** (attempts - 1)) seconds.
Backoff(n) == BackoffUnit * (2 ^ (n - 1))

Finished(row, error) ==
  LET retry == error /\ row.attempts < MaxAttempts IN
  [status |-> IF retry THEN "queued" ELSE IF error THEN "failed" ELSE "succeeded",
   attempts |-> row.attempts,
   availableIn |-> IF retry THEN Backoff(row.attempts) ELSE row.availableIn,
   owner |-> NoWorker, leaseLeft |-> 0, deadlineLeft |-> row.deadlineLeft,
   errorCode |-> IF error THEN "task_error" ELSE ""]

\* finish_job by the owner of the row.
FinishAccepted(w) ==
  /\ pc[w] = "watching"
  /\ future[w] \in {"returned", "raised"}
  /\ RowIsFree(w)
  /\ OwnsRow(w)
  /\ LET o == job[w][1]
         error == future[w] = "raised" IN
       /\ occ' = [occ EXCEPT ![o] = Finished(@, error)]
       /\ failures' = [failures EXCEPT ![o] =
            IF error THEN WithFailure(@, occ[o].attempts, "task_error",
                                      occ[o].attempts >= MaxAttempts)
            ELSE @]
  /\ StopWatching(w)
  /\ UNCHANGED <<locked, pool, crashed>>

\* finish_job by a process that lost the row returns False and changes nothing.
FinishRefused(w) ==
  /\ pc[w] = "watching"
  /\ future[w] \in {"returned", "raised"}
  /\ RowIsFree(w)
  /\ ~OwnsRow(w)
  /\ StopWatching(w)
  /\ UNCHANGED <<occ, failures, locked, pool, crashed>>

\* The pool's thread ends its current task.  Only the watched future is read.
TaskEnds(w, result) ==
  /\ pool[w] # <<>>
  /\ pool' = [pool EXCEPT ![w] = Tail(@)]
  /\ future' = IF Head(pool[w]) = job[w] THEN [future EXCEPT ![w] = result] ELSE future
  /\ UNCHANGED <<occ, failures, pc, locked, job, crashed>>

\* The process dies: its transaction rolls back and its threads end.
Crash(w) ==
  /\ pc[w] # "dead"
  /\ crashed < MaxCrashes
  /\ crashed' = crashed + 1
  /\ pc' = [pc EXCEPT ![w] = "dead"]
  /\ locked' = [locked EXCEPT ![w] = {}]
  /\ job' = [job EXCEPT ![w] = NoJob]
  /\ future' = [future EXCEPT ![w] = "pending"]
  /\ pool' = [pool EXCEPT ![w] = <<>>]
  /\ UNCHANGED <<occ, failures>>

Elapsed(n) == IF n > 0 THEN n - 1 ELSE 0

Aged(row) ==
  [status |-> row.status, attempts |-> row.attempts,
   availableIn |-> IF row.status = "queued" /\ row.availableIn > -MaxWait
                   THEN row.availableIn - 1 ELSE row.availableIn,
   owner |-> row.owner, leaseLeft |-> Elapsed(row.leaseLeft),
   deadlineLeft |-> Elapsed(row.deadlineLeft), errorCode |-> row.errorCode]

Tick ==
  /\ \A w \in Workers : pc[w] # "claiming"
  /\ occ' = [o \in Occurrences |-> Aged(occ[o])]
  /\ UNCHANGED <<failures, pc, locked, job, future, pool, crashed>>

MainThread(w) ==
  \/ BeginClaim(w) \/ CommitReapOnly(w) \/ CommitClaim(w)
  \/ HeartbeatKept(w) \/ HeartbeatAtDeadline(w) \/ HeartbeatRefused(w)
  \/ FinishAccepted(w) \/ FinishRefused(w)

Next ==
  \/ \E o \in Occurrences : Enqueue(o)
  \/ \E w \in Workers :
       \/ MainThread(w)
       \/ \E result \in {"returned", "raised", "timeout_error"} : TaskEnds(w, result)
       \/ Crash(w)
  \/ Tick

Spec == Init /\ [][Next]_vars

\* The process supervisor keeps processes scheduled and the clock advances;
\* nothing makes a task end, so TaskEnds has no fairness.
FairSpec ==
  /\ Spec
  /\ WF_vars(Tick)
  /\ \A w \in Workers :
       /\ WF_vars(BeginClaim(w))
       /\ WF_vars(CommitReapOnly(w) \/ CommitClaim(w))
       /\ WF_vars(HeartbeatAtDeadline(w) \/ HeartbeatRefused(w))
       /\ WF_vars(FinishAccepted(w) \/ FinishRefused(w))

-----------------------------------------------------------------------------
(* Properties.                                                             *)

\* The variables stay in their types (the columns of JobOccurrence and
\* TaskFailure, the state of a worker process).
TypeOK ==
  /\ occ \in [Occurrences -> Occurrence]
  /\ failures \in [Occurrences -> SUBSET TaskFailure]
  /\ pc \in [Workers -> {"idle", "claiming", "watching", "dead"}]
  /\ locked \in [Workers -> SUBSET Occurrences]
  /\ job \in [Workers -> Task \cup {NoJob}]
  /\ future \in [Workers -> {"pending", "returned", "raised", "timeout_error"}]
  /\ pool \in [Workers -> Seq(Task)]
  /\ crashed \in 0 .. MaxCrashes

\* No claim ever takes a row beyond max_attempts: whichever of finish_job and
\* the stale-work loop ended the previous attempt left the row claimable only
\* while an attempt remained.
AttemptsRemain ==
  \A o \in Occurrences : occ[o].status = "queued" => occ[o].attempts < MaxAttempts

\* Every attempt that was ever claimed is accounted for exactly once: it is
\* the one in progress, it is the one that succeeded, or it has one
\* TaskFailure row (docs/architecture.md, invariant 8).
AttemptAccounting ==
  \A o \in Occurrences :
    /\ {f.attempt : f \in failures[o]} =
         {n \in 1 .. occ[o].attempts :
            ~ (n = occ[o].attempts /\ occ[o].status \in {"running", "succeeded"})}
    /\ \A f, g \in failures[o] : f.attempt = g.attempt => f = g

\* A TaskFailure row says `terminal' exactly when its attempt is the one that
\* failed the occurrence, so a row that is retried or succeeds never carries
\* a terminal failure, and the row's own error_code is that failure's code.
TerminalFlagHonest ==
  \A o \in Occurrences : \A f \in failures[o] :
    /\ f.terminal <=> (occ[o].status = "failed" /\ f.attempt = occ[o].attempts)
    /\ f.terminal => f.code = occ[o].errorCode

\* finish_job and heartbeat_job compare worker_id only, never the attempt
\* number.  That is enough: a main thread that still owns the row it watches
\* is watching the row's current attempt, so a late outcome of an older
\* attempt can never be recorded for a newer one.
OutcomeIsFenced ==
  \A w \in Workers :
    pc[w] = "watching" /\ OwnsRow(w) => job[w][2] = occ[job[w][1]].attempts

\* The current attempt of a running row is executed, or waits to be, only in
\* the process that holds the lease.  A task that was abandoned, and cannot
\* be cancelled, runs elsewhere or later under an older attempt number.
CurrentAttemptAtOwner ==
  \A w \in Workers : \A i \in DOMAIN pool[w] :
    LET o == pool[w][i][1] IN
    /\ pool[w][i][2] <= occ[o].attempts
    /\ occ[o].status = "running" /\ pool[w][i][2] = occ[o].attempts => occ[o].owner = w

\* SKIP LOCKED keeps claim transactions apart: two open ones hold no common
\* row, and a row held for reaping is still the expired row that was read.
ReapersAreDisjoint ==
  \A w \in Workers : \A o \in locked[w] :
    /\ IsExpired(o)
    /\ o \notin LockedByOthers(w)

\* A terminal row is never changed again: no late heartbeat, late outcome or
\* reaping revives it (its timers run out, nothing reads them).
TerminalIsFinal ==
  [][\A o \in Occurrences :
       occ[o].status \in Terminal =>
         /\ occ'[o].status = occ[o].status
         /\ occ'[o].attempts = occ[o].attempts
         /\ failures'[o] = failures[o]]_vars

\* Every row that was enqueued is eventually terminal, whatever its tasks do
\* (return, raise, or hang in the pool forever) and whichever processes die,
\* as long as one process lives: leases, deadlines and max_attempts suffice.
EventuallyTerminal ==
  \A o \in Occurrences : occ[o].status # "absent" ~> occ[o].status \in Terminal

-----------------------------------------------------------------------------
(* The queue implements the life cycle it promises for its rows.           *)

FailedAttempts(o) == {f.attempt : f \in failures[o]}

Lifecycle == INSTANCE JobLifecycle WITH
  Rows <- Occurrences,
  status <- [o \in Occurrences |-> occ[o].status],
  attempts <- [o \in Occurrences |-> occ[o].attempts],
  failed <- [o \in Occurrences |-> FailedAttempts(o)]

\* Leases, pools, transactions, crashes and time leave of the rows exactly
\* the life cycle of module JobLifecycle.
ImplementsLifecycle == Lifecycle!Spec
=============================================================================
