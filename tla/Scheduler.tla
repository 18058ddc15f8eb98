------------------------------ MODULE Scheduler ------------------------------
(***************************************************************************)
(* enqueue_due_jobs (operations/services.py), called every 15 seconds by   *)
(* the scheduler process (operations/management/commands/run_scheduler.py).*)
(*                                                                         *)
(* A job runs at an interval, or daily at a wall-clock time of its zone;   *)
(* its slots are numbered 0, 1, ... and slot i is due at SlotTime(j, i).   *)
(* next_run_at is represented by the number of its slot.  One transaction  *)
(* locks the due jobs (SKIP LOCKED keeps a second scheduler off them),     *)
(* moves each to its first slot after now and creates the occurrences its  *)
(* missed-run policy selects; an occurrence is identified by its job and   *)
(* slot.  The scheduler may be down for any time, and the owner may        *)
(* disable a job, enable it and set next_run_at back on the admin site, so *)
(* slots are met late, together and again.                                 *)
(*                                                                         *)
(* Time is UTC, in hours.  The daily jobs' zone changes its offset once.   *)
(***************************************************************************)
EXTENDS Integers, FiniteSets

CONSTANTS
  IntervalJobs,  \* jobs with schedule_type interval
  DailyJobs,     \* jobs with schedule_type daily
  Interval,      \* interval_seconds, in hours
  DayLength,     \* hours of a day without a change of offset
  LocalTime,     \* local_time of the daily jobs
  ChangeDay,     \* the first local day with the new offset
  OffsetShift,   \* hours by which the zone's offset grows on that day
  Policy,        \* missed_run_policy of each job
  MaxCatchup,    \* MAX_CATCHUP_OCCURRENCES
  MaxTime,       \* bound: the last hour
  MaxRewinds     \* bound: how often the owner sets a next_run_at back

Jobs == IntervalJobs \cup DailyJobs

ScheduleAssumption ==
  /\ IntervalJobs \cap DailyJobs = {}
  /\ Interval \in Nat \ {0}
  /\ DayLength \in Nat \ {0}
  /\ LocalTime \in Nat
  /\ ChangeDay \in Nat
  /\ OffsetShift \in Int /\ OffsetShift < DayLength
  /\ Policy \in [Jobs -> {"all", "latest", "skip"}]
  /\ MaxCatchup \in Nat \ {0}
  /\ MaxTime \in Nat
  /\ MaxRewinds \in Nat

VARIABLES
  now,     \* the UTC time
  enabled, \* ScheduledJob.enabled
  nextRun, \* the slot of ScheduledJob.next_run_at
  occs,    \* the occurrences of each job: slot and skipped_count
  rewinds  \* how often a next_run_at was set back

schedulerVars == <<now, enabled, nextRun, occs, rewinds>>

\* _advance: a daily job moves by local dates, so its slots follow the zone.
SlotTime(j, i) ==
  IF j \in IntervalJobs
  THEN i * Interval
  ELSE i * DayLength + LocalTime - (IF i >= ChangeDay THEN OffsetShift ELSE 0)

SchedulerInit ==
  /\ now = 0
  /\ enabled = [j \in Jobs |-> TRUE]
  /\ nextRun = [j \in Jobs |-> 0]
  /\ occs = [j \in Jobs |-> {}]
  /\ rewinds = 0

IsDue(j) == enabled[j] /\ SlotTime(j, nextRun[j]) <= now

\* The number of slots from next_run_at to now: by division for an interval,
\* by the loop over local dates for a daily job.
DueCount(j) ==
  IF j \in IntervalJobs
  THEN ((now - SlotTime(j, nextRun[j])) \div Interval) + 1
  ELSE Cardinality({i \in nextRun[j] .. nextRun[j] + MaxTime : SlotTime(j, i) <= now})

Greater(a, b) == IF a > b THEN a ELSE b

\* The due slots that the missed-run policy selects.
Selected(j) ==
  LET first == nextRun[j]
      count == DueCount(j) IN
  IF Policy[j] = "all" THEN first + Greater(0, count - MaxCatchup) .. first + count - 1
  ELSE IF Policy[j] = "latest" THEN {first + count - 1}
  ELSE {}

HasOccurrence(j, i) == \E o \in occs[j] : o.slot = i

\* Mutants of OccsAfterEnqueue: nothing counted as skipped; the selected slots
\* counted as skipped too.
OccsWithoutSkipped(j) ==
  occs[j] \cup
    {[slot |-> i, skipped |-> 0] : i \in {s \in Selected(j) : ~HasOccurrence(j, s)}}

OccsCountedAsSkipped(j) ==
  occs[j] \cup
    {[slot |-> i, skipped |-> DueCount(j)] :
       i \in {s \in Selected(j) : ~HasOccurrence(j, s)}}

\* get_or_create on the idempotency key of each selected slot.
OccsAfterEnqueue(j) ==
  LET skipped == DueCount(j) - Cardinality(Selected(j)) IN
  occs[j] \cup
    {[slot |-> i, skipped |-> skipped] : i \in {s \in Selected(j) : ~HasOccurrence(j, s)}}

EnqueueDueJobs ==
  /\ \E j \in Jobs : IsDue(j)
  /\ nextRun' = [j \in Jobs |-> IF IsDue(j) THEN nextRun[j] + DueCount(j) ELSE nextRun[j]]
  /\ occs' = [j \in Jobs |-> IF IsDue(j) THEN OccsAfterEnqueue(j) ELSE occs[j]]
  /\ UNCHANGED <<now, enabled, rewinds>>

\* The owner on the admin site.
SetEnabled(j, value) ==
  /\ enabled[j] # value
  /\ enabled' = [enabled EXCEPT ![j] = value]
  /\ UNCHANGED <<now, nextRun, occs, rewinds>>

Rewind(j, i) ==
  /\ rewinds < MaxRewinds
  /\ i \in 0 .. nextRun[j] - 1
  /\ nextRun' = [nextRun EXCEPT ![j] = i]
  /\ rewinds' = rewinds + 1
  /\ UNCHANGED <<now, enabled, occs>>

SchedulerTick ==
  /\ now < MaxTime
  /\ now' = now + 1
  /\ UNCHANGED <<enabled, nextRun, occs, rewinds>>

SchedulerNext ==
  \/ EnqueueDueJobs
  \/ \E j \in Jobs : \/ \E value \in BOOLEAN : SetEnabled(j, value)
                     \/ \E i \in 0 .. MaxTime : Rewind(j, i)
  \/ SchedulerTick

SchedulerSpec == SchedulerInit /\ [][SchedulerNext]_schedulerVars

-----------------------------------------------------------------------------
(* Properties.                                                             *)

\* The variables stay in their types (ScheduledJob, JobOccurrence).
SchedulerTypeOK ==
  /\ now \in 0 .. MaxTime
  /\ enabled \in [Jobs -> BOOLEAN]
  /\ nextRun \in [Jobs -> Nat]
  /\ occs \in [Jobs -> SUBSET [slot : Nat, skipped : Nat]]
  /\ rewinds \in 0 .. MaxRewinds

\* A slot never gets two occurrences, however often the job is set back and
\* its slots are met again.
OneOccurrencePerSlot ==
  \A j \in Jobs : \A a, b \in occs[j] : a.slot = b.slot => a = b

\* Slot i has its occurrence, or the first occurrence after it counts it.
IsCovered(j, i) ==
  \/ HasOccurrence(j, i)
  \/ \E o \in occs[j] :
       /\ i < o.slot /\ o.slot - o.skipped <= i
       /\ \A p \in occs[j] : p.slot > i => p.slot >= o.slot

\* No slot that the schedule has passed goes unexplained: it has its
\* occurrence, or the first occurrence after it counts it in skipped_count.
\* (Except under the policy skip, which leaves no trace of any slot.)
PassedSlotsAreCovered ==
  \A j \in Jobs : Policy[j] # "skip" => \A i \in 0 .. nextRun[j] - 1 : IsCovered(j, i)

\* Under latest the counts are exact: every slot passed is accounted for by
\* one occurrence and by no other, its own or the one that counts it as skipped,
\* and nothing else is counted, across outages, disabled periods and the change
\* of the zone's offset, unless the owner set the schedule back.
SlotsOf(o) == o.slot - o.skipped .. o.slot
LatestCountsAreExact ==
  rewinds = 0 =>
    \A j \in Jobs : Policy[j] = "latest" =>
      /\ UNION {SlotsOf(o) : o \in occs[j]} = 0 .. nextRun[j] - 1
      /\ \A o, p \in occs[j] : o # p => SlotsOf(o) \cap SlotsOf(p) = {}

\* An occurrence is never created before its slot is due.
NeverEarly == \A j \in Jobs : \A o \in occs[j] : SlotTime(j, o.slot) <= now

\* One pass catches a job up completely (its next slot lies in the future and
\* follows the last due one), creates at most MAX_CATCHUP_OCCURRENCES rows
\* for it, and touches no job that is disabled or not due.
OnePassCatchesUp ==
  [][\A j \in Jobs :
       /\ Cardinality(occs'[j] \ occs[j]) <= MaxCatchup
       /\ occs[j] \subseteq occs'[j]
       /\ nextRun'[j] > nextRun[j] =>
            /\ enabled[j]
            /\ SlotTime(j, nextRun'[j]) > now
            /\ SlotTime(j, nextRun'[j] - 1) <= now]_schedulerVars
=============================================================================
