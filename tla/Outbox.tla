------------------------------- MODULE Outbox -------------------------------
(***************************************************************************)
(* Owner e-mail: create_owner_notification (operations/notifications.py),  *)
(* the transactional outbox (operations/services.py) and the delivery step *)
(* of a worker process (operations/email_delivery.py).                     *)
(*                                                                         *)
(* A subject (a selection cohort, an evidence incident, an interpretation) *)
(* has one notification and one outbox message.  Some callers notify       *)
(* inside the subject's own transaction; the callers in                    *)
(* forecasts/interpretations.py notify in transaction.on_commit, after the *)
(* subject is committed, and there the notification and the message are    *)
(* two transactions.                                                       *)
(*                                                                         *)
(* A delivering process claims a message under a lease, talks to the SMTP  *)
(* server with no lock held and no timeout set, and then records the       *)
(* outcome.  Timers are relative, as in module JobQueue.                   *)
(***************************************************************************)
EXTENDS Integers, FiniteSets

CONSTANTS
  MaxMessages,   \* bound: subjects; message m belongs to subject m
  OnCommit,      \* the subjects that are notified from an on_commit hook
  Mailers,       \* delivering processes (fresh worker_id per process)
  NoMailer,      \* the empty lease_owner
  MaxDeliveries,   \* OutboxMessage.max_attempts
  SendLease, \* LEASE_DURATION, in ticks
  RetryUnit,   \* the 30 seconds of the retry backoff, in ticks
  MaxDelay,       \* bound: longer waits of a due message are not told apart
  MaxDeaths     \* bound: processes that die

Messages == 1 .. MaxMessages

ASSUME OutboxAssumption ==
  /\ MaxMessages \in Nat
  /\ OnCommit \subseteq Messages
  /\ NoMailer \notin Mailers
  /\ MaxDeliveries \in Nat \ {0}
  /\ SendLease \in Nat \ {0}
  /\ RetryUnit \in Nat
  /\ MaxDelay \in Nat
  /\ MaxDeaths \in Nat

VARIABLES
  producer, \* how far the producer of each subject has come
  msg,      \* the OutboxMessage rows
  outcome,  \* DeliveryAttempt.outcome by message and attempt number
  accepted, \* the attempts of each message whose e-mail the server accepted
  stage,       \* where each process is in deliver_one_email
  work,     \* the <<message, attempt>> each process is delivering
  deaths   \* how many processes died

outboxVars == <<producer, msg, outcome, accepted, stage, work, deaths>>

Deliveries == 1 .. MaxDeliveries
Ended == {"sent", "failed", "uncertain"}
MessageStatus == {"absent", "pending", "sending"} \cup Ended
Result == {"succeeded", "failed", "uncertain"}
Outcome == {"absent", "started"} \cup Result
ProducerStep == {"new", "committed", "notified", "done", "died"}
NoWork == <<>>

Message ==
  [status : MessageStatus, attempts : 0 .. MaxDeliveries, waitLeft : Int,
   owner : Mailers \cup {NoMailer}, leaseLeft : Nat]

AbsentMessage ==
  [status |-> "absent", attempts |-> 0, waitLeft |-> 0, owner |-> NoMailer,
   leaseLeft |-> 0]

OutboxInit ==
  /\ producer = [m \in Messages |-> "new"]
  /\ msg = [m \in Messages |-> AbsentMessage]
  /\ outcome = [m \in Messages |-> [n \in Deliveries |-> "absent"]]
  /\ accepted = [m \in Messages |-> {}]
  /\ stage = [w \in Mailers |-> "idle"]
  /\ work = [w \in Mailers |-> NoWork]
  /\ deaths = 0

-----------------------------------------------------------------------------
(* Producers.                                                              *)

\* get_or_create on the idempotency key: an existing message is kept.
Enqueued(row) ==
  IF row.status = "absent" THEN [row EXCEPT !.status = "pending"] ELSE row

\* The subject, its notification and its message in one transaction
\* (assess_recommendation_batch, notify_incident).
NotifyInTransaction(m) ==
  /\ m \notin OnCommit
  /\ producer[m] = "new"
  /\ producer' = [producer EXCEPT ![m] = "done"]
  /\ msg' = [msg EXCEPT ![m] = Enqueued(@)]
  /\ UNCHANGED <<outcome, accepted, stage, work, deaths>>

\* interpret_review_member commits the interpretation; its hook runs later.
CommitSubject(m) ==
  /\ m \in OnCommit
  /\ producer[m] = "new"
  /\ producer' = [producer EXCEPT ![m] = "committed"]
  /\ UNCHANGED <<msg, outcome, accepted, stage, work, deaths>>

HookCreatesNotification(m) ==
  /\ producer[m] = "committed"
  /\ producer' = [producer EXCEPT ![m] = "notified"]
  /\ UNCHANGED <<msg, outcome, accepted, stage, work, deaths>>

HookEnqueues(m) ==
  /\ producer[m] = "notified"
  /\ producer' = [producer EXCEPT ![m] = "done"]
  /\ msg' = [msg EXCEPT ![m] = Enqueued(@)]
  /\ UNCHANGED <<outcome, accepted, stage, work, deaths>>

\* The producing process dies.  A retry finds the recorded attempt and
\* returns before the code that would notify, so the hook is not run again.
ProducerDies(m) ==
  /\ producer[m] \in {"committed", "notified"}
  /\ deaths < MaxDeaths
  /\ deaths' = deaths + 1
  /\ producer' = [producer EXCEPT ![m] = "died"]
  /\ UNCHANGED <<msg, outcome, accepted, stage, work>>

-----------------------------------------------------------------------------
(* Delivery.                                                               *)

\* Mutant of IsSendable: an expired lease is never taken over.
OnlyPendingIsDue(row) == row.status = "pending" /\ row.waitLeft <= 0

IsSendable(row) ==
  /\ \/ row.status = "pending"
     \/ row.status = "sending" /\ row.leaseLeft = 0
  /\ row.waitLeft <= 0

\* order_by("not_before", "id").first()
IsFirstDue(m) ==
  /\ IsSendable(msg[m])
  /\ \A k \in Messages : IsSendable(msg[k]) =>
       \/ msg[m].waitLeft < msg[k].waitLeft
       \/ msg[m].waitLeft = msg[k].waitLeft /\ m <= k

AttemptLeft(row) == row.attempts < MaxDeliveries

\* An expired lease of the last attempt: the message is given up.
ClaimExhausted(w, m) ==
  /\ stage[w] = "idle"
  /\ IsFirstDue(m)
  /\ ~AttemptLeft(msg[m])
  /\ msg' = [msg EXCEPT ![m].status = "failed"]
  /\ UNCHANGED <<producer, outcome, accepted, stage, work, deaths>>

\* Mutants of OutcomesAfterClaim: the expired attempt is left as it is; it is
\* recorded as failed.
ExpiredAttemptKept(m) ==
  [outcome[m] EXCEPT ![msg[m].attempts + 1] = "started"]

ExpiredAttemptFailed(m) ==
  [n \in Deliveries |->
     CASE n = msg[m].attempts + 1 -> "started"
       [] n = msg[m].attempts /\ msg[m].status = "sending" -> "failed"
       [] OTHER -> outcome[m][n]]

\* The attempt rows of message m after its next attempt was started.
OutcomesAfterClaim(m) ==
  [n \in Deliveries |->
     IF n = msg[m].attempts + 1 THEN "started"
     ELSE IF n = msg[m].attempts /\ msg[m].status = "sending" THEN "uncertain"
     ELSE outcome[m][n]]

ClaimedMessage(row, w) ==
  [status |-> "sending", attempts |-> row.attempts + 1, waitLeft |-> row.waitLeft,
   owner |-> w, leaseLeft |-> SendLease]

Claim(w, m) ==
  /\ stage[w] = "idle"
  /\ IsFirstDue(m)
  /\ AttemptLeft(msg[m])
  /\ msg' = [msg EXCEPT ![m] = ClaimedMessage(@, w)]
  /\ outcome' = [outcome EXCEPT ![m] = OutcomesAfterClaim(m)]
  /\ stage' = [stage EXCEPT ![w] = "sending"]
  /\ work' = [work EXCEPT ![w] = <<m, msg[m].attempts + 1>>]
  /\ UNCHANGED <<producer, accepted, deaths>>

\* The server accepts the e-mail.  The process learns so, or loses the
\* connection first (SMTPServerDisconnected, or any other exception).
SmtpAccepts(w, result) ==
  /\ stage[w] = "sending"
  /\ result \in {"succeeded", "uncertain"}
  /\ accepted' = [accepted EXCEPT ![work[w][1]] = @ \cup {work[w][2]}]
  /\ stage' = [stage EXCEPT ![w] = result]
  /\ UNCHANGED <<producer, msg, outcome, work, deaths>>

\* The e-mail does not go out: the contract is unsupported, the notification
\* is missing or the server refuses (SMTPException, ValueError, KeyError,
\* DoesNotExist), or the connection fails (every other exception).
SmtpRefuses(w, result) ==
  /\ stage[w] = "sending"
  /\ result \in {"failed", "uncertain"}
  /\ stage' = [stage EXCEPT ![w] = result]
  /\ UNCHANGED <<producer, msg, outcome, accepted, work, deaths>>

\* Mutants of OwnsMessage: the owner, or the status, is not compared.
MessageIsSending(w) == msg[work[w][1]].status = "sending"
MessageHasOwner(w) == msg[work[w][1]].owner = w

OwnsMessage(w) ==
  /\ msg[work[w][1]].status = "sending"
  /\ msg[work[w][1]].owner = w

RetryDelay(n) == RetryUnit * (2 ^ (n - 1))

\* The message row after finish_outbox recorded the result of an attempt.
FinishedMessage(row, result) ==
  LET retry == result = "failed" /\ row.attempts < MaxDeliveries IN
  [status |-> IF result = "succeeded" THEN "sent"
              ELSE IF result = "uncertain" THEN "uncertain"
              ELSE IF retry THEN "pending" ELSE "failed",
   attempts |-> row.attempts,
   waitLeft |-> IF retry THEN RetryDelay(row.attempts) ELSE row.waitLeft,
   owner |-> NoMailer, leaseLeft |-> 0]

OutcomeAccepted(w) ==
  /\ stage[w] \in Result
  /\ OwnsMessage(w)
  /\ LET m == work[w][1] IN
       /\ outcome' = [outcome EXCEPT ![m][msg[m].attempts] = stage[w]]
       /\ msg' = [msg EXCEPT ![m] = FinishedMessage(@, stage[w])]
  /\ stage' = [stage EXCEPT ![w] = "idle"]
  /\ work' = [work EXCEPT ![w] = NoWork]
  /\ UNCHANGED <<producer, accepted, deaths>>

\* Another process took the message over: finish_outbox changes nothing.
OutcomeRefused(w) ==
  /\ stage[w] \in Result
  /\ ~OwnsMessage(w)
  /\ stage' = [stage EXCEPT ![w] = "idle"]
  /\ work' = [work EXCEPT ![w] = NoWork]
  /\ UNCHANGED <<producer, msg, outcome, accepted, deaths>>

MailerDies(w) ==
  /\ stage[w] # "dead"
  /\ deaths < MaxDeaths
  /\ deaths' = deaths + 1
  /\ stage' = [stage EXCEPT ![w] = "dead"]
  /\ work' = [work EXCEPT ![w] = NoWork]
  /\ UNCHANGED <<producer, msg, outcome, accepted>>

\* One tick later.
AgedMessage(row) ==
  [status |-> row.status, attempts |-> row.attempts,
   waitLeft |-> IF row.status = "pending" /\ row.waitLeft > -MaxDelay
                THEN row.waitLeft - 1 ELSE row.waitLeft,
   owner |-> row.owner,
   leaseLeft |-> IF row.leaseLeft > 0 THEN row.leaseLeft - 1 ELSE 0]

OutboxTick ==
  /\ msg' = [m \in Messages |-> AgedMessage(msg[m])]
  /\ UNCHANGED <<producer, outcome, accepted, stage, work, deaths>>

Produce(m) ==
  \/ NotifyInTransaction(m) \/ CommitSubject(m)
  \/ HookCreatesNotification(m) \/ HookEnqueues(m) \/ ProducerDies(m)

Deliver(w) ==
  \/ \E m \in Messages : ClaimExhausted(w, m) \/ Claim(w, m)
  \/ \E result \in Result : SmtpAccepts(w, result) \/ SmtpRefuses(w, result)
  \/ OutcomeAccepted(w) \/ OutcomeRefused(w)

OutboxNext ==
  \/ \E m \in Messages : Produce(m)
  \/ \E w \in Mailers : Deliver(w) \/ MailerDies(w)
  \/ OutboxTick

OutboxSpec == OutboxInit /\ [][OutboxNext]_outboxVars

\* Processes are scheduled, the clock advances, and the SMTP server or the
\* network eventually ends every conversation (no EMAIL_TIMEOUT is set, so
\* this last one is an assumption about the server, not about the code).
OutboxFairSpec ==
  /\ OutboxSpec
  /\ WF_outboxVars(OutboxTick)
  /\ \A w \in Mailers : WF_outboxVars(Deliver(w))

-----------------------------------------------------------------------------
(* Properties.                                                             *)

\* The variables stay in their types (OutboxMessage, DeliveryAttempt and the
\* state of a delivering process).
OutboxTypeOK ==
  /\ producer \in [Messages -> ProducerStep]
  /\ msg \in [Messages -> Message]
  /\ outcome \in [Messages -> [Deliveries -> Outcome]]
  /\ accepted \in [Messages -> SUBSET Deliveries]
  /\ stage \in [Mailers -> {"idle", "sending", "dead"} \cup Result]
  /\ work \in [Mailers -> (Messages \X Deliveries) \cup {NoWork}]
  /\ deaths \in 0 .. MaxDeaths

\* The attempt rows and the message tell one story: exactly the attempts that
\* were claimed have rows, every attempt before the latest has ended and did
\* not succeed, and the message's status is what its latest attempt implies.
AttemptsMatchMessage ==
  \A m \in Messages :
    LET n == msg[m].attempts IN
    /\ \A k \in Deliveries : outcome[m][k] = "absent" <=> k > n
    /\ \A k \in 1 .. n - 1 : outcome[m][k] \in {"failed", "uncertain"}
    /\ msg[m].status = "sending" => n > 0 /\ outcome[m][n] = "started"
    /\ msg[m].status = "sent" => n > 0 /\ outcome[m][n] = "succeeded"
    /\ msg[m].status = "uncertain" => n > 0 /\ outcome[m][n] = "uncertain"
    /\ msg[m].status = "pending" /\ n > 0 => outcome[m][n] = "failed"

\* The record never denies a delivery: an attempt whose e-mail the server
\* accepted is not recorded as failed, an attempt recorded as succeeded was
\* accepted, and every duplicate an owner can receive is one of at most
\* max_attempts attempts that the rows list.
DeliveryRecordIsHonest ==
  \A m \in Messages : \A k \in Deliveries :
    /\ k \in accepted[m] => outcome[m][k] \in {"started", "succeeded", "uncertain"}
    /\ outcome[m][k] = "succeeded" => k \in accepted[m]

\* finish_outbox compares worker_id only: a process that still owns the
\* message it delivers is on the message's latest attempt, so the outcome it
\* records is never written over a newer attempt's row.
DeliveryIsFenced ==
  \A w \in Mailers :
    stage[w] \in {"sending"} \cup Result /\ OwnsMessage(w) =>
      work[w][2] = msg[work[w][1]].attempts

\* A message that was sent, given up or left uncertain is never claimed
\* again, and no recorded outcome is ever rewritten.
RecordedOutcomesAreFinal ==
  [][\A m \in Messages :
       /\ msg[m].status \in Ended =>
            msg'[m].status = msg[m].status /\ msg'[m].attempts = msg[m].attempts
       /\ \A k \in Deliveries :
            outcome[m][k] \in Result => outcome'[m][k] = outcome[m][k]]_outboxVars

\* Every enqueued message is eventually sent, failed or uncertain, whichever
\* processes die while delivering it, as long as one lives.
EventuallySettled ==
  \A m \in Messages : msg[m].status # "absent" ~> msg[m].status \in Ended
=============================================================================
