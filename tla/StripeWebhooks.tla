---------------------------- MODULE StripeWebhooks ----------------------------
(***************************************************************************)
(* The Stripe webhook pipeline of apps/api and apps/webhooks: an HTTP      *)
(* request per delivery (WebhooksController, WebhooksService.processEvent),*)
(* one row per event in STRIPE_WEBHOOK_EVENTS, the BullMQ queue            *)
(* stripe-webhooks with its workers (WebhookProcessor,                     *)
(* WebhooksService.execute) and the dead-letter queue.                     *)
(*                                                                         *)
(* Every await of the code is a boundary between two actions, so requests  *)
(* and workers interleave at exactly those points.  A request or a worker  *)
(* can die at any of them; a database or Redis call can fail.              *)
(*                                                                         *)
(* Abstracted: the payload and its encryption (an event always carries the *)
(* same payload), RETRY_COUNT, ERROR_MESSAGE and the timestamps (written,  *)
(* never read), logging, and the backoff between two attempts.             *)
(***************************************************************************)
EXTENDS Naturals, FiniteSets

CONSTANTS
  Events,        \* Stripe event identifiers
  Deliveries,    \* the HTTP requests Stripe makes, first deliveries and repeats
  EventOf,       \* EventOf[d]: the event that delivery d carries
  MaxAttempts,   \* attempts of a job (defaultJobOptions of the queue)
  MaxStalls,     \* BullMQ: how often a job may lose its worker and be re-run
  WorkerSlots    \* jobs processed at the same time, over all processes

ASSUME ConstantsAssumption ==
  /\ EventOf \in [Deliveries -> Events]
  /\ MaxAttempts \in Nat \ {0}
  /\ MaxStalls \in Nat
  /\ WorkerSlots \in Nat \ {0}

VARIABLES
  row,       \* row[e]: STATUS of the row of event e, "none" when there is no row
  pc,        \* pc[d]: the next step of the request that serves delivery d
  job,       \* job[d]: the job that delivery d enqueued
  attempts,  \* attempts[d]: attemptsMade of that job
  stalls,    \* stalls[d]: how often that job lost its worker
  dlqDue,    \* dlqDue[d]: calls of dlq.add for that job still under way
  dlq,       \* dlq[d]: entries of that job in the dead-letter queue
  handled    \* the deliveries whose job has run the handler to its end

requestVars == <<pc>>
jobVars     == <<job, attempts, stalls>>
dlqVars     == <<dlqDue, dlq>>
vars        == <<row, pc, job, attempts, stalls, dlqDue, dlq, handled>>

-------------------------------------------------------------------------------
(* Types.                                                                      *)

RowStatus == {"none", "pending", "processed", "failed"}

\* A request is about to look the event up, to insert the row, to reset it, to
\* enqueue the job or to answer; in the end it answered 200 or it did not.
RequestStep == {"find", "insert", "retry", "enqueue", "respond", "acked", "rejected"}

\* A job that a worker holds: before the handler returned, after it returned,
\* after markProcessed, after something threw, after markFailed.
ActiveJob == {"active", "handled", "done", "erred", "thrown"}
LiveJob   == {"waiting"} \cup ActiveJob
JobState  == {"none", "completed", "dead"} \cup LiveJob

TypeOK ==
  /\ row \in [Events -> RowStatus]
  /\ pc \in [Deliveries -> RequestStep]
  /\ job \in [Deliveries -> JobState]
  /\ attempts \in [Deliveries -> 0..MaxAttempts]
  /\ stalls \in [Deliveries -> 0..MaxStalls]
  /\ dlqDue \in [Deliveries -> Nat]
  /\ dlq \in [Deliveries -> Nat]
  /\ handled \subseteq Deliveries

Init ==
  /\ row = [e \in Events |-> "none"]
  /\ pc = [d \in Deliveries |-> "find"]
  /\ job = [d \in Deliveries |-> "none"]
  /\ attempts = [d \in Deliveries |-> 0]
  /\ stalls = [d \in Deliveries |-> 0]
  /\ dlqDue = [d \in Deliveries |-> 0]
  /\ dlq = [d \in Deliveries |-> 0]
  /\ handled = {}

-------------------------------------------------------------------------------
(* Steps and the faulty variants that the properties are validated against:    *)
(* each is a definition below as a plausible bug would have it.                *)

GoTo(d, step) == pc' = [pc EXCEPT ![d] = step]

JobTo(d, state) == job' = [job EXCEPT ![d] = state]

\* Faulty Find: any recorded event is skipped, not only a processed one.
FindSkipsRecorded(d) ==
  /\ pc[d] = "find"
  /\ GoTo(d, IF row[EventOf[d]] = "none" THEN "insert" ELSE "respond")
  /\ UNCHANGED <<row, jobVars, dlqVars, handled>>

\* Faulty FailDelivery: the error of queue.add is logged and swallowed.
FailDeliverySwallowed(d) ==
  /\ pc[d] \notin {"acked", "rejected"}
  /\ GoTo(d, IF pc[d] = "enqueue" THEN "respond" ELSE "rejected")
  /\ UNCHANGED <<row, jobVars, dlqVars, handled>>

\* Faulty HandlerThrows: the handler's error is swallowed.
HandlerErrorSwallowed(d) ==
  /\ job[d] = "active"
  /\ JobTo(d, "handled")
  /\ UNCHANGED <<row, pc, attempts, stalls, dlqVars, handled>>

\* Faulty FailAttempt: a job that failed is dropped instead of tried again.
FailAttemptDropped(d) ==
  /\ job[d] = "thrown"
  /\ attempts' = [attempts EXCEPT ![d] = @ + 1]
  /\ JobTo(d, "completed")
  /\ UNCHANGED <<row, pc, stalls, dlqVars, handled>>

\* Faulty FailAttempt: the job is tried again however often it has failed.
FailAttemptUnbounded(d) ==
  /\ job[d] = "thrown"
  /\ attempts' = [attempts EXCEPT ![d] = @ + 1]
  /\ JobTo(d, "waiting")
  /\ UNCHANGED <<row, pc, stalls, dlqVars, handled>>

\* Faulty DlqThreshold: strictly more attempts than the limit.
DlqThresholdStrict(attemptsMade) == attemptsMade > MaxAttempts

-------------------------------------------------------------------------------
(* processEvent: one request per delivery.                                     *)

\* findByStripeEventId, and the branch taken on what it returned.
Find(d) ==
  /\ pc[d] = "find"
  /\ GoTo(d, CASE row[EventOf[d]] = "processed" -> "respond"
               [] row[EventOf[d]] = "none"      -> "insert"
               [] OTHER                         -> "retry")
  /\ UNCHANGED <<row, jobVars, dlqVars, handled>>

\* The row's STRIPE_EVENT_ID is unique: when another request inserted first, the
\* statement throws and the request ends with an error.
Insert(d) ==
  /\ pc[d] = "insert"
  /\ IF row[EventOf[d]] = "none"
     THEN /\ row' = [row EXCEPT ![EventOf[d]] = "pending"]
          /\ GoTo(d, "enqueue")
     ELSE /\ GoTo(d, "rejected")
          /\ UNCHANGED row
  /\ UNCHANGED <<jobVars, dlqVars, handled>>

\* The row found earlier is reset whatever its status is by now.
UpdateForRetry(d) ==
  /\ pc[d] = "retry"
  /\ row' = [row EXCEPT ![EventOf[d]] = "pending"]
  /\ GoTo(d, "enqueue")
  /\ UNCHANGED <<jobVars, dlqVars, handled>>

Enqueue(d) ==
  /\ pc[d] = "enqueue"
  /\ job' = [job EXCEPT ![d] = "waiting"]
  /\ GoTo(d, "respond")
  /\ UNCHANGED <<row, attempts, stalls, dlqVars, handled>>

Respond(d) ==
  /\ pc[d] = "respond"
  /\ GoTo(d, "acked")
  /\ UNCHANGED <<row, jobVars, dlqVars, handled>>

\* A database or Redis error, the death of the process, a connection Stripe gave
\* up on: Stripe does not see a 200 and will deliver the event again.
FailDelivery(d) ==
  /\ pc[d] \notin {"acked", "rejected"}
  /\ GoTo(d, "rejected")
  /\ UNCHANGED <<row, jobVars, dlqVars, handled>>

-------------------------------------------------------------------------------
(* The worker: WebhookProcessor.process and WebhooksService.execute.           *)

Busy == {d \in Deliveries : job[d] \in ActiveJob}

TakeJob(d) ==
  /\ job[d] = "waiting"
  /\ Cardinality(Busy) < WorkerSlots
  /\ JobTo(d, "active")
  /\ UNCHANGED <<row, pc, attempts, stalls, dlqVars, handled>>

\* getPayload, decrypt, parse and the handler all return.  getPayload reads
\* row.payload, which needs a row.
RunHandler(d) ==
  /\ job[d] = "active"
  /\ row[EventOf[d]] # "none"
  /\ JobTo(d, "handled")
  /\ handled' = handled \cup {d}
  /\ UNCHANGED <<row, pc, attempts, stalls, dlqVars>>

\* One of them throws.
HandlerThrows(d) ==
  /\ job[d] = "active"
  /\ JobTo(d, "erred")
  /\ UNCHANGED <<row, pc, attempts, stalls, dlqVars, handled>>

MarkProcessed(d) ==
  /\ job[d] = "handled"
  /\ row' = [row EXCEPT ![EventOf[d]] = "processed"]
  /\ JobTo(d, "done")
  /\ UNCHANGED <<pc, attempts, stalls, dlqVars, handled>>

\* markProcessed is inside the try block too: its error is a failed attempt.
MarkProcessedThrows(d) ==
  /\ job[d] = "handled"
  /\ JobTo(d, "erred")
  /\ UNCHANGED <<row, pc, attempts, stalls, dlqVars, handled>>

MarkFailed(d) ==
  /\ job[d] = "erred"
  /\ row' = [row EXCEPT ![EventOf[d]] = "failed"]
  /\ JobTo(d, "thrown")
  /\ UNCHANGED <<pc, attempts, stalls, dlqVars, handled>>

\* markFailed throws in turn: the job fails just the same, the row stays as it is.
MarkFailedThrows(d) ==
  /\ job[d] = "erred"
  /\ JobTo(d, "thrown")
  /\ UNCHANGED <<row, pc, attempts, stalls, dlqVars, handled>>

-------------------------------------------------------------------------------
(* BullMQ and the onFailed listener.                                           *)

\* onFailed: BullMQ has already counted the failed attempt in attemptsMade when
\* it emits the event; the listener adds one more before it compares.
DlqThreshold(attemptsMade) == attemptsMade + 1 >= MaxAttempts

ScheduleDlq(d, attemptsMade) ==
  dlqDue' = [dlqDue EXCEPT ![d] = IF DlqThreshold(attemptsMade) THEN @ + 1 ELSE @]

CompleteJob(d) ==
  /\ job[d] = "done"
  /\ JobTo(d, "completed")
  /\ UNCHANGED <<row, pc, attempts, stalls, dlqVars, handled>>

\* The attempt is counted; the job waits for its next attempt or is dead; then
\* the failed event runs onFailed.
FailAttempt(d) ==
  LET made == attempts[d] + 1 IN
  /\ job[d] = "thrown"
  /\ attempts' = [attempts EXCEPT ![d] = made]
  /\ JobTo(d, IF made < MaxAttempts THEN "waiting" ELSE "dead")
  /\ ScheduleDlq(d, made)
  /\ UNCHANGED <<row, pc, stalls, dlq, handled>>

\* The worker dies holding the job: its lock expires and the job waits again.
StallJob(d) ==
  /\ job[d] \in ActiveJob
  /\ stalls[d] < MaxStalls
  /\ stalls' = [stalls EXCEPT ![d] = @ + 1]
  /\ JobTo(d, "waiting")
  /\ UNCHANGED <<row, pc, attempts, dlqVars, handled>>

\* A job that stalls once too often fails for good, whatever attempts it has
\* left; the failed event is emitted for it like for any other.
StallOut(d) ==
  LET made == attempts[d] + 1 IN
  /\ job[d] \in ActiveJob
  /\ stalls[d] = MaxStalls
  /\ attempts' = [attempts EXCEPT ![d] = made]
  /\ JobTo(d, "dead")
  /\ ScheduleDlq(d, made)
  /\ UNCHANGED <<row, pc, stalls, dlq, handled>>

DlqAdd(d) ==
  /\ dlqDue[d] > 0
  /\ dlqDue' = [dlqDue EXCEPT ![d] = @ - 1]
  /\ dlq' = [dlq EXCEPT ![d] = @ + 1]
  /\ UNCHANGED <<row, pc, jobVars, handled>>

\* dlq.add fails or the process dies first: nothing calls it again.
DlqLost(d) ==
  /\ dlqDue[d] > 0
  /\ dlqDue' = [dlqDue EXCEPT ![d] = @ - 1]
  /\ UNCHANGED <<row, pc, jobVars, dlq, handled>>

-------------------------------------------------------------------------------

ProcessEvent(d) ==
  \/ Find(d)
  \/ Insert(d)
  \/ UpdateForRetry(d)
  \/ Enqueue(d)
  \/ Respond(d)
  \/ FailDelivery(d)

Execute(d) ==
  \/ RunHandler(d)
  \/ HandlerThrows(d)
  \/ MarkProcessed(d)
  \/ MarkProcessedThrows(d)
  \/ MarkFailed(d)
  \/ MarkFailedThrows(d)

Worker(d) ==
  \/ TakeJob(d)
  \/ Execute(d)
  \/ CompleteJob(d)
  \/ FailAttempt(d)
  \/ StallJob(d)
  \/ StallOut(d)

OnFailed(d) == DlqAdd(d) \/ DlqLost(d)

Next == \E d \in Deliveries : ProcessEvent(d) \/ Worker(d) \/ OnFailed(d)

\* A request that was accepted runs to its end and a worker keeps taking jobs:
\* BullMQ's workers poll for ever, delayed jobs become due and stalled jobs are
\* picked up.  Nothing is assumed of Stripe beyond the deliveries it makes.
Fairness ==
  \A d \in Deliveries :
    /\ WF_vars(ProcessEvent(d))
    /\ WF_vars(Worker(d))
    /\ WF_vars(OnFailed(d))

Spec == Init /\ [][Next]_vars

FairSpec == Spec /\ Fairness

-------------------------------------------------------------------------------
(* Safety.                                                                     *)

DeliveriesOf(e) == {d \in Deliveries : EventOf[d] = e}

Handled(e) == \E d \in DeliveriesOf(e) : d \in handled

\* A worker never runs a job whose row is missing: getPayload dereferences the
\* row it selects without a check (WebhooksRepository.getPayload).
PayloadIsFound ==
  \A d \in Deliveries : job[d] # "none" => row[EventOf[d]] # "none"

\* An event marked processed was handled: the skip in processEvent, which trusts
\* that status, never drops an event nobody handled.
ProcessedWasHandled ==
  \A e \in Events : row[e] = "processed" => Handled(e)

\* Stripe is told 200 only when the event was handled or the very delivery that is
\* answered left a job behind: an acknowledged event is never lost, although
\* Stripe will not deliver it again.
AckedIsAccounted ==
  \A d \in Deliveries :
    pc[d] = "acked" => job[d] # "none" \/ Handled(EventOf[d])

\* Someone still answers for an event whose row is pending or failed: a request
\* about to enqueue, a delivery Stripe knows it must repeat, or a job of the
\* event that is alive or has died visibly.  Only a completed job would leave the
\* row behind with nobody to finish the work.
Answers(d) ==
  \/ pc[d] \in {"enqueue", "rejected"}
  \/ job[d] \in {"waiting", "active", "handled", "erred", "thrown", "dead"}

NeverForgotten ==
  \A e \in Events :
    row[e] \in {"pending", "failed"} => \E d \in DeliveriesOf(e) : Answers(d)

\* A job that dies of its last attempt has its dead-letter entry under way or
\* written when it dies (onFailed's purpose, whatever else it does too early).
ExhaustedGoesToDlq ==
  [][\A d \in Deliveries :
       (job[d] # "dead" /\ job'[d] = "dead" /\ attempts'[d] = MaxAttempts)
         => dlqDue'[d] > 0]_vars

-------------------------------------------------------------------------------
(* The promise of WebhookInbox.                                                *)

HasJobIn(e, states) == \E d \in DeliveriesOf(e) : job[d] \in states

InboxStatus(e) ==
  IF Handled(e) THEN "handled"
  ELSE IF HasJobIn(e, LiveJob) THEN "queued"
  ELSE IF HasJobIn(e, {"dead"}) THEN "dead"
  ELSE IF row[e] = "none" THEN "new"
  ELSE "recorded"

Inbox == INSTANCE WebhookInbox WITH
  status       <- [e \in Events |-> InboxStatus(e)],
  acknowledged <- {e \in Events : \E d \in DeliveriesOf(e) : pc[d] = "acked"}

\* The pipeline implements its abstract specification, liveness included: an
\* acknowledged event has work queued or done, and it is handled in the end or
\* one of its jobs dies visibly.
ImplementsInbox == Inbox!Spec
===============================================================================
