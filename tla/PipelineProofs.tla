----------------------------- MODULE PipelineProofs -----------------------------
(***************************************************************************)
(* Proofs about the webhook pipeline, StripeWebhooks, and about the trail  *)
(* that it leaves, AuditTrail, for any events, deliveries, types and limit *)
(* of the queue.                                                           *)
(*                                                                         *)
(* The inductive invariant IInv ties the request, the row and the job of a *)
(* delivery together; the safety properties of the pipeline follow from    *)
(* it.  A behaviour of the audit trail is one of the pipeline, so that     *)
(* they hold there as well, and IInvT adds what the entries say.           *)
(***************************************************************************)
EXTENDS AuditTrail, FiniteSetTheorems, TLAPS

-------------------------------------------------------------------------------
(* The inductive invariant.                                                    *)

\* A request leaves a job behind in its enqueue step and not before.
NoJobBeforeEnqueue ==
  \A d \in Deliveries :
    pc[d] \in {"find", "insert", "retry", "enqueue"} => job[d] = "none"

\* A job that may be tried again has attempts left.
AttemptsLeft ==
  \A d \in Deliveries : job[d] \in LiveJob \cup {"none"} => attempts[d] < MaxAttempts

Core == TypeOK /\ NoJobBeforeEnqueue /\ AttemptsLeft

\* A request past its database write, and a job, belong to a recorded event.
RowKnown ==
  \A d \in Deliveries :
    pc[d] \in {"enqueue", "respond", "acked"} \/ job[d] # "none"
      => row[EventOf[d]] # "none"

\* A job that has passed its handler is one of those that ran it to the end.
PastHandler ==
  \A d \in Deliveries : job[d] \in {"handled", "done", "completed"} => d \in handled

\* The request that is about to answer 200 is accounted for already.
Accounted ==
  \A d \in Deliveries :
    pc[d] \in {"respond", "acked"} => job[d] # "none" \/ Handled(EventOf[d])

IInv ==
  Core /\ RowKnown /\ PastHandler /\ ProcessedWasHandled /\ Accounted /\ NeverForgotten

-------------------------------------------------------------------------------
(* Each part is kept by every step.                                            *)

\* The typing of the state and the attempt bound.
LEMMA StepCore ==
  ASSUME Core, [Next]_vars
  PROVE  Core'
<1> USE ConstantsAssumption
    DEF Core, TypeOK, NoJobBeforeEnqueue, AttemptsLeft, RowStatus, RequestStep, JobState,
        LiveJob, ActiveJob, GoTo, JobTo, ScheduleDlq, jobVars, dlqVars
<1>1. CASE UNCHANGED vars
  BY <1>1 DEF vars
<1>2. ASSUME NEW d \in Deliveries, ProcessEvent(d)
      PROVE  Core'
  <2>1. CASE Find(d)                 BY <2>1 DEF Find
  <2>2. CASE Insert(d)               BY <2>2 DEF Insert
  <2>3. CASE UpdateForRetry(d)       BY <2>3 DEF UpdateForRetry
  <2>4. CASE Enqueue(d)              BY <2>4 DEF Enqueue
  <2>5. CASE Respond(d)              BY <2>5 DEF Respond
  <2>6. CASE FailDelivery(d)         BY <2>6 DEF FailDelivery
  <2>7. QED
    BY <1>2, <2>1, <2>2, <2>3, <2>4, <2>5, <2>6 DEF ProcessEvent
<1>3. ASSUME NEW d \in Deliveries, Worker(d)
      PROVE  Core'
  <2>1. CASE TakeJob(d)              BY <2>1 DEF TakeJob
  <2>2. CASE RunHandler(d)           BY <2>2 DEF RunHandler
  <2>3. CASE HandlerThrows(d)        BY <2>3 DEF HandlerThrows
  <2>4. CASE MarkProcessed(d)        BY <2>4 DEF MarkProcessed
  <2>5. CASE MarkProcessedThrows(d)  BY <2>5 DEF MarkProcessedThrows
  <2>6. CASE MarkFailed(d)           BY <2>6 DEF MarkFailed
  <2>7. CASE MarkFailedThrows(d)     BY <2>7 DEF MarkFailedThrows
  <2>8. CASE CompleteJob(d)          BY <2>8 DEF CompleteJob
  <2>9. CASE FailAttempt(d)          BY <2>9 DEF FailAttempt
  <2>10. CASE StallJob(d)             BY <2>10 DEF StallJob
  <2>11. CASE StallOut(d)             BY <2>11 DEF StallOut
  <2>12. QED
    BY <1>3, <2>1, <2>2, <2>3, <2>4, <2>5, <2>6, <2>7, <2>8, <2>9, <2>10, <2>11
    DEF Worker, Execute
<1>4. ASSUME NEW d \in Deliveries, OnFailed(d)
      PROVE  Core'
  BY <1>4 DEF OnFailed, DlqAdd, DlqLost
<1>5. QED
  BY <1>1, <1>2, <1>3, <1>4 DEF Next

\* A job never runs ahead of the row it needs.
LEMMA StepRowKnown ==
  ASSUME Core, RowKnown, [Next]_vars
  PROVE  RowKnown'
<1> USE ConstantsAssumption
    DEF Core, TypeOK, NoJobBeforeEnqueue, GoTo, JobTo, jobVars, dlqVars, ActiveJob, RowKnown
<1>1. CASE UNCHANGED vars
  BY <1>1 DEF vars
<1>2. ASSUME NEW d \in Deliveries, ProcessEvent(d)
      PROVE  RowKnown'
  <2>1. CASE Find(d)                 BY <2>1 DEF Find
  <2>2. CASE Insert(d)               BY <2>2 DEF Insert
  <2>3. CASE UpdateForRetry(d)       BY <2>3 DEF UpdateForRetry
  <2>4. CASE Enqueue(d)              BY <2>4 DEF Enqueue
  <2>5. CASE Respond(d)              BY <2>5 DEF Respond
  <2>6. CASE FailDelivery(d)         BY <2>6 DEF FailDelivery
  <2>7. QED
    BY <1>2, <2>1, <2>2, <2>3, <2>4, <2>5, <2>6 DEF ProcessEvent
<1>3. ASSUME NEW d \in Deliveries, Worker(d)
      PROVE  RowKnown'
  <2>1. CASE TakeJob(d)              BY <2>1 DEF TakeJob
  <2>2. CASE RunHandler(d)           BY <2>2 DEF RunHandler
  <2>3. CASE HandlerThrows(d)        BY <2>3 DEF HandlerThrows
  <2>4. CASE MarkProcessed(d)        BY <2>4 DEF MarkProcessed
  <2>5. CASE MarkProcessedThrows(d)  BY <2>5 DEF MarkProcessedThrows
  <2>6. CASE MarkFailed(d)           BY <2>6 DEF MarkFailed
  <2>7. CASE MarkFailedThrows(d)     BY <2>7 DEF MarkFailedThrows
  <2>8. CASE CompleteJob(d)          BY <2>8 DEF CompleteJob
  <2>9. CASE FailAttempt(d)          BY <2>9 DEF FailAttempt
  <2>10. CASE StallJob(d)             BY <2>10 DEF StallJob
  <2>11. CASE StallOut(d)             BY <2>11 DEF StallOut
  <2>12. QED
    BY <1>3, <2>1, <2>2, <2>3, <2>4, <2>5, <2>6, <2>7, <2>8, <2>9, <2>10, <2>11
    DEF Worker, Execute
<1>4. ASSUME NEW d \in Deliveries, OnFailed(d)
      PROVE  RowKnown'
  BY <1>4 DEF OnFailed, DlqAdd, DlqLost
<1>5. QED
  BY <1>1, <1>2, <1>3, <1>4 DEF Next

\* Only RunHandler takes a job past the handler.
LEMMA StepPastHandler ==
  ASSUME Core, PastHandler, [Next]_vars
  PROVE  PastHandler'
<1> USE ConstantsAssumption
    DEF Core, TypeOK, NoJobBeforeEnqueue, GoTo, JobTo, jobVars, dlqVars, ActiveJob,
        PastHandler
<1>1. CASE UNCHANGED vars
  BY <1>1 DEF vars
<1>2. ASSUME NEW d \in Deliveries, ProcessEvent(d)
      PROVE  PastHandler'
  <2>1. CASE Find(d)                 BY <2>1 DEF Find
  <2>2. CASE Insert(d)               BY <2>2 DEF Insert
  <2>3. CASE UpdateForRetry(d)       BY <2>3 DEF UpdateForRetry
  <2>4. CASE Enqueue(d)              BY <2>4 DEF Enqueue
  <2>5. CASE Respond(d)              BY <2>5 DEF Respond
  <2>6. CASE FailDelivery(d)         BY <2>6 DEF FailDelivery
  <2>7. QED
    BY <1>2, <2>1, <2>2, <2>3, <2>4, <2>5, <2>6 DEF ProcessEvent
<1>3. ASSUME NEW d \in Deliveries, Worker(d)
      PROVE  PastHandler'
  <2>1. CASE TakeJob(d)              BY <2>1 DEF TakeJob
  <2>2. CASE RunHandler(d)           BY <2>2 DEF RunHandler
  <2>3. CASE HandlerThrows(d)        BY <2>3 DEF HandlerThrows
  <2>4. CASE MarkProcessed(d)        BY <2>4 DEF MarkProcessed
  <2>5. CASE MarkProcessedThrows(d)  BY <2>5 DEF MarkProcessedThrows
  <2>6. CASE MarkFailed(d)           BY <2>6 DEF MarkFailed
  <2>7. CASE MarkFailedThrows(d)     BY <2>7 DEF MarkFailedThrows
  <2>8. CASE CompleteJob(d)          BY <2>8 DEF CompleteJob
  <2>9. CASE FailAttempt(d)          BY <2>9 DEF FailAttempt
  <2>10. CASE StallJob(d)             BY <2>10 DEF StallJob
  <2>11. CASE StallOut(d)             BY <2>11 DEF StallOut
  <2>12. QED
    BY <1>3, <2>1, <2>2, <2>3, <2>4, <2>5, <2>6, <2>7, <2>8, <2>9, <2>10, <2>11
    DEF Worker, Execute
<1>4. ASSUME NEW d \in Deliveries, OnFailed(d)
      PROVE  PastHandler'
  BY <1>4 DEF OnFailed, DlqAdd, DlqLost
<1>5. QED
  BY <1>1, <1>2, <1>3, <1>4 DEF Next

\* A step only ever adds to the set of deliveries whose handler ran.
LEMMA HandledGrows ==
  ASSUME [Next]_vars
  PROVE  handled \subseteq handled' /\ \A e \in Events : Handled(e) => Handled(e)'
<1>1. handled \subseteq handled'
  <2> USE DEF jobVars, dlqVars
  <2>1. CASE UNCHANGED vars
    BY <2>1 DEF vars
  <2>2. ASSUME NEW d \in Deliveries, ProcessEvent(d) PROVE handled' = handled
    BY <2>2 DEF ProcessEvent, Find, Insert, UpdateForRetry, Enqueue, Respond, FailDelivery
  <2>3. ASSUME NEW d \in Deliveries, Worker(d) PROVE handled \subseteq handled'
    BY <2>3 DEF Worker, Execute, TakeJob, RunHandler, HandlerThrows, MarkProcessed,
       MarkProcessedThrows, MarkFailed, MarkFailedThrows, CompleteJob, FailAttempt,
       StallJob, StallOut
  <2>4. ASSUME NEW d \in Deliveries, OnFailed(d) PROVE handled' = handled
    BY <2>4 DEF OnFailed, DlqAdd, DlqLost
  <2>5. QED
    BY <2>1, <2>2, <2>3, <2>4 DEF Next
<1>2. QED
  BY <1>1 DEF Handled, DeliveriesOf

\* Only MarkProcessed writes processed, for a job past its handler.
LEMMA StepProcessedWasHandled ==
  ASSUME Core, PastHandler, ProcessedWasHandled, [Next]_vars
  PROVE  ProcessedWasHandled'
<1> USE ConstantsAssumption, HandledGrows
    DEF Core, TypeOK, GoTo, JobTo, jobVars, dlqVars, ProcessedWasHandled
<1>1. CASE UNCHANGED vars
  BY <1>1 DEF vars
<1>2. ASSUME NEW d \in Deliveries, ProcessEvent(d)
      PROVE  ProcessedWasHandled'
  <2>1. CASE Find(d)                 BY <2>1 DEF Find
  <2>2. CASE Insert(d)               BY <2>2 DEF Insert
  <2>3. CASE UpdateForRetry(d)       BY <2>3 DEF UpdateForRetry
  <2>4. CASE Enqueue(d)              BY <2>4 DEF Enqueue
  <2>5. CASE Respond(d)              BY <2>5 DEF Respond
  <2>6. CASE FailDelivery(d)         BY <2>6 DEF FailDelivery
  <2>7. QED
    BY <1>2, <2>1, <2>2, <2>3, <2>4, <2>5, <2>6 DEF ProcessEvent
<1>3. ASSUME NEW d \in Deliveries, Worker(d)
      PROVE  ProcessedWasHandled'
  <2>1. CASE TakeJob(d)              BY <2>1 DEF TakeJob
  <2>2. CASE RunHandler(d)           BY <2>2 DEF RunHandler
  <2>3. CASE HandlerThrows(d)        BY <2>3 DEF HandlerThrows
  <2>4. CASE MarkProcessed(d)        BY <2>4 DEF MarkProcessed, PastHandler, Handled, DeliveriesOf
  <2>5. CASE MarkProcessedThrows(d)  BY <2>5 DEF MarkProcessedThrows
  <2>6. CASE MarkFailed(d)           BY <2>6 DEF MarkFailed
  <2>7. CASE MarkFailedThrows(d)     BY <2>7 DEF MarkFailedThrows
  <2>8. CASE CompleteJob(d)          BY <2>8 DEF CompleteJob
  <2>9. CASE FailAttempt(d)          BY <2>9 DEF FailAttempt
  <2>10. CASE StallJob(d)             BY <2>10 DEF StallJob
  <2>11. CASE StallOut(d)             BY <2>11 DEF StallOut
  <2>12. QED
    BY <1>3, <2>1, <2>2, <2>3, <2>4, <2>5, <2>6, <2>7, <2>8, <2>9, <2>10, <2>11
    DEF Worker, Execute
<1>4. ASSUME NEW d \in Deliveries, OnFailed(d)
      PROVE  ProcessedWasHandled'
  BY <1>4 DEF OnFailed, DlqAdd, DlqLost
<1>5. QED
  BY <1>1, <1>2, <1>3, <1>4 DEF Next

\* The skip in Find answers 200 for a processed, hence handled, event.
LEMMA StepAccounted ==
  ASSUME Core, ProcessedWasHandled, Accounted, [Next]_vars
  PROVE  Accounted'
<1> USE ConstantsAssumption, HandledGrows
    DEF Core, TypeOK, GoTo, JobTo, jobVars, dlqVars, ActiveJob, Accounted
<1>1. CASE UNCHANGED vars
  BY <1>1 DEF vars
<1>2. ASSUME NEW d \in Deliveries, ProcessEvent(d)
      PROVE  Accounted'
  <2>1. CASE Find(d)                 BY <2>1 DEF Find, ProcessedWasHandled
  <2>2. CASE Insert(d)               BY <2>2 DEF Insert
  <2>3. CASE UpdateForRetry(d)       BY <2>3 DEF UpdateForRetry
  <2>4. CASE Enqueue(d)              BY <2>4 DEF Enqueue
  <2>5. CASE Respond(d)              BY <2>5 DEF Respond
  <2>6. CASE FailDelivery(d)         BY <2>6 DEF FailDelivery
  <2>7. QED
    BY <1>2, <2>1, <2>2, <2>3, <2>4, <2>5, <2>6 DEF ProcessEvent
<1>3. ASSUME NEW d \in Deliveries, Worker(d)
      PROVE  Accounted'
  <2>1. CASE TakeJob(d)              BY <2>1 DEF TakeJob
  <2>2. CASE RunHandler(d)           BY <2>2 DEF RunHandler
  <2>3. CASE HandlerThrows(d)        BY <2>3 DEF HandlerThrows
  <2>4. CASE MarkProcessed(d)        BY <2>4 DEF MarkProcessed
  <2>5. CASE MarkProcessedThrows(d)  BY <2>5 DEF MarkProcessedThrows
  <2>6. CASE MarkFailed(d)           BY <2>6 DEF MarkFailed
  <2>7. CASE MarkFailedThrows(d)     BY <2>7 DEF MarkFailedThrows
  <2>8. CASE CompleteJob(d)          BY <2>8 DEF CompleteJob
  <2>9. CASE FailAttempt(d)          BY <2>9 DEF FailAttempt
  <2>10. CASE StallJob(d)             BY <2>10 DEF StallJob
  <2>11. CASE StallOut(d)             BY <2>11 DEF StallOut
  <2>12. QED
    BY <1>3, <2>1, <2>2, <2>3, <2>4, <2>5, <2>6, <2>7, <2>8, <2>9, <2>10, <2>11
    DEF Worker, Execute
<1>4. ASSUME NEW d \in Deliveries, OnFailed(d)
      PROVE  Accounted'
  BY <1>4 DEF OnFailed, DlqAdd, DlqLost
<1>5. QED
  BY <1>1, <1>2, <1>3, <1>4 DEF Next

\* Whoever answers for an event stops only by marking the event processed.
LEMMA AnswersPersist ==
  ASSUME Core, NEW f \in Deliveries, Answers(f), [Next]_vars
  PROVE  Answers(f)' \/ row'[EventOf[f]] = "processed"
<1> USE ConstantsAssumption
    DEF Core, TypeOK, GoTo, JobTo, jobVars, dlqVars, ActiveJob, NoJobBeforeEnqueue, Answers
<1>1. CASE UNCHANGED vars
  BY <1>1 DEF vars
<1>2. ASSUME NEW d \in Deliveries, ProcessEvent(d)
      PROVE  Answers(f)' \/ row'[EventOf[f]] = "processed"
  <2>1. CASE Find(d)                 BY <2>1 DEF Find
  <2>2. CASE Insert(d)               BY <2>2 DEF Insert
  <2>3. CASE UpdateForRetry(d)       BY <2>3 DEF UpdateForRetry
  <2>4. CASE Enqueue(d)              BY <2>4 DEF Enqueue
  <2>5. CASE Respond(d)              BY <2>5 DEF Respond
  <2>6. CASE FailDelivery(d)         BY <2>6 DEF FailDelivery
  <2>7. QED
    BY <1>2, <2>1, <2>2, <2>3, <2>4, <2>5, <2>6 DEF ProcessEvent
<1>3. ASSUME NEW d \in Deliveries, Worker(d)
      PROVE  Answers(f)' \/ row'[EventOf[f]] = "processed"
  <2>1. CASE TakeJob(d)              BY <2>1 DEF TakeJob
  <2>2. CASE RunHandler(d)           BY <2>2 DEF RunHandler
  <2>3. CASE HandlerThrows(d)        BY <2>3 DEF HandlerThrows
  <2>4. CASE MarkProcessed(d)        BY <2>4 DEF MarkProcessed
  <2>5. CASE MarkProcessedThrows(d)  BY <2>5 DEF MarkProcessedThrows
  <2>6. CASE MarkFailed(d)           BY <2>6 DEF MarkFailed
  <2>7. CASE MarkFailedThrows(d)     BY <2>7 DEF MarkFailedThrows
  <2>8. CASE CompleteJob(d)          BY <2>8 DEF CompleteJob
  <2>9. CASE FailAttempt(d)          BY <2>9 DEF FailAttempt
  <2>10. CASE StallJob(d)             BY <2>10 DEF StallJob
  <2>11. CASE StallOut(d)             BY <2>11 DEF StallOut
  <2>12. QED
    BY <1>3, <2>1, <2>2, <2>3, <2>4, <2>5, <2>6, <2>7, <2>8, <2>9, <2>10, <2>11
    DEF Worker, Execute
<1>4. ASSUME NEW d \in Deliveries, OnFailed(d)
      PROVE  Answers(f)' \/ row'[EventOf[f]] = "processed"
  BY <1>4 DEF OnFailed, DlqAdd, DlqLost
<1>5. QED
  BY <1>1, <1>2, <1>3, <1>4 DEF Next

\* A step that makes a row pending or failed leaves its own delivery to answer.
LEMMA NewWorkIsAnswered ==
  ASSUME Core, NEW e \in Events, row'[e] \in {"pending", "failed"}, [Next]_vars
  PROVE  row[e] \in {"pending", "failed"} \/ \E f \in DeliveriesOf(e) : Answers(f)'
<1> USE ConstantsAssumption
    DEF Core, TypeOK, GoTo, JobTo, jobVars, dlqVars, DeliveriesOf, Answers
<1>1. CASE UNCHANGED vars
  BY <1>1 DEF vars
<1>2. ASSUME NEW d \in Deliveries, ProcessEvent(d)
      PROVE  row[e] \in {"pending", "failed"} \/ \E f \in DeliveriesOf(e) : Answers(f)'
  <2>1. CASE Find(d)                 BY <2>1 DEF Find
  <2>2. CASE Insert(d)               BY <2>2 DEF Insert
  <2>3. CASE UpdateForRetry(d)       BY <2>3 DEF UpdateForRetry
  <2>4. CASE Enqueue(d)              BY <2>4 DEF Enqueue
  <2>5. CASE Respond(d)              BY <2>5 DEF Respond
  <2>6. CASE FailDelivery(d)         BY <2>6 DEF FailDelivery
  <2>7. QED
    BY <1>2, <2>1, <2>2, <2>3, <2>4, <2>5, <2>6 DEF ProcessEvent
<1>3. ASSUME NEW d \in Deliveries, Worker(d)
      PROVE  row[e] \in {"pending", "failed"} \/ \E f \in DeliveriesOf(e) : Answers(f)'
  <2>1. CASE TakeJob(d)              BY <2>1 DEF TakeJob
  <2>2. CASE RunHandler(d)           BY <2>2 DEF RunHandler
  <2>3. CASE HandlerThrows(d)        BY <2>3 DEF HandlerThrows
  <2>4. CASE MarkProcessed(d)        BY <2>4 DEF MarkProcessed
  <2>5. CASE MarkProcessedThrows(d)  BY <2>5 DEF MarkProcessedThrows
  <2>6. CASE MarkFailed(d)           BY <2>6 DEF MarkFailed
  <2>7. CASE MarkFailedThrows(d)     BY <2>7 DEF MarkFailedThrows
  <2>8. CASE CompleteJob(d)          BY <2>8 DEF CompleteJob
  <2>9. CASE FailAttempt(d)          BY <2>9 DEF FailAttempt
  <2>10. CASE StallJob(d)             BY <2>10 DEF StallJob
  <2>11. CASE StallOut(d)             BY <2>11 DEF StallOut
  <2>12. QED
    BY <1>3, <2>1, <2>2, <2>3, <2>4, <2>5, <2>6, <2>7, <2>8, <2>9, <2>10, <2>11
    DEF Worker, Execute
<1>4. ASSUME NEW d \in Deliveries, OnFailed(d)
      PROVE  row[e] \in {"pending", "failed"} \/ \E f \in DeliveriesOf(e) : Answers(f)'
  BY <1>4 DEF OnFailed, DlqAdd, DlqLost
<1>5. QED
  BY <1>1, <1>2, <1>3, <1>4 DEF Next

\* Somebody keeps answering for every row that is pending or failed.
LEMMA StepNeverForgotten ==
  ASSUME Core, NeverForgotten, [Next]_vars
  PROVE  NeverForgotten'
<1> SUFFICES ASSUME NEW e \in Events, row'[e] \in {"pending", "failed"}
             PROVE  \E f \in DeliveriesOf(e) : Answers(f)'
  BY DEF NeverForgotten, DeliveriesOf
<1>1. CASE row[e] \in {"pending", "failed"}
  <2>1. PICK f \in DeliveriesOf(e) : Answers(f)
    BY <1>1 DEF NeverForgotten
  <2>2. f \in Deliveries /\ EventOf[f] = e
    BY DEF DeliveriesOf
  <2>3. Answers(f)'
    BY <2>1, <2>2, AnswersPersist
  <2>4. QED
    BY <2>3
<1>2. CASE row[e] \notin {"pending", "failed"}
  BY <1>2, NewWorkIsAnswered
<1>3. QED
  BY <1>1, <1>2

\* What a single step may do to a job that dies of its last attempt.
ExhaustionReported ==
  \A d \in Deliveries :
    (job[d] # "dead" /\ job'[d] = "dead" /\ attempts'[d] = MaxAttempts)
      => dlqDue'[d] > 0

\* A job dies in FailAttempt or StallOut, and both call onFailed with the count
\* that has just reached the limit.
LEMMA StepExhausted ==
  ASSUME Core, [Next]_vars
  PROVE  ExhaustionReported
<1> USE ConstantsAssumption
    DEF Core, TypeOK, GoTo, JobTo, jobVars, dlqVars, ActiveJob, ExhaustionReported
<1>1. CASE UNCHANGED vars
  BY <1>1 DEF vars
<1>2. ASSUME NEW d \in Deliveries, ProcessEvent(d)
      PROVE  ExhaustionReported
  BY <1>2 DEF ProcessEvent, Find, Insert, UpdateForRetry, Enqueue, Respond, FailDelivery
<1>3. ASSUME NEW d \in Deliveries, Worker(d)
      PROVE  ExhaustionReported
  <2>1. CASE Execute(d)
    BY <2>1 DEF Execute, RunHandler, HandlerThrows, MarkProcessed, MarkProcessedThrows,
       MarkFailed, MarkFailedThrows
  <2>2. CASE TakeJob(d)      BY <2>2 DEF TakeJob
  <2>3. CASE CompleteJob(d)  BY <2>3 DEF CompleteJob
  <2>4. CASE FailAttempt(d)  BY <2>4 DEF FailAttempt, ScheduleDlq, DlqThreshold
  <2>5. CASE StallJob(d)     BY <2>5 DEF StallJob
  <2>6. CASE StallOut(d)     BY <2>6 DEF StallOut, ScheduleDlq, DlqThreshold
  <2>7. QED
    BY <1>3, <2>1, <2>2, <2>3, <2>4, <2>5, <2>6 DEF Worker
<1>4. ASSUME NEW d \in Deliveries, OnFailed(d)
      PROVE  ExhaustionReported
  BY <1>4 DEF OnFailed, DlqAdd, DlqLost
<1>5. QED
  BY <1>1, <1>2, <1>3, <1>4 DEF Next

-------------------------------------------------------------------------------
(* The pipeline implements WebhookInbox: the safety half.                      *)

AckedEvents == {e \in Events : \E d \in DeliveriesOf(e) : pc[d] = "acked"}

\* A step of delivery d touches the job and the request of d and the row of its
\* event, nothing else.
LEMMA OnlyOwn ==
  ASSUME Core, NEW d \in Deliveries, ProcessEvent(d) \/ Worker(d) \/ OnFailed(d)
  PROVE  /\ \A f \in Deliveries \ {d} :
              job'[f] = job[f] /\ pc'[f] = pc[f] /\ (f \in handled' <=> f \in handled)
         /\ \A g \in Events \ {EventOf[d]} : row'[g] = row[g]
<1> USE DEF Core, TypeOK, GoTo, JobTo, jobVars, dlqVars
<1>1. CASE ProcessEvent(d)
  BY <1>1 DEF ProcessEvent, Find, Insert, UpdateForRetry, Enqueue, Respond, FailDelivery
<1>2. CASE Worker(d)
  BY <1>2 DEF Worker, Execute, TakeJob, RunHandler, HandlerThrows, MarkProcessed,
     MarkProcessedThrows, MarkFailed, MarkFailedThrows, CompleteJob, FailAttempt,
     StallJob, StallOut
<1>3. CASE OnFailed(d)
  BY <1>3 DEF OnFailed, DlqAdd, DlqLost
<1>4. QED
  BY <1>1, <1>2, <1>3

\* The other events keep their abstract status.
LEMMA OtherStatus ==
  ASSUME Core, NEW d \in Deliveries, ProcessEvent(d) \/ Worker(d) \/ OnFailed(d),
         NEW e \in Events, e # EventOf[d]
  PROVE  InboxStatus(e)' = InboxStatus(e)
<1>1. \A f \in DeliveriesOf(e) : job'[f] = job[f] /\ (f \in handled' <=> f \in handled)
  BY OnlyOwn DEF DeliveriesOf
<1>2. row'[e] = row[e]
  BY OnlyOwn
<1>3. DeliveriesOf(e)' = DeliveriesOf(e)
  BY DEF DeliveriesOf
<1>4. Handled(e)' <=> Handled(e)
  BY <1>1, <1>3 DEF Handled
<1>5. HasJobIn(e, LiveJob)' <=> HasJobIn(e, LiveJob)
  BY <1>1, <1>3 DEF HasJobIn, LiveJob, ActiveJob
<1>6. HasJobIn(e, {"dead"})' <=> HasJobIn(e, {"dead"})
  BY <1>1, <1>3 DEF HasJobIn
<1>7. QED
  BY <1>2, <1>4, <1>5, <1>6 DEF InboxStatus

\* What may become of the abstract status of the event that a step is about.
StatusMove(e) ==
  \/ InboxStatus(e)' = InboxStatus(e)
  \/ InboxStatus(e) = "new" /\ InboxStatus(e)' = "recorded"
  \/ InboxStatus(e) \in {"recorded", "dead"} /\ InboxStatus(e)' = "queued"
  \/ InboxStatus(e) = "queued" /\ InboxStatus(e)' \in {"handled", "dead"}

\* A request records the event and queues work for it, in that order.
LEMMA RequestMoves ==
  ASSUME Core, RowKnown, NEW d \in Deliveries, ProcessEvent(d)
  PROVE  StatusMove(EventOf[d])
<1> DEFINE e == EventOf[d]
<1>1. e \in Events /\ d \in DeliveriesOf(e) /\ DeliveriesOf(e)' = DeliveriesOf(e)
  BY ConstantsAssumption DEF DeliveriesOf
<1>2. handled' = handled /\ (Handled(e)' <=> Handled(e))
  BY <1>1 DEF ProcessEvent, Find, Insert, UpdateForRetry, Enqueue, Respond, FailDelivery,
     Handled, DeliveriesOf
<1>3. CASE Enqueue(d)
  <2>1. pc[d] = "enqueue" /\ row'[e] = row[e] /\ row[e] # "none"
    BY <1>3, RowKnown DEF Enqueue, RowKnown
  <2>2. job'[d] = "waiting"
    BY <1>3 DEF Enqueue, Core, TypeOK
  <2>3. HasJobIn(e, LiveJob)'
    BY <1>1, <2>2 DEF HasJobIn, LiveJob
  <2>4. QED
    BY <1>2, <2>1, <2>3 DEF StatusMove, InboxStatus
<1>4. CASE ~ Enqueue(d)
  <2>1. job' = job /\ (row' = row \/ row'[e] = "pending")
    BY <1>1, <1>4 DEF ProcessEvent, Find, Insert, UpdateForRetry, Respond, FailDelivery,
       jobVars, Core, TypeOK
  <2>2. HasJobIn(e, LiveJob)' <=> HasJobIn(e, LiveJob)
    BY <1>1, <2>1 DEF HasJobIn, LiveJob, ActiveJob
  <2>3. HasJobIn(e, {"dead"})' <=> HasJobIn(e, {"dead"})
    BY <1>1, <2>1 DEF HasJobIn
  <2>4. QED
    BY <1>2, <2>1, <2>2, <2>3 DEF StatusMove, InboxStatus
<1>5. QED
  BY <1>3, <1>4

\* A worker holds live work; it handles it, gives it up or leaves it live.
LEMMA WorkerMoves ==
  ASSUME Core, PastHandler, NEW d \in Deliveries, Worker(d)
  PROVE  StatusMove(EventOf[d])
<1> DEFINE e == EventOf[d]
<1>1. e \in Events /\ d \in DeliveriesOf(e) /\ DeliveriesOf(e)' = DeliveriesOf(e)
  BY ConstantsAssumption DEF DeliveriesOf
<1>2. job[d] \in LiveJob
  BY DEF Worker, Execute, TakeJob, RunHandler, HandlerThrows, MarkProcessed,
     MarkProcessedThrows, MarkFailed, MarkFailedThrows, CompleteJob, FailAttempt, StallJob,
     StallOut, LiveJob, ActiveJob
<1>3. HasJobIn(e, LiveJob)
  BY <1>1, <1>2 DEF HasJobIn
<1>4. InboxStatus(e) = IF Handled(e) THEN "handled" ELSE "queued"
  BY <1>3 DEF InboxStatus
<1>5. Handled(e) => Handled(e)'
  BY <1>1, HandledGrows DEF Next
<1>6. CASE Handled(e)
  BY <1>4, <1>5, <1>6 DEF StatusMove, InboxStatus
<1>7. CASE ~ Handled(e)
  <2>1. CASE Handled(e)'
    BY <1>4, <1>7, <2>1 DEF StatusMove, InboxStatus
  <2>2. CASE ~ Handled(e)'
    <3>1. job'[d] \in LiveJob \cup {"dead"}
      <4>1. ~ CompleteJob(d)
        BY <1>1, <1>7 DEF CompleteJob, PastHandler, Handled
      <4>2. QED
        BY <4>1 DEF Worker, Execute, TakeJob, RunHandler, HandlerThrows, MarkProcessed,
           MarkProcessedThrows, MarkFailed, MarkFailedThrows, FailAttempt, StallJob,
           StallOut, LiveJob, ActiveJob, JobTo, Core, TypeOK
    <3>2. HasJobIn(e, LiveJob)' \/ HasJobIn(e, {"dead"})'
      BY <1>1, <3>1 DEF HasJobIn, LiveJob, ActiveJob
    <3>3. QED
      BY <1>4, <1>7, <2>2, <3>2 DEF StatusMove, InboxStatus
  <2>3. QED
    BY <2>1, <2>2
<1>8. QED
  BY <1>6, <1>7

\* A step about event e that acknowledges nothing is a step of the inbox.
LEMMA MoveIsStep ==
  ASSUME NEW e \in Events, StatusMove(e), AckedEvents' = AckedEvents,
         \A g \in Events \ {e} : InboxStatus(g)' = InboxStatus(g)
  PROVE  [Inbox!Next]_(Inbox!vars)
<1> DEFINE st == [g \in Events |-> InboxStatus(g)]
<1>1. st' = [st EXCEPT ![e] = InboxStatus(e)']
  OBVIOUS
<1>2. st[e] = InboxStatus(e)
  OBVIOUS
<1>3. CASE InboxStatus(e)' = InboxStatus(e)
  <2>1. st' = st
    BY <1>1, <1>3
  <2>2. QED
    BY <2>1 DEF Inbox!vars, AckedEvents
<1>4. CASE InboxStatus(e) = "new" /\ InboxStatus(e)' = "recorded"
  BY <1>1, <1>2, <1>4 DEF Inbox!Next, Inbox!Record, Inbox!Move, AckedEvents
<1>5. CASE InboxStatus(e) \in {"recorded", "dead"} /\ InboxStatus(e)' = "queued"
  BY <1>1, <1>2, <1>5 DEF Inbox!Next, Inbox!Enqueue, Inbox!Move, AckedEvents
<1>6. CASE InboxStatus(e) = "queued" /\ InboxStatus(e)' \in {"handled", "dead"}
  BY <1>1, <1>2, <1>6
  DEF Inbox!Next, Inbox!Settle, Inbox!Handle, Inbox!GiveUp, Inbox!Move, AckedEvents
<1>7. QED
  BY <1>3, <1>4, <1>5, <1>6 DEF StatusMove

\* Answering 200 acknowledges an event that has work or needs none.
LEMMA RespondIsStep ==
  ASSUME Core, PastHandler, Accounted, NEW d \in Deliveries, Respond(d)
  PROVE  [Inbox!Next]_(Inbox!vars)
<1> DEFINE e == EventOf[d]
<1>1. e \in Events /\ d \in DeliveriesOf(e)
  BY ConstantsAssumption DEF DeliveriesOf
<1>2. InboxStatus(e) \in {"queued", "handled", "dead"}
  <2>1. CASE Handled(e)
    BY <2>1 DEF InboxStatus
  <2>2. CASE ~ Handled(e)
    <3>1. job[d] # "none"
      BY <2>2 DEF Accounted, Respond
    <3>2. job[d] # "completed"
      BY <1>1, <2>2 DEF PastHandler, Handled
    <3>3. job[d] \in LiveJob \cup {"dead"}
      BY <3>1, <3>2 DEF Core, TypeOK, JobState
    <3>4. HasJobIn(e, LiveJob) \/ HasJobIn(e, {"dead"})
      BY <1>1, <3>3 DEF HasJobIn
    <3>5. QED
      BY <3>4 DEF InboxStatus
  <2>3. QED
    BY <2>1, <2>2
<1>3. \A g \in Events : InboxStatus(g)' = InboxStatus(g)
  BY DEF Respond, jobVars, InboxStatus, Handled, HasJobIn, DeliveriesOf
<1>4. pc'[d] = "acked" /\ \A f \in Deliveries \ {d} : pc'[f] = pc[f]
  BY DEF Respond, GoTo, Core, TypeOK
<1>5. AckedEvents' = AckedEvents \cup {e}
  BY <1>1, <1>4 DEF AckedEvents, DeliveriesOf, Respond
<1>6. Inbox!Acknowledge(e)
  BY <1>1, <1>2, <1>3, <1>5 DEF Inbox!Acknowledge, AckedEvents
<1>7. QED
  BY <1>1, <1>6 DEF Inbox!Next

\* Every other step leaves the acknowledged events as they are.
LEMMA AckedKept ==
  ASSUME Core, NEW d \in Deliveries, ProcessEvent(d) \/ Worker(d) \/ OnFailed(d),
         ~ Respond(d)
  PROVE  AckedEvents' = AckedEvents
<1>1. \A f \in Deliveries : pc'[f] = "acked" <=> pc[f] = "acked"
  <2> USE DEF Core, TypeOK, GoTo
  <2>1. CASE ProcessEvent(d)
    <3>1. CASE Find(d)            BY <3>1 DEF Find
    <3>2. CASE Insert(d)          BY <3>2 DEF Insert
    <3>3. CASE UpdateForRetry(d)  BY <3>3 DEF UpdateForRetry
    <3>4. CASE Enqueue(d)         BY <3>4 DEF Enqueue
    <3>5. CASE FailDelivery(d)    BY <3>5 DEF FailDelivery
    <3>6. QED
      BY <2>1, <3>1, <3>2, <3>3, <3>4, <3>5 DEF ProcessEvent
  <2>2. CASE Worker(d)
    BY <2>2 DEF Worker, Execute, TakeJob, RunHandler, HandlerThrows, MarkProcessed,
       MarkProcessedThrows, MarkFailed, MarkFailedThrows, CompleteJob, FailAttempt,
       StallJob, StallOut
  <2>3. CASE OnFailed(d)
    BY <2>3 DEF OnFailed, DlqAdd, DlqLost
  <2>4. QED
    BY <2>1, <2>2, <2>3
<1>2. QED
  BY <1>1 DEF AckedEvents, DeliveriesOf

\* Every step of the pipeline is a step of the inbox or leaves it unchanged.
LEMMA StepImplementsInbox ==
  ASSUME IInv, [Next]_vars
  PROVE  [Inbox!Next]_(Inbox!vars)
<1> USE DEF IInv
<1>1. CASE UNCHANGED vars
  BY <1>1 DEF vars, Inbox!vars, InboxStatus, Handled, HasJobIn, DeliveriesOf
<1>2. ASSUME NEW d \in Deliveries, ProcessEvent(d) \/ Worker(d) \/ OnFailed(d)
      PROVE  [Inbox!Next]_(Inbox!vars)
  <2>1. CASE Respond(d)
    BY <2>1, RespondIsStep
  <2>2. CASE ~ Respond(d)
    <3>1. EventOf[d] \in Events
      BY ConstantsAssumption
    <3>2. StatusMove(EventOf[d])
      <4>1. CASE ProcessEvent(d)
        BY <4>1, RequestMoves
      <4>2. CASE Worker(d)
        BY <4>2, WorkerMoves
      <4>3. CASE OnFailed(d)
        BY <4>3 DEF OnFailed, DlqAdd, DlqLost, jobVars, StatusMove, InboxStatus, Handled,
           HasJobIn, DeliveriesOf
      <4>4. QED
        BY <1>2, <4>1, <4>2, <4>3
    <3>3. \A g \in Events \ {EventOf[d]} : InboxStatus(g)' = InboxStatus(g)
      BY <1>2, OtherStatus
    <3>4. AckedEvents' = AckedEvents
      BY <1>2, <2>2, AckedKept
    <3>5. QED
      BY <3>1, <3>2, <3>3, <3>4, MoveIsStep
  <2>3. QED
    BY <2>1, <2>2
<1>3. QED
  BY <1>1, <1>2 DEF Next

-------------------------------------------------------------------------------
(* The theorems about the pipeline.                                            *)

\* The inductive invariant holds in every reachable state.
THEOREM Invariance == Spec => []IInv
<1>1. Init => IInv
  BY ConstantsAssumption
  DEF Init, IInv, Core, TypeOK, RowStatus, RequestStep, JobState, LiveJob, ActiveJob,
      NoJobBeforeEnqueue, AttemptsLeft, RowKnown, PastHandler, ProcessedWasHandled,
      Accounted, NeverForgotten
<1>2. IInv /\ [Next]_vars => IInv'
  BY StepCore, StepRowKnown, StepPastHandler, StepProcessedWasHandled, StepAccounted,
     StepNeverForgotten
  DEF IInv
<1>3. QED
  BY <1>1, <1>2, PTL DEF Spec

\* Every reachable state is well typed.
THEOREM TypeCorrect == Spec => []TypeOK
<1>1. IInv => TypeOK
  BY DEF IInv, Core
<1>2. QED
  BY <1>1, Invariance, PTL

\* getPayload never selects a missing row, whatever requests and workers do.
THEOREM PayloadAlwaysFound == Spec => []PayloadIsFound
<1>1. IInv => PayloadIsFound
  BY DEF IInv, Core, PayloadIsFound, RowKnown
<1>2. QED
  BY <1>1, Invariance, PTL

\* A processed row always stands for an event that was handled.
THEOREM SkipIsSafe == Spec => []ProcessedWasHandled
<1>1. IInv => ProcessedWasHandled
  BY DEF IInv, Core, ProcessedWasHandled
<1>2. QED
  BY <1>1, Invariance, PTL

\* A delivery answered 200 left a job behind or its event was handled.
THEOREM AckedNeverLost == Spec => []AckedIsAccounted
<1>1. IInv => AckedIsAccounted
  BY DEF IInv, Core, AckedIsAccounted, Accounted
<1>2. QED
  BY <1>1, Invariance, PTL

\* Somebody answers for every row that is pending or failed.
THEOREM NothingForgotten == Spec => []NeverForgotten
<1>1. IInv => NeverForgotten
  BY DEF IInv, Core, NeverForgotten
<1>2. QED
  BY <1>1, Invariance, PTL

\* A job that uses up its attempts always has its dead-letter entry under way.
THEOREM ExhaustedReported == Spec => ExhaustedGoesToDlq
<1>1. IInv /\ [Next]_vars => [ExhaustionReported]_vars
  BY StepExhausted DEF IInv
<1>2. ExhaustedGoesToDlq <=> [][ExhaustionReported]_vars
  BY PTL DEF ExhaustedGoesToDlq, ExhaustionReported
<1>3. QED
  BY <1>1, <1>2, Invariance, PTL DEF Spec

\* The pipeline implements its abstract specification, fairness aside: events are
\* recorded, queued, handled or given up on in that order, and acknowledged only
\* when there is work for them or nothing is left to do.
THEOREM PipelineImplementsInbox == Spec => Inbox!Init /\ [][Inbox!Next]_(Inbox!vars)
<1>1. Init => Inbox!Init
  <2> SUFFICES ASSUME Init PROVE Inbox!Init
    OBVIOUS
  <2>1. \A e \in Events : InboxStatus(e) = "new"
    BY DEF Init, InboxStatus, Handled, HasJobIn, DeliveriesOf, LiveJob, ActiveJob
  <2>2. QED
    BY <2>1 DEF Init, Inbox!Init, DeliveriesOf
<1>2. IInv /\ [Next]_vars => [Inbox!Next]_(Inbox!vars)
  BY StepImplementsInbox
<1>3. QED
  BY <1>1, <1>2, Invariance, PTL DEF Spec

-------------------------------------------------------------------------------
(* The audit trail: its inductive invariant.                                   *)

\* Every delivery that was handled has left an entry, or a reason why it has none.
HandledIsRecorded ==
  \A d \in handled : trail[EventOf[d]] > 0 \/ Unrecorded(EventOf[d])

IInvT ==
  /\ TypeOKT
  /\ ProcessedWasHandled
  /\ RecordedWasHandled
  /\ HandledIsRecorded

-------------------------------------------------------------------------------
(* It is kept by every step.                                                   *)

\* A step of the audit trail is a step of the pipeline.
LEMMA StepOfPipeline ==
  ASSUME [NextT]_varsT
  PROVE  [Next]_vars
<1>1. ASSUME NEW d \in Deliveries, RunHandlerT(d)
      PROVE  Next
  BY <1>1 DEF RunHandlerT, Next, Worker, Execute
<1>2. ASSUME NEW d \in Deliveries, ElsewhereT(d)
      PROVE  Next
  BY <1>2 DEF ElsewhereT, Next, Worker, Execute
<1>3. CASE UNCHANGED varsT
  BY <1>3 DEF varsT
<1>4. QED
  BY <1>1, <1>2, <1>3 DEF NextT

\* The audit trail refines the pipeline.
THEOREM ImplementsPipeline == SpecT => Spec
<1>1. InitT => Init
  BY DEF InitT
<1>2. [NextT]_varsT => [Next]_vars
  BY StepOfPipeline
<1>3. QED
  BY <1>1, <1>2, PTL DEF SpecT, Spec

\* Only a handler that returns adds to the handled deliveries.
LEMMA HandledElsewhere ==
  ASSUME NEW d \in Deliveries, ElsewhereT(d)
  PROVE  handled' = handled
BY DEF ElsewhereT, ProcessEvent, Find, Insert, UpdateForRetry, Enqueue, Respond,
       FailDelivery,
       TakeJob, HandlerThrows, MarkProcessed, MarkProcessedThrows, MarkFailed,
       MarkFailedThrows, CompleteJob, FailAttempt, StallJob, StallOut, OnFailed, DlqAdd,
       DlqLost, jobVars, dlqVars

\* The entries of one event grow by the handler's, or they do not change.
LEMMA RecordShape ==
  ASSUME TypeOKT, NEW app \in Apps, NEW e \in Events, Record(app, e)
  PROVE  /\ trail' \in [Events -> Nat] /\ lost' \subseteq Events
         /\ \A f \in Events : f # e => trail'[f] = trail[f]
         /\ trail'[e] >= trail[e] /\ trail'[e] <= trail[e] + 1 /\ lost \subseteq lost'
         /\ type[e] \in RecordedIn(app) /\ Dispatched(app, e) => trail'[e] > 0 \/ e \in lost'
<1>1. CASE Dispatched(app, e) /\ type[e] \in RecordedIn(app)
  BY <1>1 DEF Record, Log, TypeOKT
<1>2. CASE ~ (Dispatched(app, e) /\ type[e] \in RecordedIn(app))
  BY <1>2 DEF Record, TypeOKT
<1>3. QED
  BY <1>1, <1>2

\* What an app records it has a handler for.
LEMMA RecordedIsDispatched ==
  ASSUME NEW app \in Apps, NEW e \in Events, type[e] \in RecordedIn(app)
  PROVE  Dispatched(app, e)
BY DEF Dispatched, Apps, RecordedIn, RecordedInApi, RecordedInWebhooks, RegisteredInApi,
       RegisteredInWebhooks, ChargesInApi, ChargesInWebhooks, DisputesInApi,
       DisputesInWebhooks, WarningsInApi, WarningsInWebhooks, AccountsInApi,
       AccountsInWebhooks, PaymentsInWebhooks, SetupsInWebhooks, SubscriptionsInWebhooks,
       MethodsInWebhooks

\* The handler of one delivery returns.
LEMMA StepRecorded ==
  ASSUME IInvT, TypeOK', ProcessedWasHandled', NEW d \in Deliveries, RunHandlerT(d)
  PROVE  IInvT'
<1> DEFINE e == EventOf[d]
<1>1. e \in Events /\ EventOf \in [Deliveries -> Events]
  BY ConstantsAssumption
<1>2. PICK app \in Apps : Record(app, e)
  BY DEF RunHandlerT
<1>3. TypeOKT /\ type' = type /\ handled' = handled \cup {d}
  BY DEF IInvT, RunHandlerT, RunHandler
<1>4. /\ trail' \in [Events -> Nat] /\ lost' \subseteq Events
      /\ \A f \in Events : f # e => trail'[f] = trail[f]
      /\ trail'[e] >= trail[e] /\ lost \subseteq lost'
      /\ type[e] \in RecordedIn(app) => trail'[e] > 0 \/ e \in lost'
  BY <1>1, <1>2, <1>3, RecordShape, RecordedIsDispatched
<1>5. handled \subseteq Deliveries /\ trail \in [Events -> Nat]
  BY <1>3 DEF TypeOKT, TypeOK
<1>6. TypeOKT'
  BY <1>3, <1>4 DEF TypeOKT
<1>7. RecordedWasHandled'
  <2> SUFFICES ASSUME NEW f \in Events, trail'[f] > 0
               PROVE  \E g \in Deliveries : EventOf[g] = f /\ g \in handled'
    BY DEF RecordedWasHandled, Handled, DeliveriesOf
  <2>1. CASE f = e
    BY <2>1, <1>3
  <2>2. CASE f # e
    BY <2>2, <1>3, <1>4 DEF IInvT, RecordedWasHandled, Handled, DeliveriesOf
  <2>3. QED
    BY <2>1, <2>2
<1>8. HandledIsRecorded'
  <2> SUFFICES ASSUME NEW g \in handled'
               PROVE  trail'[EventOf[g]] > 0 \/ Unrecorded(EventOf[g])'
    BY DEF HandledIsRecorded
  <2>1. CASE g = d
    BY <2>1, <1>3, <1>4 DEF Unrecorded
  <2>2. CASE g # d
    <3>1. g \in handled /\ EventOf[g] \in Events
      BY <2>2, <1>1, <1>3, <1>5
    <3>2. trail[EventOf[g]] > 0 \/ Unrecorded(EventOf[g])
      BY <3>1 DEF IInvT, HandledIsRecorded
    <3>3. trail'[EventOf[g]] >= trail[EventOf[g]]
      BY <3>1, <1>4, <1>5
    <3>4. Unrecorded(EventOf[g]) => Unrecorded(EventOf[g])'
      BY <1>3, <1>4 DEF Unrecorded
    <3>5. trail[EventOf[g]] \in Nat /\ trail'[EventOf[g]] \in Nat
      BY <3>1, <1>4, <1>5
    <3>6. QED
      BY <3>2, <3>3, <3>4, <3>5
  <2>3. QED
    BY <2>1, <2>2
<1>9. QED
  BY <1>6, <1>7, <1>8 DEF IInvT

\* Any other step.
LEMMA StepElsewhere ==
  ASSUME IInvT, TypeOK', ProcessedWasHandled', handled' = handled, UNCHANGED trailVars
  PROVE  IInvT'
<1>1. TypeOKT'
  BY DEF IInvT, TypeOKT, trailVars
<1>2. RecordedWasHandled'
  BY DEF IInvT, RecordedWasHandled, Handled, DeliveriesOf, trailVars
<1>3. HandledIsRecorded'
  BY DEF IInvT, HandledIsRecorded, Unrecorded, trailVars
<1>4. QED
  BY <1>1, <1>2, <1>3 DEF IInvT

-------------------------------------------------------------------------------
(* Records and runs: the runs of the handlers grow by one with each record.    *)

\* For each member d of S, the numbers up to f[d].
PairsOf(S, f) == UNION {{d} \X (1..f[d]) : d \in S}

\* The pairs are finitely many, and who they are.
LEMMA PairsAre ==
  ASSUME NEW S, IsFiniteSet(S), NEW f, NEW m \in Nat, \A d \in S : f[d] \in 0..m
  PROVE  /\ IsFiniteSet(PairsOf(S, f)) /\ Cardinality(PairsOf(S, f)) \in Nat
         /\ \A d \in S : \A n \in 1..f[d] : <<d, n>> \in PairsOf(S, f)
         /\ \A p \in PairsOf(S, f) : \E d \in S : \E n \in 1..f[d] : p = <<d, n>>
<1>1. \A d \in S : \A n \in 1..f[d] : <<d, n>> \in PairsOf(S, f)
  BY DEF PairsOf
<1>2. \A p \in PairsOf(S, f) : \E d \in S : \E n \in 1..f[d] : p = <<d, n>>
  BY DEF PairsOf
<1>3. IsFiniteSet(S \X (1..m))
  <2>1. IsFiniteSet(1..m)
    BY FS_Interval
  <2>2. QED
    BY <2>1, FS_Product
<1>4. PairsOf(S, f) \in SUBSET (S \X (1..m))
  BY <1>2
<1>5. IsFiniteSet(PairsOf(S, f))
  BY <1>3, <1>4, FS_Subset
<1>6. QED
  BY <1>1, <1>2, <1>5, FS_CardinalityType

\* When no number shrinks there are not fewer pairs, and one more when one grows.
LEMMA PairsGrow ==
  ASSUME NEW S, IsFiniteSet(S), NEW f, NEW g, NEW m \in Nat,
         \A d \in S : f[d] \in 0..m /\ g[d] \in 0..m /\ f[d] <= g[d]
  PROVE  /\ Cardinality(PairsOf(S, f)) <= Cardinality(PairsOf(S, g))
         /\ \A c \in S : f[c] < g[c]
              => Cardinality(PairsOf(S, f)) + 1 <= Cardinality(PairsOf(S, g))
<1> DEFINE P == PairsOf(S, f)
           Q == PairsOf(S, g)
<1>0. (\A d \in S : f[d] \in 0..m) /\ \A d \in S : g[d] \in 0..m
  OBVIOUS
<1>1. /\ IsFiniteSet(P) /\ Cardinality(P) \in Nat
      /\ \A p \in P : \E d \in S : \E n \in 1..f[d] : p = <<d, n>>
  BY <1>0, PairsAre
<1>2. /\ IsFiniteSet(Q) /\ Cardinality(Q) \in Nat
      /\ \A d \in S : \A n \in 1..g[d] : <<d, n>> \in Q
  BY <1>0, PairsAre
<1> HIDE DEF P, Q
<1>3. P \in SUBSET Q
  BY <1>1, <1>2
<1>4. Cardinality(P) <= Cardinality(Q)
  BY <1>2, <1>3, FS_Subset
<1>5. ASSUME NEW c \in S, f[c] < g[c]
      PROVE  Cardinality(P) + 1 <= Cardinality(Q)
  <2> DEFINE x == <<c, f[c] + 1>>
  <2>1. x \in Q
    BY <1>2, <1>5
  <2>2. x \notin P
    BY <1>1, <1>5
  <2> HIDE DEF x
  <2>3. Cardinality(P \cup {x}) = Cardinality(P) + 1
    BY <1>1, <2>2, FS_AddElement
  <2>4. P \cup {x} \in SUBSET Q
    BY <1>3, <2>1
  <2>5. QED
    BY <1>2, <2>3, <2>4, FS_Subset
<1>6. QED
  BY <1>4, <1>5 DEF P, Q

\* A number of runs is bounded by the limits of the queue.
LEMMA RunsTyped ==
  /\ TypeOK => \A d \in Deliveries : Runs(d) \in 0..MaxAttempts + MaxStalls + 1
  /\ TypeOK' => \A d \in Deliveries : Runs(d)' \in 0..MaxAttempts + MaxStalls + 1
BY ConstantsAssumption DEF TypeOK, Runs

\* A run is never taken back, and the handler's return is a new one.
LEMMA RunsGrow ==
  ASSUME Core, [Next]_vars
  PROVE  \A c \in Deliveries : Runs(c) <= Runs(c)'
<1> USE ConstantsAssumption
    DEF Core, TypeOK, NoJobBeforeEnqueue, JobState, LiveJob, ActiveJob, GoTo, JobTo, Runs,
        jobVars
<1>1. CASE UNCHANGED vars
  BY <1>1 DEF vars
<1>2. ASSUME NEW d \in Deliveries, ProcessEvent(d)
      PROVE  \A c \in Deliveries : Runs(c) <= Runs(c)'
  <2>1. CASE Enqueue(d)
    BY <2>1 DEF Enqueue
  <2>2. CASE ~ Enqueue(d)
    BY <1>2, <2>2 DEF ProcessEvent, Find, Insert, UpdateForRetry, Respond, FailDelivery
  <2>3. QED
    BY <2>1, <2>2
<1>3. ASSUME NEW d \in Deliveries, Worker(d)
      PROVE  \A c \in Deliveries : Runs(c) <= Runs(c)'
  <2>1. CASE TakeJob(d)              BY <2>1 DEF TakeJob
  <2>2. CASE RunHandler(d)           BY <2>2 DEF RunHandler
  <2>3. CASE HandlerThrows(d)        BY <2>3 DEF HandlerThrows
  <2>4. CASE MarkProcessed(d)        BY <2>4 DEF MarkProcessed
  <2>5. CASE MarkProcessedThrows(d)  BY <2>5 DEF MarkProcessedThrows
  <2>6. CASE MarkFailed(d)           BY <2>6 DEF MarkFailed
  <2>7. CASE MarkFailedThrows(d)     BY <2>7 DEF MarkFailedThrows
  <2>8. CASE CompleteJob(d)          BY <2>8 DEF CompleteJob
  <2>9. CASE FailAttempt(d)          BY <2>9 DEF FailAttempt
  <2>10. CASE StallJob(d)            BY <2>10 DEF StallJob
  <2>11. CASE StallOut(d)            BY <2>11 DEF StallOut
  <2>12. QED
    BY <1>3, <2>1, <2>2, <2>3, <2>4, <2>5, <2>6, <2>7, <2>8, <2>9, <2>10, <2>11
       DEF Worker, Execute
<1>4. ASSUME NEW d \in Deliveries, OnFailed(d)
      PROVE  \A c \in Deliveries : Runs(c) <= Runs(c)'
  BY <1>4 DEF OnFailed, DlqAdd, DlqLost
<1>5. QED
  BY <1>1, <1>2, <1>3, <1>4 DEF Next

\* The runs of an event grow with those of its deliveries.
LEMMA RunsOfGrow ==
  ASSUME IsFiniteSet(Deliveries), Core, Core', [Next]_vars, NEW e \in Events
  PROVE  /\ Cardinality(RunsOf(e)) \in Nat /\ Cardinality(RunsOf(e))' \in Nat
         /\ Cardinality(RunsOf(e)) <= Cardinality(RunsOf(e))'
         /\ \A d \in Deliveries : EventOf[d] = e /\ Runs(d) < Runs(d)'
              => Cardinality(RunsOf(e)) + 1 <= Cardinality(RunsOf(e))'
<1> DEFINE S == DeliveriesOf(e)
           f == [d \in Deliveries |-> Runs(d)]
           g == [d \in Deliveries |-> Runs(d)']
           m == MaxAttempts + MaxStalls + 1
<1>1. IsFiniteSet(S) /\ S \subseteq Deliveries /\ m \in Nat
      /\ \A d \in Deliveries : EventOf[d] = e => d \in S
  BY ConstantsAssumption, FS_Subset DEF DeliveriesOf
<1>2. \A d \in S : f[d] \in 0..m /\ g[d] \in 0..m /\ f[d] <= g[d]
  BY <1>1, RunsTyped, RunsGrow DEF Core
<1>3. RunsOf(e) = PairsOf(S, f) /\ RunsOf(e)' = PairsOf(S, g)
  BY <1>1 DEF RunsOf, PairsOf, DeliveriesOf
<1>4. \A d \in Deliveries : f[d] = Runs(d) /\ g[d] = Runs(d)'
  OBVIOUS
<1> HIDE DEF S, f, g, m
<1>5. Cardinality(PairsOf(S, f)) \in Nat /\ Cardinality(PairsOf(S, g)) \in Nat
  BY <1>1, <1>2, PairsAre
<1>6. /\ Cardinality(PairsOf(S, f)) <= Cardinality(PairsOf(S, g))
      /\ \A c \in S : f[c] < g[c]
           => Cardinality(PairsOf(S, f)) + 1 <= Cardinality(PairsOf(S, g))
  BY <1>1, <1>2, PairsGrow
<1>7. QED
  BY <1>1, <1>3, <1>4, <1>5, <1>6

\* Each record comes with a run of its own.
LEMMA StepFew ==
  ASSUME IsFiniteSet(Deliveries), TypeOKT, Core, Core', RecordsAreFew, [NextT]_varsT
  PROVE  RecordsAreFew'
<1>1. [Next]_vars
  BY StepOfPipeline
<1>2. trail \in [Events -> Nat] /\ \A e \in Events : trail[e] <= Cardinality(RunsOf(e))
  BY DEF TypeOKT, RecordsAreFew
<1>3. \A e \in Events :
        /\ Cardinality(RunsOf(e)) \in Nat /\ Cardinality(RunsOf(e))' \in Nat
        /\ Cardinality(RunsOf(e)) <= Cardinality(RunsOf(e))'
  BY <1>1, RunsOfGrow
<1>4. CASE trail' = trail
  BY <1>2, <1>3, <1>4 DEF RecordsAreFew
<1>5. ASSUME NEW d \in Deliveries, RunHandlerT(d)
      PROVE  RecordsAreFew'
  <2> DEFINE o == EventOf[d]
  <2>1. o \in Events
    BY ConstantsAssumption
  <2>2. PICK app \in Apps : Record(app, o)
    BY <1>5 DEF RunHandlerT
  <2>3. /\ \A e \in Events : e # o => trail'[e] = trail[e]
        /\ trail' \in [Events -> Nat] /\ trail'[o] <= trail[o] + 1
    BY <2>1, <2>2, RecordShape
  <2>4. Runs(d) < Runs(d)'
    BY <1>5, ConstantsAssumption
       DEF RunHandlerT, RunHandler, Core, TypeOK, JobTo, Runs
  <2>5. Cardinality(RunsOf(o)) + 1 <= Cardinality(RunsOf(o))'
    BY <1>1, <2>1, <2>4, RunsOfGrow
  <2> HIDE DEF o
  <2>6. trail'[o] <= Cardinality(RunsOf(o))'
    BY <1>2, <1>3, <2>1, <2>3, <2>5
  <2>7. ASSUME NEW e \in Events, e # o
        PROVE  trail'[e] <= Cardinality(RunsOf(e))'
    BY <1>2, <1>3, <2>3, <2>7
  <2>8. QED
    BY <2>6, <2>7 DEF RecordsAreFew
<1>6. QED
  BY <1>4, <1>5 DEF NextT, ElsewhereT, varsT, trailVars

-------------------------------------------------------------------------------
(* The theorems about the trail.                                               *)

\* The inductive invariant holds in every reachable state.
THEOREM InvarianceT == SpecT => []IInvT
<1>1. InitT /\ TypeOK /\ ProcessedWasHandled => IInvT
  BY DEF InitT, Init, IInvT, TypeOKT, RecordedWasHandled, HandledIsRecorded
<1>2. ASSUME IInvT, TypeOK', ProcessedWasHandled', [NextT]_varsT
      PROVE  IInvT'
  <2>1. CASE UNCHANGED varsT
    BY <1>2, <2>1, StepElsewhere DEF varsT, vars, trailVars
  <2>2. ASSUME NEW d \in Deliveries, RunHandlerT(d)
        PROVE  IInvT'
    BY <1>2, <2>2, StepRecorded
  <2>3. ASSUME NEW d \in Deliveries, ElsewhereT(d)
        PROVE  IInvT'
    BY <1>2, <2>3, StepElsewhere, HandledElsewhere DEF ElsewhereT
  <2>4. QED
    BY <1>2, <2>1, <2>2, <2>3 DEF NextT
<1>3. QED
  BY <1>1, <1>2, ImplementsPipeline, TypeCorrect, SkipIsSafe, PTL DEF SpecT

\* Every reachable state of the audit trail is well typed.
THEOREM TypeCorrectT == SpecT => []TypeOKT
<1>1. IInvT => TypeOKT
  BY DEF IInvT
<1>2. QED
  BY <1>1, InvarianceT, PTL

\* There are never more records of an event than times that a worker has run its handler
\* to the end, over all deliveries, attempts and lost workers.
THEOREM RecordsNeedRuns ==
  ASSUME IsFiniteSet(Deliveries)
  PROVE  SpecT => []RecordsAreFew
<1>1. InitT /\ Core => RecordsAreFew
  <2> SUFFICES ASSUME InitT, Core, NEW e \in Events
               PROVE  0 <= Cardinality(RunsOf(e))
    BY DEF InitT, RecordsAreFew
  <2> DEFINE S == DeliveriesOf(e)
             f == [d \in Deliveries |-> Runs(d)]
             m == MaxAttempts + MaxStalls + 1
  <2>1. IsFiniteSet(S) /\ S \subseteq Deliveries /\ m \in Nat
    BY ConstantsAssumption, FS_Subset DEF DeliveriesOf
  <2>2. \A d \in S : f[d] \in 0..m
    BY <2>1, RunsTyped DEF Core
  <2>3. RunsOf(e) = PairsOf(S, f)
    BY <2>1 DEF RunsOf, PairsOf
  <2> HIDE DEF S, f, m
  <2>4. Cardinality(PairsOf(S, f)) \in Nat
    BY <2>1, <2>2, PairsAre
  <2>5. QED
    BY <2>3, <2>4
<1>2. TypeOKT /\ Core /\ Core' /\ RecordsAreFew /\ [NextT]_varsT => RecordsAreFew'
  BY StepFew
<1>3. IInv => Core
  BY DEF IInv
<1>4. QED
  BY <1>1, <1>2, <1>3, ImplementsPipeline, Invariance, TypeCorrectT, PTL DEF SpecT

\* How far the trail can be relied on: nothing is recorded about an event that nobody
\* handled, every record has a run of the handler of its own, and a processed event that
\* both apps record has a record, unless the insert of one failed.  It is not one record
\* per event: the run of OneRecordPerEvent shows that.
THEOREM TrailIsExplained ==
  ASSUME IsFiniteSet(Deliveries)
  PROVE  SpecT => []RecordsAreExplained
<1>1. IInvT => RecordedWasHandled /\ SilenceIsExplained
  <2> SUFFICES ASSUME IInvT, NEW e \in Events, row[e] = "processed", trail[e] = 0
               PROVE  Unrecorded(e)
    BY DEF IInvT, SilenceIsExplained
  <2>1. PICK d \in handled : EventOf[d] = e
    BY DEF IInvT, ProcessedWasHandled, Handled, DeliveriesOf
  <2>2. QED
    BY <2>1 DEF IInvT, HandledIsRecorded
<1>2. RecordedWasHandled /\ RecordsAreFew /\ SilenceIsExplained => RecordsAreExplained
  BY DEF RecordsAreExplained
<1>3. QED
  BY <1>1, <1>2, InvarianceT, RecordsNeedRuns, PTL
===============================================================================
