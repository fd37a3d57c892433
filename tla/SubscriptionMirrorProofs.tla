------------------------ MODULE SubscriptionMirrorProofs ------------------------
(***************************************************************************)
(* Proofs about SubscriptionMirror, for any subscriptions, plans, requests *)
(* and workers of either app.  Whoever holds a status that may yet be      *)
(* written (an event, a job, a reply, the first answer of Stripe) holds    *)
(* one that Stripe has stated, or was sent for an invoice; hence every     *)
(* change of a row has its grounds.                                        *)
(***************************************************************************)
EXTENDS SubscriptionMirror, TLAPS

-------------------------------------------------------------------------------
(* The inductive invariant.                                                    *)

\* Stripe has sent the event: it has stated the status of a snapshot.
Sent(e) ==
  IF e.type = "sync" THEN e.status \in reported[e.sub] ELSE e.type \in invoiced[e.sub]

EventsSent == \A e \in events : Sent(e)

JobsSent == \A w \in Workers : hand[w] # Idle => Sent(hand[w].event)

\* Steps go with the type of the event, and a handler sets what it found reason to set.
StepsFit ==
  \A w \in Workers :
    hand[w] # Idle /\ hand[w].step = "set"
      => Sets(AppOf[w], hand[w].event.type, hand[w].seen) # "none"

RepliesReported == \A s \in Subs, state \in Status :
  <<s, state>> \in replies => state \in reported[s]

\* Stripe's first answer, and its present status, have been reported.
AnswersReported ==
  \A s \in Subs :
    stripe[s] # "none" =>
      /\ stripe[s] \in reported[s]
      /\ origin[s] = "request" => answer[s] \in reported[s]

\* A request that inserts has Stripe's answer, or asked for a planless subscription.
RequestsFit ==
  \A r \in Requests :
    /\ pc[r] \in {"lookup", "stripe", "saved"} => origin[SubOf[r]] = "request"
    /\ pc[r] = "insert" => origin[SubOf[r]] \in {"request", "planless"}
    /\ pc[r] \in {"saved", "insert"} /\ origin[SubOf[r]] = "request" =>
         stripe[SubOf[r]] # "none"

\* Not a part of the invariant: what every step does.
ReportedGrows ==
  /\ origin' = origin
  /\ \A s \in Subs : reported[s] \subseteq reported'[s] /\ invoiced[s] \subseteq invoiced'[s]

IInv ==
  /\ TypeOK
  /\ EventsSent /\ JobsSent /\ StepsFit
  /\ RepliesReported /\ AnswersReported /\ RequestsFit

-------------------------------------------------------------------------------
(* What the invoice handlers may write.                                        *)

\* A handler sets the status that its event makes it assume, or none.
LEMMA SetsAssumed ==
  ASSUME NEW app, NEW type \in InvoiceTypes, NEW seen
  PROVE  Sets(app, type, seen) \in {"none", Assumed[type]}
BY DEF Sets, SetsInApi, SetsInWebhooks, SucceededSets, FailedSets, PaidSets,
       UncollectibleSets, InvoiceTypes, Assumed

\* Over a cancellation, one handler of one app sets anything.
LEMMA SetsOverCancellation ==
  ASSUME NEW app \in {"api", "webhooks"}, NEW type \in InvoiceTypes,
         Sets(app, type, "canceled") # "none"
  PROVE  type = "succeeded" /\ app = "webhooks"
BY DEF Sets, SetsInApi, SetsInWebhooks, SucceededSets, FailedSets, PaidSets,
       UncollectibleSets, InvoiceTypes

\* What is assumed is a status.
LEMMA AssumedStatus == \A t \in InvoiceTypes : Assumed[t] \in Status
BY DEF InvoiceTypes, Assumed, Status, Live

-------------------------------------------------------------------------------
(* Each part is kept by every step.                                            *)

\* Reports are never taken back; an origin stays.
LEMMA StepReported ==
  ASSUME TypeOK, [Next]_vars
  PROVE  ReportedGrows
<1> USE ConstantsAssumption DEF TypeOK, ReportedGrows, stripeVars, requestVars, jobVars
<1>1. CASE UNCHANGED vars
  BY <1>1 DEF vars
<1>2. CASE CustomerInserted
  BY <1>2 DEF CustomerInserted
<1>3. ASSUME NEW s \in Subs, StripeMoves(s) \/ MadeElsewhere(s) \/ CleanUp(s) \/
             Update(s) \/ Cancel(s) \/ Answered(s)
      PROVE  ReportedGrows
  <2>1. CASE StripeMoves(s)
    BY <2>1 DEF StripeMoves, Becomes, Invoices, Sends, New
  <2>2. CASE MadeElsewhere(s)
    BY <2>2 DEF MadeElsewhere, Becomes, Invoices, Sends, New
  <2>3. CASE CleanUp(s)
    BY <2>3 DEF CleanUp, Becomes, Invoices, Sends, New
  <2>4. CASE Update(s)
    BY <2>4 DEF Update, Becomes, Invoices, Sends, New
  <2>5. CASE Cancel(s)
    BY <2>5 DEF Cancel, Becomes, Invoices, Sends, New
  <2>6. CASE Answered(s)
    BY <2>6 DEF Answered, WriteReply, LoseReply, SetRow
  <2>7. QED
    BY <1>3, <2>1, <2>2, <2>3, <2>4, <2>5, <2>6
<1>4. ASSUME NEW r \in Requests, FindCustomer(r) \/ Lookup(r) \/ AskStripe(r) \/
             AlreadySaved(r) \/ Insert(r) \/ InsertFails(r) \/ RequestFails(r) \/
             Repeat(r)
      PROVE  ReportedGrows
  <2>1. CASE FindCustomer(r)
    BY <2>1 DEF FindCustomer, GoTo
  <2>2. CASE Lookup(r)
    BY <2>2 DEF Lookup, GoTo
  <2>3. CASE AskStripe(r)
    BY <2>3 DEF AskStripe, GoTo, Becomes, Invoices, Sends, New
  <2>4. CASE AlreadySaved(r)
    BY <2>4 DEF AlreadySaved, GoTo
  <2>5. CASE Insert(r)
    BY <2>5 DEF Insert, GoTo, InsertRow, SetRow, FirstStatus
  <2>6. CASE InsertFails(r)
    BY <2>6 DEF InsertFails, GoTo, InsertRow, SetRow, FirstStatus
  <2>7. CASE RequestFails(r)
    BY <2>7 DEF RequestFails, GoTo
  <2>8. CASE Repeat(r)
    BY <2>8 DEF Repeat, GoTo
  <2>9. QED
    BY <1>4, <2>1, <2>2, <2>3, <2>4, <2>5, <2>6, <2>7, <2>8
<1>5. ASSUME NEW w \in Workers, Take(w) \/ SyncFind(w) \/ SyncRow(w) \/
             InsertFromStripeEvent(w) \/ InvoiceFind(w) \/ InvoiceSet(w) \/ Throws(w) \/
             Fails(w)
      PROVE  ReportedGrows
  <2>1. CASE Take(w)
    BY <2>1 DEF Take
  <2>2. CASE SyncFind(w)
    BY <2>2 DEF SyncFind, At, SubOfJob, Proceed, Done
  <2>3. CASE SyncRow(w)
    BY <2>3 DEF SyncRow, At, SubOfJob, Proceed, Done, SyncUpdate, SetRow
  <2>4. CASE InsertFromStripeEvent(w)
    BY <2>4 DEF InsertFromStripeEvent, At, SubOfJob, Proceed, Done, InsertRow, SetRow
  <2>5. CASE InvoiceFind(w)
    BY <2>5 DEF InvoiceFind, At, SubOfJob, Proceed, Done, SetByJob
  <2>6. CASE InvoiceSet(w)
    BY <2>6 DEF InvoiceSet, At, SubOfJob, Proceed, Done, SyncUpdateStatus, SetRow, SetByJob
  <2>7. CASE Throws(w)
    BY <2>7 DEF Throws, At, SubOfJob, Proceed, Done
  <2>8. CASE Fails(w)
    BY <2>8 DEF Fails, At, SubOfJob, Proceed, Done, Retry
  <2>9. QED
    BY <1>5, <2>1, <2>2, <2>3, <2>4, <2>5, <2>6, <2>7, <2>8
<1>6. QED
  BY <1>1, <1>2, <1>3, <1>4, <1>5
     DEF Next, Request, Handle, SyncFromStripeEvent, HandleInvoice

\* A job that goes on is a job.
LEMMA ProceedType ==
  ASSUME TypeOK, NEW w \in Workers, hand[w] # Idle,
         NEW step \in {"find", "insert", "update", "set"},
         NEW seen \in Status \cup {"none"}, Proceed(w, step, seen)
  PROVE  hand' \in [Workers -> Job \cup {Idle}]
<1>1. hand[w] \in Job
  BY DEF TypeOK
<1>2. [hand[w] EXCEPT !.step = step, !.seen = seen] \in Job
  BY <1>1 DEF Job
<1>3. hand' = [hand EXCEPT ![w] = [hand[w] EXCEPT !.step = step, !.seen = seen]]
  BY DEF Proceed, TypeOK
<1>4. QED
  BY <1>2, <1>3 DEF TypeOK

\* The types.
LEMMA StepType ==
  ASSUME TypeOK, AnswersReported, RequestsFit, StepsFit, [Next]_vars
  PROVE  TypeOK'
<1> USE ConstantsAssumption, AssumedStatus, SetsAssumed
       DEF TypeOK, Status, Live, Event, Job, Idle, InvoiceTypes, AnswersReported,
           RequestsFit, StepsFit, stripeVars, requestVars, jobVars
<1>1. CASE UNCHANGED vars
  BY <1>1 DEF vars
<1>2. CASE CustomerInserted
  BY <1>2 DEF CustomerInserted
<1>3. ASSUME NEW s \in Subs, StripeMoves(s) \/ MadeElsewhere(s) \/ CleanUp(s) \/
             Update(s) \/ Cancel(s) \/ Answered(s)
      PROVE  TypeOK'
  <2>1. CASE StripeMoves(s)
    BY <2>1 DEF StripeMoves, Becomes, Invoices, Sends, New
  <2>2. CASE MadeElsewhere(s)
    BY <2>2 DEF MadeElsewhere, Becomes, Invoices, Sends, New
  <2>3. CASE CleanUp(s)
    BY <2>3 DEF CleanUp, Becomes, Invoices, Sends, New
  <2>4. CASE Update(s)
    BY <2>4 DEF Update, Becomes, Invoices, Sends, New
  <2>5. CASE Cancel(s)
    BY <2>5 DEF Cancel, Becomes, Invoices, Sends, New
  <2>6. CASE Answered(s)
    BY <2>6 DEF Answered, WriteReply, LoseReply, SetRow
  <2>7. QED
    BY <1>3, <2>1, <2>2, <2>3, <2>4, <2>5, <2>6
<1>4. ASSUME NEW r \in Requests, FindCustomer(r) \/ Lookup(r) \/ AskStripe(r) \/
             AlreadySaved(r) \/ Insert(r) \/ InsertFails(r) \/ RequestFails(r) \/
             Repeat(r)
      PROVE  TypeOK'
  <2>1. CASE FindCustomer(r)
    BY <2>1 DEF FindCustomer, GoTo
  <2>2. CASE Lookup(r)
    BY <2>2 DEF Lookup, GoTo
  <2>3. CASE AskStripe(r)
    BY <2>3 DEF AskStripe, GoTo, Becomes, Invoices, Sends, New
  <2>4. CASE AlreadySaved(r)
    BY <2>4 DEF AlreadySaved, GoTo
  <2>5. CASE Insert(r)
    BY <2>5 DEF Insert, GoTo, InsertRow, SetRow, FirstStatus
  <2>6. CASE InsertFails(r)
    BY <2>6 DEF InsertFails, GoTo, InsertRow, SetRow, FirstStatus
  <2>7. CASE RequestFails(r)
    BY <2>7 DEF RequestFails, GoTo
  <2>8. CASE Repeat(r)
    BY <2>8 DEF Repeat, GoTo
  <2>9. QED
    BY <1>4, <2>1, <2>2, <2>3, <2>4, <2>5, <2>6, <2>7, <2>8
<1>5. ASSUME NEW w \in Workers, Take(w) \/ SyncFind(w) \/ SyncRow(w) \/
             InsertFromStripeEvent(w) \/ InvoiceFind(w) \/ InvoiceSet(w) \/ Throws(w) \/
             Fails(w)
      PROVE  TypeOK'
  <2>1. CASE Take(w)
    BY <2>1 DEF Take
  <2>2. CASE SyncFind(w)
    <3>1. hand' \in [Workers -> Job \cup {Idle}]
      BY <2>2, ProceedType DEF SyncFind, At
    <3>2. QED
      BY <2>2, <3>1 DEF SyncFind, Proceed
  <2>3. CASE SyncRow(w)
    BY <2>3 DEF SyncRow, At, SubOfJob, Proceed, Done, SyncUpdate, SetRow
  <2>4. CASE InsertFromStripeEvent(w)
    BY <2>4 DEF InsertFromStripeEvent, At, SubOfJob, Proceed, Done, InsertRow, SetRow
  <2>5. CASE InvoiceFind(w)
    BY <2>5 DEF InvoiceFind, At, SubOfJob, Proceed, Done, SetByJob
  <2>6. CASE InvoiceSet(w)
    <3> DEFINE e == hand[w].event
               state == Sets(AppOf[w], e.type, hand[w].seen)
    <3>1. hand[w] # Idle /\ hand[w].step = "set" /\ e.type \in InvoiceTypes
      BY <2>6 DEF InvoiceSet, At
    <3>2. state \in Status
      <4>1. state \in {"none", Assumed[e.type]}
        BY <3>1, SetsAssumed
      <4>2. state # "none"
        BY <3>1
      <4>3. Assumed[e.type] \in Status
        BY <3>1, AssumedStatus
      <4>4. QED
        BY <4>1, <4>2, <4>3
    <3>3. row' \in [Subs -> Status \cup {"none"}]
      BY <2>6, <3>2 DEF InvoiceSet, SyncUpdateStatus, SetRow, SetByJob
    <3>4. hand' \in [Workers -> Job \cup {Idle}]
      BY <2>6 DEF InvoiceSet, Done
    <3>5. QED
      BY <2>6, <3>3, <3>4 DEF InvoiceSet, Done
  <2>7. CASE Throws(w)
    BY <2>7 DEF Throws, At, SubOfJob, Proceed, Done
  <2>8. CASE Fails(w)
    BY <2>8 DEF Fails, At, SubOfJob, Proceed, Done, Retry
  <2>9. QED
    BY <1>5, <2>1, <2>2, <2>3, <2>4, <2>5, <2>6, <2>7, <2>8
<1>6. QED
  BY <1>1, <1>2, <1>3, <1>4, <1>5
     DEF Next, Request, Handle, SyncFromStripeEvent, HandleInvoice

\* Events are reported as they are sent.
LEMMA StepEvents ==
  ASSUME TypeOK, EventsSent, JobsSent, [Next]_vars
  PROVE  EventsSent'
<1> USE ConstantsAssumption
       DEF TypeOK, Status, Live, Event, Job, Idle, InvoiceTypes, EventsSent,
           JobsSent, stripeVars, requestVars, jobVars, Sent
<1>1. CASE UNCHANGED vars
  BY <1>1 DEF vars
<1>2. CASE CustomerInserted
  BY <1>2 DEF CustomerInserted
<1>3. ASSUME NEW s \in Subs, StripeMoves(s) \/ MadeElsewhere(s) \/ CleanUp(s) \/
             Update(s) \/ Cancel(s) \/ Answered(s)
      PROVE  EventsSent'
  <2>1. CASE StripeMoves(s)
    BY <2>1 DEF StripeMoves, Becomes, Invoices, Sends, New
  <2>2. CASE MadeElsewhere(s)
    BY <2>2 DEF MadeElsewhere, Becomes, Invoices, Sends, New
  <2>3. CASE CleanUp(s)
    BY <2>3 DEF CleanUp, Becomes, Invoices, Sends, New
  <2>4. CASE Update(s)
    BY <2>4 DEF Update, Becomes, Invoices, Sends, New
  <2>5. CASE Cancel(s)
    BY <2>5 DEF Cancel, Becomes, Invoices, Sends, New
  <2>6. CASE Answered(s)
    BY <2>6 DEF Answered, WriteReply, LoseReply, SetRow
  <2>7. QED
    BY <1>3, <2>1, <2>2, <2>3, <2>4, <2>5, <2>6
<1>4. ASSUME NEW r \in Requests, FindCustomer(r) \/ Lookup(r) \/ AskStripe(r) \/
             AlreadySaved(r) \/ Insert(r) \/ InsertFails(r) \/ RequestFails(r) \/
             Repeat(r)
      PROVE  EventsSent'
  <2>1. CASE FindCustomer(r)
    BY <2>1 DEF FindCustomer, GoTo
  <2>2. CASE Lookup(r)
    BY <2>2 DEF Lookup, GoTo
  <2>3. CASE AskStripe(r)
    BY <2>3 DEF AskStripe, GoTo, Becomes, Invoices, Sends, New
  <2>4. CASE AlreadySaved(r)
    BY <2>4 DEF AlreadySaved, GoTo
  <2>5. CASE Insert(r)
    BY <2>5 DEF Insert, GoTo, InsertRow, SetRow, FirstStatus
  <2>6. CASE InsertFails(r)
    BY <2>6 DEF InsertFails, GoTo, InsertRow, SetRow, FirstStatus
  <2>7. CASE RequestFails(r)
    BY <2>7 DEF RequestFails, GoTo
  <2>8. CASE Repeat(r)
    BY <2>8 DEF Repeat, GoTo
  <2>9. QED
    BY <1>4, <2>1, <2>2, <2>3, <2>4, <2>5, <2>6, <2>7, <2>8
<1>5. ASSUME NEW w \in Workers, Take(w) \/ SyncFind(w) \/ SyncRow(w) \/
             InsertFromStripeEvent(w) \/ InvoiceFind(w) \/ InvoiceSet(w) \/ Throws(w) \/
             Fails(w)
      PROVE  EventsSent'
  <2>1. CASE Take(w)
    BY <2>1 DEF Take
  <2>2. CASE SyncFind(w)
    BY <2>2 DEF SyncFind, At, SubOfJob, Proceed, Done
  <2>3. CASE SyncRow(w)
    BY <2>3 DEF SyncRow, At, SubOfJob, Proceed, Done, SyncUpdate, SetRow
  <2>4. CASE InsertFromStripeEvent(w)
    BY <2>4 DEF InsertFromStripeEvent, At, SubOfJob, Proceed, Done, InsertRow, SetRow
  <2>5. CASE InvoiceFind(w)
    BY <2>5 DEF InvoiceFind, At, SubOfJob, Proceed, Done, SetByJob
  <2>6. CASE InvoiceSet(w)
    BY <2>6 DEF InvoiceSet, At, SubOfJob, Proceed, Done, SyncUpdateStatus, SetRow, SetByJob
  <2>7. CASE Throws(w)
    BY <2>7 DEF Throws, At, SubOfJob, Proceed, Done
  <2>8. CASE Fails(w)
    BY <2>8 DEF Fails, At, SubOfJob, Proceed, Done, Retry
  <2>9. QED
    BY <1>5, <2>1, <2>2, <2>3, <2>4, <2>5, <2>6, <2>7, <2>8
<1>6. QED
  BY <1>1, <1>2, <1>3, <1>4, <1>5
     DEF Next, Request, Handle, SyncFromStripeEvent, HandleInvoice

\* The job that is taken holds an event that was sent.
LEMMA JobTaken ==
  ASSUME TypeOK, JobsSent, reported' = reported, invoiced' = invoiced,
         NEW w \in Workers, NEW e, Sent(e),
         hand' = [hand EXCEPT ![w] = [step |-> "find", event |-> e, seen |-> "none"]]
  PROVE  JobsSent'
<1> DEFINE job == [step |-> "find", event |-> e, seen |-> "none"]
<1>1. ASSUME NEW v \in Workers, hand'[v] # Idle
      PROVE  /\ hand'[v].event.type = "sync" =>
                  hand'[v].event.status \in reported[hand'[v].event.sub]
             /\ hand'[v].event.type # "sync" =>
                  hand'[v].event.type \in invoiced[hand'[v].event.sub]
  <2>1. CASE v = w
    <3>1. hand'[v] = job /\ job.event = e
      BY <2>1 DEF TypeOK
    <3>2. QED
      BY <3>1 DEF Sent
  <2>2. CASE v # w
    <3>1. hand'[v] = hand[v]
      BY <2>2 DEF TypeOK
    <3>2. QED
      BY <1>1, <3>1 DEF JobsSent, Sent
  <2>3. QED
    BY <2>1, <2>2
<1>2. QED
  BY <1>1 DEF JobsSent, Sent, Idle

\* Jobs hold events.
LEMMA StepJobs ==
  ASSUME TypeOK, ReportedGrows, EventsSent, JobsSent, [Next]_vars
  PROVE  JobsSent'
<1> USE ConstantsAssumption
       DEF TypeOK, Status, Live, Event, Job, Idle, InvoiceTypes, ReportedGrows,
           EventsSent, JobsSent, stripeVars, requestVars, jobVars, Sent
<1>1. CASE UNCHANGED vars
  BY <1>1 DEF vars
<1>2. CASE CustomerInserted
  BY <1>2 DEF CustomerInserted
<1>3. ASSUME NEW s \in Subs, StripeMoves(s) \/ MadeElsewhere(s) \/ CleanUp(s) \/
             Update(s) \/ Cancel(s) \/ Answered(s)
      PROVE  JobsSent'
  <2>1. CASE StripeMoves(s)
    BY <2>1 DEF StripeMoves, Becomes, Invoices, Sends, New
  <2>2. CASE MadeElsewhere(s)
    BY <2>2 DEF MadeElsewhere, Becomes, Invoices, Sends, New
  <2>3. CASE CleanUp(s)
    BY <2>3 DEF CleanUp, Becomes, Invoices, Sends, New
  <2>4. CASE Update(s)
    BY <2>4 DEF Update, Becomes, Invoices, Sends, New
  <2>5. CASE Cancel(s)
    BY <2>5 DEF Cancel, Becomes, Invoices, Sends, New
  <2>6. CASE Answered(s)
    BY <2>6 DEF Answered, WriteReply, LoseReply, SetRow
  <2>7. QED
    BY <1>3, <2>1, <2>2, <2>3, <2>4, <2>5, <2>6
<1>4. ASSUME NEW r \in Requests, FindCustomer(r) \/ Lookup(r) \/ AskStripe(r) \/
             AlreadySaved(r) \/ Insert(r) \/ InsertFails(r) \/ RequestFails(r) \/
             Repeat(r)
      PROVE  JobsSent'
  <2>1. CASE FindCustomer(r)
    BY <2>1 DEF FindCustomer, GoTo
  <2>2. CASE Lookup(r)
    BY <2>2 DEF Lookup, GoTo
  <2>3. CASE AskStripe(r)
    BY <2>3 DEF AskStripe, GoTo, Becomes, Invoices, Sends, New
  <2>4. CASE AlreadySaved(r)
    BY <2>4 DEF AlreadySaved, GoTo
  <2>5. CASE Insert(r)
    BY <2>5 DEF Insert, GoTo, InsertRow, SetRow, FirstStatus
  <2>6. CASE InsertFails(r)
    BY <2>6 DEF InsertFails, GoTo, InsertRow, SetRow, FirstStatus
  <2>7. CASE RequestFails(r)
    BY <2>7 DEF RequestFails, GoTo
  <2>8. CASE Repeat(r)
    BY <2>8 DEF Repeat, GoTo
  <2>9. QED
    BY <1>4, <2>1, <2>2, <2>3, <2>4, <2>5, <2>6, <2>7, <2>8
<1>5. ASSUME NEW w \in Workers, Take(w) \/ SyncFind(w) \/ SyncRow(w) \/
             InsertFromStripeEvent(w) \/ InvoiceFind(w) \/ InvoiceSet(w) \/ Throws(w) \/
             Fails(w)
      PROVE  JobsSent'
  <2>1. CASE Take(w)
    <3>1. PICK e \in events :
            hand' = [hand EXCEPT ![w] = [step |-> "find", event |-> e, seen |-> "none"]]
      BY <2>1 DEF Take
    <3>2. reported' = reported /\ invoiced' = invoiced
      BY <2>1 DEF Take
    <3>3. Sent(e)
      OBVIOUS
    <3>4. QED
      BY <3>1, <3>2, <3>3, JobTaken
  <2>2. CASE SyncFind(w)
    BY <2>2 DEF SyncFind, At, SubOfJob, Proceed, Done
  <2>3. CASE SyncRow(w)
    BY <2>3 DEF SyncRow, At, SubOfJob, Proceed, Done, SyncUpdate, SetRow
  <2>4. CASE InsertFromStripeEvent(w)
    BY <2>4 DEF InsertFromStripeEvent, At, SubOfJob, Proceed, Done, InsertRow, SetRow
  <2>5. CASE InvoiceFind(w)
    BY <2>5 DEF InvoiceFind, At, SubOfJob, Proceed, Done, SetByJob
  <2>6. CASE InvoiceSet(w)
    BY <2>6 DEF InvoiceSet, At, SubOfJob, Proceed, Done, SyncUpdateStatus, SetRow, SetByJob
  <2>7. CASE Throws(w)
    BY <2>7 DEF Throws, At, SubOfJob, Proceed, Done
  <2>8. CASE Fails(w)
    BY <2>8 DEF Fails, At, SubOfJob, Proceed, Done, Retry
  <2>9. QED
    BY <1>5, <2>1, <2>2, <2>3, <2>4, <2>5, <2>6, <2>7, <2>8
<1>6. QED
  BY <1>1, <1>2, <1>3, <1>4, <1>5
     DEF Next, Request, Handle, SyncFromStripeEvent, HandleInvoice

\* The reason to set is kept with the job.
LEMMA StepSteps ==
  ASSUME TypeOK, StepsFit, [Next]_vars
  PROVE  StepsFit'
<1> USE ConstantsAssumption
       DEF TypeOK, Status, Live, Event, Job, Idle, InvoiceTypes, StepsFit, stripeVars,
           requestVars, jobVars
<1>1. CASE UNCHANGED vars
  BY <1>1 DEF vars
<1>2. CASE CustomerInserted
  BY <1>2 DEF CustomerInserted
<1>3. ASSUME NEW s \in Subs, StripeMoves(s) \/ MadeElsewhere(s) \/ CleanUp(s) \/
             Update(s) \/ Cancel(s) \/ Answered(s)
      PROVE  StepsFit'
  <2>1. CASE StripeMoves(s)
    BY <2>1 DEF StripeMoves, Becomes, Invoices, Sends, New
  <2>2. CASE MadeElsewhere(s)
    BY <2>2 DEF MadeElsewhere, Becomes, Invoices, Sends, New
  <2>3. CASE CleanUp(s)
    BY <2>3 DEF CleanUp, Becomes, Invoices, Sends, New
  <2>4. CASE Update(s)
    BY <2>4 DEF Update, Becomes, Invoices, Sends, New
  <2>5. CASE Cancel(s)
    BY <2>5 DEF Cancel, Becomes, Invoices, Sends, New
  <2>6. CASE Answered(s)
    BY <2>6 DEF Answered, WriteReply, LoseReply, SetRow
  <2>7. QED
    BY <1>3, <2>1, <2>2, <2>3, <2>4, <2>5, <2>6
<1>4. ASSUME NEW r \in Requests, FindCustomer(r) \/ Lookup(r) \/ AskStripe(r) \/
             AlreadySaved(r) \/ Insert(r) \/ InsertFails(r) \/ RequestFails(r) \/
             Repeat(r)
      PROVE  StepsFit'
  <2>1. CASE FindCustomer(r)
    BY <2>1 DEF FindCustomer, GoTo
  <2>2. CASE Lookup(r)
    BY <2>2 DEF Lookup, GoTo
  <2>3. CASE AskStripe(r)
    BY <2>3 DEF AskStripe, GoTo, Becomes, Invoices, Sends, New
  <2>4. CASE AlreadySaved(r)
    BY <2>4 DEF AlreadySaved, GoTo
  <2>5. CASE Insert(r)
    BY <2>5 DEF Insert, GoTo, InsertRow, SetRow, FirstStatus
  <2>6. CASE InsertFails(r)
    BY <2>6 DEF InsertFails, GoTo, InsertRow, SetRow, FirstStatus
  <2>7. CASE RequestFails(r)
    BY <2>7 DEF RequestFails, GoTo
  <2>8. CASE Repeat(r)
    BY <2>8 DEF Repeat, GoTo
  <2>9. QED
    BY <1>4, <2>1, <2>2, <2>3, <2>4, <2>5, <2>6, <2>7, <2>8
<1>5. ASSUME NEW w \in Workers, Take(w) \/ SyncFind(w) \/ SyncRow(w) \/
             InsertFromStripeEvent(w) \/ InvoiceFind(w) \/ InvoiceSet(w) \/ Throws(w) \/
             Fails(w)
      PROVE  StepsFit'
  <2>1. CASE Take(w)
    BY <2>1 DEF Take
  <2>2. CASE SyncFind(w)
    BY <2>2 DEF SyncFind, At, SubOfJob, Proceed, Done
  <2>3. CASE SyncRow(w)
    BY <2>3 DEF SyncRow, At, SubOfJob, Proceed, Done, SyncUpdate, SetRow
  <2>4. CASE InsertFromStripeEvent(w)
    BY <2>4 DEF InsertFromStripeEvent, At, SubOfJob, Proceed, Done, InsertRow, SetRow
  <2>5. CASE InvoiceFind(w)
    BY <2>5 DEF InvoiceFind, At, SubOfJob, Proceed, Done, SetByJob
  <2>6. CASE InvoiceSet(w)
    BY <2>6 DEF InvoiceSet, At, SubOfJob, Proceed, Done, SyncUpdateStatus, SetRow, SetByJob
  <2>7. CASE Throws(w)
    BY <2>7 DEF Throws, At, SubOfJob, Proceed, Done
  <2>8. CASE Fails(w)
    BY <2>8 DEF Fails, At, SubOfJob, Proceed, Done, Retry
  <2>9. QED
    BY <1>5, <2>1, <2>2, <2>3, <2>4, <2>5, <2>6, <2>7, <2>8
<1>6. QED
  BY <1>1, <1>2, <1>3, <1>4, <1>5
     DEF Next, Request, Handle, SyncFromStripeEvent, HandleInvoice

\* Replies are reported as they are sent.
LEMMA ReplyAdded ==
  ASSUME RepliesReported, ReportedGrows, NEW s \in Subs, NEW state,
         state \in reported'[s], replies' \subseteq replies \cup {<<s, state>>}
  PROVE  RepliesReported'
BY DEF RepliesReported, ReportedGrows

LEMMA RepliesKept ==
  ASSUME RepliesReported, ReportedGrows, replies' \subseteq replies
  PROVE  RepliesReported'
BY DEF RepliesReported, ReportedGrows

LEMMA StepReplies ==
  ASSUME TypeOK, ReportedGrows, AnswersReported, RepliesReported, [Next]_vars
  PROVE  RepliesReported'
<1>1. CASE UNCHANGED vars \/ CustomerInserted
  BY <1>1, RepliesKept DEF vars, CustomerInserted, requestVars
<1>2. ASSUME NEW s \in Subs, StripeMoves(s) \/ MadeElsewhere(s) \/ CleanUp(s) \/ Answered(s)
      PROVE  RepliesReported'
  BY <1>2, RepliesKept DEF StripeMoves, MadeElsewhere, CleanUp, Answered, WriteReply,
                           LoseReply, requestVars
<1>3. ASSUME NEW s \in Subs, Update(s) \/ Cancel(s)
      PROVE  RepliesReported'
  <2>1. PICK state : Becomes(s, state) /\ replies' = replies \cup {<<s, state>>}
    BY <1>3 DEF Update, Cancel
  <2>2. state \in reported'[s]
    BY <2>1 DEF Becomes, Sends, TypeOK
  <2>3. QED
    BY <2>1, <2>2, ReplyAdded
<1>4. ASSUME NEW r \in Requests, Request(r)
      PROVE  RepliesReported'
  BY <1>4, RepliesKept DEF Request, FindCustomer, Lookup, AskStripe, AlreadySaved, Insert,
                           InsertFails, RequestFails, Repeat
<1>5. ASSUME NEW w \in Workers, Take(w) \/ Handle(w)
      PROVE  RepliesReported'
  BY <1>5, RepliesKept
     DEF Take, Handle, SyncFromStripeEvent, HandleInvoice, SyncFind, SyncRow,
         InsertFromStripeEvent, InvoiceFind, InvoiceSet, Throws, Fails, Proceed, Done,
         requestVars
<1>6. QED
  BY <1>1, <1>2, <1>3, <1>4, <1>5 DEF Next

\* Stripe reports each status it takes.
LEMMA StepAnswers ==
  ASSUME TypeOK, AnswersReported, [Next]_vars
  PROVE  AnswersReported'
<1> USE ConstantsAssumption
       DEF TypeOK, Status, Live, Event, Job, Idle, InvoiceTypes, AnswersReported,
           stripeVars, requestVars, jobVars
<1>1. CASE UNCHANGED vars
  BY <1>1 DEF vars
<1>2. CASE CustomerInserted
  BY <1>2 DEF CustomerInserted
<1>3. ASSUME NEW s \in Subs, StripeMoves(s) \/ MadeElsewhere(s) \/ CleanUp(s) \/
             Update(s) \/ Cancel(s) \/ Answered(s)
      PROVE  AnswersReported'
  <2>1. CASE StripeMoves(s)
    BY <2>1 DEF StripeMoves, Becomes, Invoices, Sends, New
  <2>2. CASE MadeElsewhere(s)
    BY <2>2 DEF MadeElsewhere, Becomes, Invoices, Sends, New
  <2>3. CASE CleanUp(s)
    BY <2>3 DEF CleanUp, Becomes, Invoices, Sends, New
  <2>4. CASE Update(s)
    BY <2>4 DEF Update, Becomes, Invoices, Sends, New
  <2>5. CASE Cancel(s)
    BY <2>5 DEF Cancel, Becomes, Invoices, Sends, New
  <2>6. CASE Answered(s)
    BY <2>6 DEF Answered, WriteReply, LoseReply, SetRow
  <2>7. QED
    BY <1>3, <2>1, <2>2, <2>3, <2>4, <2>5, <2>6
<1>4. ASSUME NEW r \in Requests, FindCustomer(r) \/ Lookup(r) \/ AskStripe(r) \/
             AlreadySaved(r) \/ Insert(r) \/ InsertFails(r) \/ RequestFails(r) \/
             Repeat(r)
      PROVE  AnswersReported'
  <2>1. CASE FindCustomer(r)
    BY <2>1 DEF FindCustomer, GoTo
  <2>2. CASE Lookup(r)
    BY <2>2 DEF Lookup, GoTo
  <2>3. CASE AskStripe(r)
    BY <2>3 DEF AskStripe, GoTo, Becomes, Invoices, Sends, New
  <2>4. CASE AlreadySaved(r)
    BY <2>4 DEF AlreadySaved, GoTo
  <2>5. CASE Insert(r)
    BY <2>5 DEF Insert, GoTo, InsertRow, SetRow, FirstStatus
  <2>6. CASE InsertFails(r)
    BY <2>6 DEF InsertFails, GoTo, InsertRow, SetRow, FirstStatus
  <2>7. CASE RequestFails(r)
    BY <2>7 DEF RequestFails, GoTo
  <2>8. CASE Repeat(r)
    BY <2>8 DEF Repeat, GoTo
  <2>9. QED
    BY <1>4, <2>1, <2>2, <2>3, <2>4, <2>5, <2>6, <2>7, <2>8
<1>5. ASSUME NEW w \in Workers, Take(w) \/ SyncFind(w) \/ SyncRow(w) \/
             InsertFromStripeEvent(w) \/ InvoiceFind(w) \/ InvoiceSet(w) \/ Throws(w) \/
             Fails(w)
      PROVE  AnswersReported'
  <2>1. CASE Take(w)
    BY <2>1 DEF Take
  <2>2. CASE SyncFind(w)
    BY <2>2 DEF SyncFind, At, SubOfJob, Proceed, Done
  <2>3. CASE SyncRow(w)
    BY <2>3 DEF SyncRow, At, SubOfJob, Proceed, Done, SyncUpdate, SetRow
  <2>4. CASE InsertFromStripeEvent(w)
    BY <2>4 DEF InsertFromStripeEvent, At, SubOfJob, Proceed, Done, InsertRow, SetRow
  <2>5. CASE InvoiceFind(w)
    BY <2>5 DEF InvoiceFind, At, SubOfJob, Proceed, Done, SetByJob
  <2>6. CASE InvoiceSet(w)
    BY <2>6 DEF InvoiceSet, At, SubOfJob, Proceed, Done, SyncUpdateStatus, SetRow, SetByJob
  <2>7. CASE Throws(w)
    BY <2>7 DEF Throws, At, SubOfJob, Proceed, Done
  <2>8. CASE Fails(w)
    BY <2>8 DEF Fails, At, SubOfJob, Proceed, Done, Retry
  <2>9. QED
    BY <1>5, <2>1, <2>2, <2>3, <2>4, <2>5, <2>6, <2>7, <2>8
<1>6. QED
  BY <1>1, <1>2, <1>3, <1>4, <1>5
     DEF Next, Request, Handle, SyncFromStripeEvent, HandleInvoice

\* A request asks before it inserts.
LEMMA StepRequests ==
  ASSUME TypeOK, RequestsFit, [Next]_vars
  PROVE  RequestsFit'
<1> USE ConstantsAssumption
       DEF TypeOK, Status, Live, Event, Job, Idle, InvoiceTypes, RequestsFit, stripeVars,
           requestVars, jobVars
<1>1. CASE UNCHANGED vars
  BY <1>1 DEF vars
<1>2. CASE CustomerInserted
  BY <1>2 DEF CustomerInserted
<1>3. ASSUME NEW s \in Subs, StripeMoves(s) \/ MadeElsewhere(s) \/ CleanUp(s) \/
             Update(s) \/ Cancel(s) \/ Answered(s)
      PROVE  RequestsFit'
  <2>1. CASE StripeMoves(s)
    BY <2>1 DEF StripeMoves, Becomes, Invoices, Sends, New
  <2>2. CASE MadeElsewhere(s)
    BY <2>2 DEF MadeElsewhere, Becomes, Invoices, Sends, New
  <2>3. CASE CleanUp(s)
    BY <2>3 DEF CleanUp, Becomes, Invoices, Sends, New
  <2>4. CASE Update(s)
    BY <2>4 DEF Update, Becomes, Invoices, Sends, New
  <2>5. CASE Cancel(s)
    BY <2>5 DEF Cancel, Becomes, Invoices, Sends, New
  <2>6. CASE Answered(s)
    BY <2>6 DEF Answered, WriteReply, LoseReply, SetRow
  <2>7. QED
    BY <1>3, <2>1, <2>2, <2>3, <2>4, <2>5, <2>6
<1>4. ASSUME NEW r \in Requests, FindCustomer(r) \/ Lookup(r) \/ AskStripe(r) \/
             AlreadySaved(r) \/ Insert(r) \/ InsertFails(r) \/ RequestFails(r) \/
             Repeat(r)
      PROVE  RequestsFit'
  <2>1. CASE FindCustomer(r)
    BY <2>1 DEF FindCustomer, GoTo
  <2>2. CASE Lookup(r)
    BY <2>2 DEF Lookup, GoTo
  <2>3. CASE AskStripe(r)
    BY <2>3 DEF AskStripe, GoTo, Becomes, Invoices, Sends, New
  <2>4. CASE AlreadySaved(r)
    BY <2>4 DEF AlreadySaved, GoTo
  <2>5. CASE Insert(r)
    BY <2>5 DEF Insert, GoTo, InsertRow, SetRow, FirstStatus
  <2>6. CASE InsertFails(r)
    BY <2>6 DEF InsertFails, GoTo, InsertRow, SetRow, FirstStatus
  <2>7. CASE RequestFails(r)
    BY <2>7 DEF RequestFails, GoTo
  <2>8. CASE Repeat(r)
    BY <2>8 DEF Repeat, GoTo
  <2>9. QED
    BY <1>4, <2>1, <2>2, <2>3, <2>4, <2>5, <2>6, <2>7, <2>8
<1>5. ASSUME NEW w \in Workers, Take(w) \/ SyncFind(w) \/ SyncRow(w) \/
             InsertFromStripeEvent(w) \/ InvoiceFind(w) \/ InvoiceSet(w) \/ Throws(w) \/
             Fails(w)
      PROVE  RequestsFit'
  <2>1. CASE Take(w)
    BY <2>1 DEF Take
  <2>2. CASE SyncFind(w)
    BY <2>2 DEF SyncFind, At, SubOfJob, Proceed, Done
  <2>3. CASE SyncRow(w)
    BY <2>3 DEF SyncRow, At, SubOfJob, Proceed, Done, SyncUpdate, SetRow
  <2>4. CASE InsertFromStripeEvent(w)
    BY <2>4 DEF InsertFromStripeEvent, At, SubOfJob, Proceed, Done, InsertRow, SetRow
  <2>5. CASE InvoiceFind(w)
    BY <2>5 DEF InvoiceFind, At, SubOfJob, Proceed, Done, SetByJob
  <2>6. CASE InvoiceSet(w)
    BY <2>6 DEF InvoiceSet, At, SubOfJob, Proceed, Done, SyncUpdateStatus, SetRow, SetByJob
  <2>7. CASE Throws(w)
    BY <2>7 DEF Throws, At, SubOfJob, Proceed, Done
  <2>8. CASE Fails(w)
    BY <2>8 DEF Fails, At, SubOfJob, Proceed, Done, Retry
  <2>9. QED
    BY <1>5, <2>1, <2>2, <2>3, <2>4, <2>5, <2>6, <2>7, <2>8
<1>6. QED
  BY <1>1, <1>2, <1>3, <1>4, <1>5
     DEF Next, Request, Handle, SyncFromStripeEvent, HandleInvoice

\* What a step may do to the rows.
Grounds(s) ==
  origin[s] # "planless" /\ row'[s] # row[s] =>
    \/ row'[s] \in reported[s] /\ \A w \in Workers : ~ SetsOwn(w, s)
    \/ \E w \in Workers : SetsOwn(w, s) /\ OwnGrounds(w, s, row'[s])

Grounded == \A s \in Subs : Grounds(s)

\* A row that is left alone, and one that is given a status Stripe has stated by
\* somebody who ends no job of an invoice.
LEMMA RowKept == ASSUME row' = row PROVE Grounded
BY DEF Grounded, Grounds

LEMMA RowSet ==
  ASSUME TypeOK, NEW s \in Subs, NEW state, SetRow(s, state),
         origin[s] # "planless" => state \in reported[s],
         \A w \in Workers : ~ SetsOwn(w, s)
  PROVE  Grounded
BY DEF TypeOK, Grounded, Grounds, SetRow

\* Who leaves the jobs alone ends none.
LEMMA NoJobEnds ==
  ASSUME hand' = hand, NEW s \in Subs
  PROVE  \A w \in Workers : ~ SetsOwn(w, s)
BY DEF SetsOwn, At

\* Nor does a worker who is busy with a snapshot.
LEMMA SnapshotSetsNothing ==
  ASSUME TypeOK, NEW v \in Workers, hand[v].event.type = "sync", Done(v), NEW s \in Subs
  PROVE  \A w \in Workers : ~ SetsOwn(w, s)
BY DEF TypeOK, Done, SetsOwn, At, InvoiceTypes

\* Whoever writes the row has grounds.
LEMMA StepRow ==
  ASSUME IInv, [Next]_vars
  PROVE  Grounded
<1> USE DEF IInv
<1>1. CASE UNCHANGED vars
  BY <1>1, RowKept DEF vars
<1>2. CASE CustomerInserted
  BY <1>2, RowKept DEF CustomerInserted
<1>3. ASSUME NEW s \in Subs,
             StripeMoves(s) \/ MadeElsewhere(s) \/ CleanUp(s) \/ Update(s) \/ Cancel(s)
      PROVE  Grounded
  BY <1>3, RowKept DEF StripeMoves, MadeElsewhere, CleanUp, Update, Cancel
<1>4. ASSUME NEW s \in Subs, Answered(s)
      PROVE  Grounded
  <2>1. PICK state \in Status : WriteReply(s, state) \/ LoseReply(s, state)
    BY <1>4 DEF Answered
  <2>2. CASE WriteReply(s, state)
    <3>1. SetRow(s, state) /\ hand' = hand
      BY <2>2 DEF WriteReply, jobVars
    <3>2. state \in reported[s]
      BY <2>2 DEF WriteReply, RepliesReported
    <3>3. QED
      BY <3>1, <3>2, RowSet, NoJobEnds
  <2>3. CASE LoseReply(s, state)
    BY <2>3, RowKept DEF LoseReply
  <2>4. QED
    BY <2>1, <2>2, <2>3
<1>5. ASSUME NEW r \in Requests, Request(r)
      PROVE  Grounded
  <2> DEFINE s == SubOf[r]
  <2>1. s \in Subs
    BY ConstantsAssumption
  <2>2. pc[r] = "insert" /\ origin[s] # "planless" => FirstStatus(s) \in reported[s]
    BY <2>1 DEF TypeOK, RequestsFit, AnswersReported, FirstStatus
  <2>3. CASE Insert(r)
    <3>1. SetRow(s, FirstStatus(s)) /\ pc[r] = "insert" /\ hand' = hand
      BY <2>3 DEF Insert, InsertRow, jobVars
    <3>2. QED
      BY <2>1, <2>2, <3>1, RowSet, NoJobEnds
  <2>4. CASE InsertFails(r)
    <3>1. pc[r] = "insert" /\ (row' = row \/ SetRow(s, FirstStatus(s))) /\ hand' = hand
      BY <2>4 DEF InsertFails, InsertRow, jobVars
    <3>2. QED
      BY <2>1, <2>2, <3>1, RowSet, RowKept, NoJobEnds
  <2>5. ASSUME FindCustomer(r) \/ Lookup(r) \/ AskStripe(r) \/ AlreadySaved(r)
                 \/ RequestFails(r) \/ Repeat(r)
        PROVE  Grounded
    BY <2>5, RowKept DEF FindCustomer, Lookup, AskStripe, AlreadySaved, RequestFails, Repeat
  <2>6. QED
    BY <1>5, <2>3, <2>4, <2>5 DEF Request
<1>6. ASSUME NEW w \in Workers, Take(w) \/ Handle(w)
      PROVE  Grounded
  <2> DEFINE e == hand[w].event
  <2>1. hand[w] # Idle => hand[w] \in Job /\ e \in Event /\ e.sub \in Subs /\ Sent(e)
    BY DEF TypeOK, Job, Event, JobsSent
  <2>2. CASE SyncRow(w)
    <3>1. hand[w] # Idle /\ e.type = "sync" /\ SetRow(e.sub, e.status) /\ Done(w)
      BY <2>2 DEF SyncRow, At, SyncUpdate, SubOfJob
    <3>2. e.status \in reported[e.sub]
      BY <2>1, <3>1 DEF Sent
    <3>3. QED
      BY <2>1, <3>1, <3>2, RowSet, SnapshotSetsNothing
  <2>3. CASE InsertFromStripeEvent(w)
    <3>1. hand[w] # Idle /\ e.type = "sync" /\ SetRow(e.sub, e.status) /\ Done(w)
      BY <2>3 DEF InsertFromStripeEvent, At, InsertRow, SubOfJob
    <3>2. e.status \in reported[e.sub]
      BY <2>1, <3>1 DEF Sent
    <3>3. QED
      BY <2>1, <3>1, <3>2, RowSet, SnapshotSetsNothing
  <2>4. CASE InvoiceSet(w)
    <3> DEFINE state == Sets(AppOf[w], e.type, hand[w].seen)
    <3>1. /\ hand[w] # Idle /\ hand[w].step = "set" /\ e.type \in InvoiceTypes
          /\ At(w, "set", InvoiceTypes) /\ SetRow(e.sub, state) /\ hand'[w] = Idle
      BY <2>4 DEF InvoiceSet, At, SyncUpdateStatus, SubOfJob, SetByJob, Done, TypeOK
    <3>2. state \in {"none", Assumed[e.type]} /\ state # "none"
      BY <3>1, SetsAssumed DEF StepsFit
    <3>3. e.type \in invoiced[e.sub]
      BY <2>1, <3>1 DEF Sent, InvoiceTypes
    <3>4. hand[w].seen = "canceled" => e.type = "succeeded" /\ AppOf[w] = "webhooks"
      <4>1. AppOf[w] \in {"api", "webhooks"}
        BY ConstantsAssumption
      <4>2. QED
        BY <3>1, <3>2, <4>1, SetsOverCancellation
    <3>5. SetsOwn(w, e.sub) /\ OwnGrounds(w, e.sub, state)
      BY <3>1, <3>2, <3>3, <3>4 DEF SetsOwn, OwnGrounds, SubOfJob
    <3>6. ASSUME NEW s \in Subs PROVE Grounds(s)
      BY <2>1, <3>1, <3>5 DEF Grounds, SetRow, TypeOK
    <3>7. QED
      BY <3>6 DEF Grounded
  <2>5. ASSUME Take(w) \/ SyncFind(w) \/ InvoiceFind(w) \/ Throws(w) \/ Fails(w)
        PROVE  Grounded
    BY <2>5, RowKept DEF Take, SyncFind, InvoiceFind, Throws, Fails
  <2>6. QED
    BY <1>6, <2>2, <2>3, <2>4, <2>5 DEF Handle, SyncFromStripeEvent, HandleInvoice
<1>7. QED
  BY <1>1, <1>2, <1>3, <1>4, <1>5, <1>6 DEF Next

-------------------------------------------------------------------------------
(* The theorems.                                                               *)

\* Snapshots, jobs, replies and first answers carry statuses that Stripe has stated, and
\* invoice events types that it has sent, in every reachable state.
THEOREM Invariance == Spec => []IInv
<1>1. Init => IInv
  <2>1. Init => TypeOK
    BY ConstantsAssumption DEF Init, TypeOK, Idle, Status, Live
  <2>2. Init => EventsSent /\ JobsSent /\ StepsFit
    BY DEF Init, EventsSent, JobsSent, StepsFit, Idle
  <2>3. Init => RepliesReported /\ AnswersReported
    BY DEF Init, RepliesReported, AnswersReported
  <2>4. Init => RequestsFit
    BY DEF Init, RequestsFit
  <2>5. QED
    BY <2>1, <2>2, <2>3, <2>4 DEF IInv
<1>2. IInv /\ [Next]_vars => IInv'
  BY StepReported, StepType, StepEvents, StepJobs, StepSteps, StepReplies, StepAnswers,
     StepRequests DEF IInv
<1>3. QED
  BY <1>1, <1>2, PTL DEF Spec

\* Types, for every value of the constants.
THEOREM TypeCorrect == Spec => []TypeOK
<1>1. IInv => TypeOK
  BY DEF IInv
<1>2. QED
  BY <1>1, Invariance, PTL

\* The row of a subscription changes to a status that Stripe has stated, or to one that
\* an invoice handler assumes on an event that was sent, and of those handlers one only
\* overrules a cancellation it has read: for every value of the constants.
THEOREM RowsChangeWithGrounds == Spec => RowChangesHaveGrounds
<1>1. IInv /\ [Next]_vars => [Grounded]_vars
  BY StepRow
<1>2. [Grounded]_vars =>
        [\A s \in Subs :
           origin[s] # "planless" /\ row'[s] # row[s] =>
             \/ row'[s] \in reported[s] /\ \A w \in Workers : ~ SetsOwn(w, s)
             \/ \E w \in Workers : SetsOwn(w, s) /\ OwnGrounds(w, s, row'[s])]_vars
  BY DEF Grounded, Grounds
<1>3. QED
  BY <1>1, <1>2, Invariance, PTL DEF Spec, RowChangesHaveGrounds

\* A snapshot that a worker of the webhooks app is done with leaves a row: such a worker
\* swallows no error on the way.
THEOREM SnapshotsLeaveRows == Spec => SnapshotLeavesRow
<1> DEFINE Heals == \A w \in Workers : AppOf[w] = "webhooks" => LeavesRow(w)
<1>1. ASSUME IInv, NEW w \in Workers, AppOf[w] = "webhooks"
      PROVE  LeavesRow(w)
  <2> DEFINE e == hand[w].event
  <2> SUFFICES ASSUME SyncRow(w) \/ InsertFromStripeEvent(w) \/ Throws(w), e.type = "sync"
               PROVE  row'[e.sub] # "none"
    BY DEF LeavesRow, SubOfJob
  <2>1. hand[w] # Idle
    BY DEF SyncRow, InsertFromStripeEvent, Throws, At
  <2>2. e.sub \in Subs /\ e.status \in Status
    <3>1. hand[w] \in Job
      BY <1>1, <2>1 DEF IInv, TypeOK
    <3>2. e \in Event
      BY <3>1 DEF Job
    <3>3. QED
      BY <3>2 DEF Event, InvoiceTypes
  <2>3. ~ Throws(w)
    BY <1>1 DEF Throws, Swallowed, InvoiceSwallowed, InvoiceTypes
  <2>4. SetRow(e.sub, e.status)
    BY <2>3 DEF SyncRow, SyncUpdate, InsertFromStripeEvent, InsertRow, SubOfJob
  <2>5. row \in [Subs -> Status \cup {"none"}]
    BY <1>1 DEF IInv, TypeOK
  <2>6. QED
    BY <2>2, <2>4, <2>5 DEF SetRow, Status, Live
<1>2. IInv => Heals
  BY <1>1
<1>3. IInv /\ [Next]_vars => [Heals]_vars
  BY <1>2
<1>4. QED
  BY <1>3, Invariance, PTL DEF Spec, SnapshotLeavesRow
===============================================================================
