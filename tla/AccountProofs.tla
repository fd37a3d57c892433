------------------------------ MODULE AccountProofs ------------------------------
(***************************************************************************)
(* Proofs about what is kept of a user: the saved payment methods,         *)
(* PaymentMethods, and the customer, Customers, for any payment methods,   *)
(* requests and calls, and any bounds.                                     *)
(***************************************************************************)
EXTENDS PaymentMethods, Customers, TLAPS

--------------------------------------------------------------------------------
(* PaymentMethods: the inductive invariant.                                   *)

\* Only what was attached is reported, and a detachment is final.
SentIsTrue ==
  \A e \in 1..Len(sent) :
    /\ card[sent[e].pm].at # "new"
    /\ sent[e].kind = "detached" => card[sent[e].pm].at = "detached"

\* A row has a number, or there is none.
RowsNumbered == \A p \in PMs : row[p] = NoRow \/ row[p].id # 0

\* Events that were sent have a job, and a job that is not over has an attempt left.
JobsCounted ==
  \A e \in Events : /\ job[e] = "none" <=> e > Len(sent)
                    /\ job[e] \in {"none", "queued", "active"} => tries[e] < MaxAttempts

\* A worker is at a step of the event that it works on; the row that it has seen is
\* there until the payment method is detached.
WorkerFits(w) ==
  /\ step[w] \in WorkerSteps
  /\ task[w] \in 1..Len(sent) /\ job[task[w]] = "active"
  /\ step[w] = "retrieve" => sent[task[w]].kind = "mandate"
  /\ step[w] \in {"find", "delete"} <=> sent[task[w]].kind = "detached"
  /\ step[w] = "upsert" /\ seen[w] # 0 => row[Of(w)] # NoRow \/ card[Of(w)].at = "detached"

WorkersFit == \A w \in Workers : step[w] # "idle" => WorkerFits(w)

\* No two workers have one job.
JobsApart ==
  \A v, w \in Workers : step[v] # "idle" /\ step[w] # "idle" /\ task[v] = task[w] => v = w

\* A request is about a row that it has found, and deletes it only after the detachment.
RequestFits(r) ==
  /\ step[r] \in DefaultSteps \cup DetachSteps
  /\ task[r] \in PMs /\ seen[r] # 0
  /\ step[r] = "delete by id" => card[task[r]].at = "detached"

RequestsFit == \A r \in Requests : step[r] \notin {"idle", "over"} => RequestFits(r)

Frame ==
  /\ TypeOK /\ SentIsTrue /\ RowsNumbered /\ JobsCounted
  /\ WorkersFit /\ JobsApart /\ RequestsFit

\* Unless two were there at once, a request that is about to set the default is the only
\* one, and there is none now.
SetsAlone ==
  raced \/ \A r \in Requests : step[r] = "set" =>
             /\ \A q \in Requests : step[q] = "set" => q = r
             /\ \A p \in PMs : ~ row[p].isDefault

IInv == Frame /\ SetsAlone /\ OneDefaultUnlessRaced /\ HandledIsListed

--------------------------------------------------------------------------------
(* PaymentMethods: what the helpers of the actions do.                        *)

\* The two workers are no requests, and every step of theirs is a step.
LEMMA ActorsApart ==
  /\ Workers \subseteq Actors /\ Requests \subseteq Actors
  /\ \A w \in Workers, r \in Requests : w # r
  BY SetsAssumption DEF Actors

\* The names of the steps are steps.
LEMMA StepNames ==
  /\ WorkerSteps \subseteq ActorSteps /\ DefaultSteps \subseteq ActorSteps
  /\ DetachSteps \subseteq ActorSteps
  /\ {"idle", "over"} \cap WorkerSteps = {}
  /\ {"idle", "over"} \cap (DefaultSteps \cup DetachSteps) = {}
  BY DEF ActorSteps, WorkerSteps, DefaultSteps, DetachSteps

\* The names of the steps and of the states of a job that the actions write.
LEMMA NamesFit ==
  /\ "idle" \in ActorSteps /\ "customer" \in ActorSteps /\ "select" \in ActorSteps
  /\ "upsert" \in ActorSteps /\ "delete" \in ActorSteps /\ "tell" \in ActorSteps
  /\ "clear" \in ActorSteps /\ "set" \in ActorSteps /\ "detach" \in ActorSteps
  /\ "find default" \in ActorSteps /\ "find detach" \in ActorSteps
  /\ "delete by id" \in ActorSteps /\ "over" \in ActorSteps
  /\ "done" \in JobState /\ "queued" \in JobState
  /\ "active" \in JobState
  BY DEF ActorSteps, WorkerSteps, DefaultSteps, DetachSteps, JobState

\* A row whose columns are changed within their types is a row.
LEMMA RowStays ==
  ASSUME TypeOK, NEW p \in PMs, NEW v \in Nat, NEW d \in BOOLEAN
  PROVE  /\ [row EXCEPT ![p].version = v]
                \in [PMs -> [id : 0..MaxRows, version : Nat, isDefault : BOOLEAN]]
         /\ [row EXCEPT ![p].isDefault = d]
                \in [PMs -> [id : 0..MaxRows, version : Nat, isDefault : BOOLEAN]]
         /\ [row EXCEPT ![p] = NoRow]
                \in [PMs -> [id : 0..MaxRows, version : Nat, isDefault : BOOLEAN]]
<1>1. row \in [PMs -> [id : 0..MaxRows, version : Nat, isDefault : BOOLEAN]]
  BY DEF TypeOK
<1>2. 0 \in 0..MaxRows /\ 0 \in Nat
  BY BoundsAssumption
<1>3. QED
  BY <1>1, <1>2 DEF NoRow

\* An event that Stripe sends comes after the others, and gets a job.
LEMMA SendsOne ==
  ASSUME TypeOK, NEW k \in Kinds, NEW p \in PMs, NEW v \in Nat, Sends(k, p, v)
  PROVE  /\ sent' \in Seq(Event) /\ Len(sent') = Len(sent) + 1 /\ Len(sent') <= MaxEvents
         /\ \A e \in 1..Len(sent) : sent'[e] = sent[e]
         /\ sent'[Len(sent')] = [kind |-> k, pm |-> p, version |-> v]
         /\ Len(sent') \in Events
         /\ job' = [job EXCEPT ![Len(sent')] = "queued"]
         /\ job' \in [Events -> JobState]
         /\ tries' = tries /\ dropped' = dropped
<1>1. [kind |-> k, pm |-> p, version |-> v] \in Event
  BY DEF Event
<1>2. sent \in Seq(Event) /\ Len(sent) < MaxEvents /\ MaxEvents \in Nat
  BY BoundsAssumption DEF TypeOK, Sends
<1>3. /\ sent' \in Seq(Event) /\ Len(sent') = Len(sent) + 1 /\ Len(sent') <= MaxEvents
      /\ \A e \in 1..Len(sent) : sent'[e] = sent[e]
      /\ sent'[Len(sent')] = [kind |-> k, pm |-> p, version |-> v]
      /\ Len(sent') \in Events
  BY <1>1, <1>2 DEF Sends, Events
<1>4. job' = [job EXCEPT ![Len(sent')] = "queued"] /\ tries' = tries /\ dropped' = dropped
  BY <1>3 DEF Sends
<1>5. QED
  BY <1>3, <1>4 DEF TypeOK, JobState

\* A worker at a step has an event that was sent, whose job is active.
LEMMA WorkerKnown ==
  ASSUME TypeOK, JobsCounted, WorkersFit, NEW w \in Workers, step[w] # "idle"
  PROVE  /\ task[w] \in 1..Len(sent) /\ task[w] \in Events /\ sent[task[w]] \in Event
         /\ Of(w) \in PMs /\ job[task[w]] = "active" /\ tries[task[w]] < MaxAttempts
         /\ step[w] \in WorkerSteps
<1>1. task[w] \in 1..Len(sent) /\ job[task[w]] = "active" /\ step[w] \in WorkerSteps
  BY DEF WorkersFit, WorkerFits
<1>2. task[w] \in Events /\ sent[task[w]] \in Event
  BY <1>1, BoundsAssumption DEF TypeOK, Events
<1>3. QED
  BY <1>1, <1>2 DEF JobsCounted, Of, Event

\* A worker that leaves its job forgets what it had.
LEMMA LeaveTyped ==
  ASSUME TypeOK, NEW w \in Workers, NEW s \in JobState, Leave(w, s)
  PROVE  /\ step' \in [Actors -> ActorSteps] /\ job' \in [Events -> JobState]
         /\ task' \in [Actors -> Events \cup PMs \cup {0}]
         /\ seen' \in [Actors -> 0..MaxRows] /\ data' \in [Workers -> Nat]
<1>1. 0 \in 0..MaxRows /\ 0 \in Nat
  BY BoundsAssumption
<1>2. QED
  BY <1>1, NamesFit DEF TypeOK, Leave, GoTo

\* An attempt that throws is counted, and the job is queued or dead.
LEMMA ThrowsIs ==
  ASSUME TypeOK, JobsCounted, WorkersFit, NEW w \in Workers, step[w] # "idle", Throws(w)
  PROVE  /\ tries' = [tries EXCEPT ![task[w]] = tries[task[w]] + 1]
         /\ tries' \in [Events -> 0..MaxAttempts] /\ dropped' = dropped
         /\ \E s \in JobState : /\ Leave(w, s) /\ s \in {"queued", "dead"}
                                /\ s = "queued" => tries'[task[w]] < MaxAttempts
<1>1. task[w] \in Events /\ tries[task[w]] < MaxAttempts
  BY WorkerKnown
<1>2. tries \in [Events -> 0..MaxAttempts] /\ MaxAttempts \in Nat
  BY BoundsAssumption DEF TypeOK
<1>3. tries[task[w]] + 1 \in 0..MaxAttempts
  BY <1>1, <1>2
<1>4. /\ tries' = [tries EXCEPT ![task[w]] = tries[task[w]] + 1]
      /\ tries' \in [Events -> 0..MaxAttempts]
      /\ tries'[task[w]] = tries[task[w]] + 1 /\ dropped' = dropped
  BY <1>1, <1>2, <1>3 DEF Throws
<1>5. "queued" \in JobState /\ "dead" \in JobState
  BY DEF JobState
<1>6. QED
  BY <1>4, <1>5 DEF Throws

\* A request that is over forgets what it had.
LEMMA OverTyped ==
  ASSUME TypeOK, NEW r \in Requests, Over(r)
  PROVE  /\ step' \in [Actors -> ActorSteps]
         /\ task' \in [Actors -> Events \cup PMs \cup {0}]
         /\ seen' \in [Actors -> 0..MaxRows]
<1>1. 0 \in 0..MaxRows
  BY BoundsAssumption
<1>2. QED
  BY <1>1, NamesFit DEF TypeOK, Over, GoTo

\* The types are kept.
LEMMA StepTyped ==
  ASSUME TypeOK, JobsCounted, WorkersFit, RequestsFit, [Next]_vars
  PROVE  TypeOK'
<1> USE DEF TypeOK, stripeVars, jobVars, rowVars, actorVars
<1>1. ASSUME NEW p \in PMs, Attached(p)
      PROVE  TypeOK'
  <2>1. card[p].version \in Nat /\ card[p].version + 1 \in Nat /\ "attached" \in Kinds
    BY DEF Kinds
  <2>2. card' \in [PMs -> [at : {"new", "attached", "detached"}, version : Nat]]
    BY <1>1, <2>1 DEF Attached
  <2>3. QED
    BY <1>1, <2>1, <2>2, SendsOne DEF Attached
<1>2. ASSUME NEW p \in PMs, Updated(p, "updated")
      PROVE  TypeOK'
  <2>1. card[p].version \in Nat /\ card[p].version + 1 \in Nat /\ "updated" \in Kinds
    BY DEF Kinds
  <2>2. card' \in [PMs -> [at : {"new", "attached", "detached"}, version : Nat]]
    BY <1>2, <2>1 DEF Updated
  <2>3. QED
    BY <1>2, <2>1, <2>2, SendsOne DEF Updated
<1>3. ASSUME NEW p \in PMs, Updated(p, "mandate")
      PROVE  TypeOK'
  <2>1. card[p].version \in Nat /\ card[p].version + 1 \in Nat /\ "mandate" \in Kinds
    BY DEF Kinds
  <2>2. card' \in [PMs -> [at : {"new", "attached", "detached"}, version : Nat]]
    BY <1>3, <2>1 DEF Updated
  <2>3. QED
    BY <1>3, <2>1, <2>2, SendsOne DEF Updated
<1>4. ASSUME NEW p \in PMs, DetachedElsewhere(p)
      PROVE  TypeOK'
  <2>1. card[p].version \in Nat /\ card[p].version + 1 \in Nat /\ "detached" \in Kinds
    BY DEF Kinds
  <2>2. card' \in [PMs -> [at : {"new", "attached", "detached"}, version : Nat]]
    BY <1>4, <2>1 DEF DetachedElsewhere, Detaches
  <2>3. QED
    BY <1>4, <2>1, <2>2, SendsOne DEF DetachedElsewhere, Detaches
<1>5. CASE CustomerInserted
  BY <1>5 DEF CustomerInserted
<1>6. ASSUME NEW w \in Workers, NEW e \in Events, Take(w, e)
      PROVE  TypeOK'
  <2>1. e \in 1..Len(sent) /\ sent[e] \in Event
    BY <1>6, BoundsAssumption DEF Take, JobsCounted, Events
  <2>2. FirstStep(sent[e].kind) \in ActorSteps
    BY <2>1 DEF Event, Kinds, FirstStep, ActorSteps, WorkerSteps
  <2>3. ExtractPmFields(sent[e]) \in Nat /\ 0 \in Nat
    BY <2>1 DEF Event, ExtractPmFields
  <2>4. QED
    BY <1>6, <2>2, <2>3, NamesFit, ActorsApart DEF Take, GoTo
<1>7. ASSUME NEW w \in Workers, Retrieve(w)
      PROVE  TypeOK'
  <2>1. step[w] # "idle"
    BY <1>7 DEF Retrieve
  <2>2. Of(w) \in PMs
    BY <2>1, WorkerKnown
  <2>3. CASE card[Of(w)].at = "attached"
    BY NamesFit, <1>7, <2>2, <2>3, ActorsApart DEF Retrieve, GoTo, ExtractPmFields
  <2>4. CASE Succeeds(w) /\ UNCHANGED <<stripeVars, known, rowVars, raced>>
    BY NamesFit, <2>4, LeaveTyped DEF Succeeds
  <2>5. QED
    BY <1>7, <2>3, <2>4 DEF Retrieve
<1>8. ASSUME NEW w \in Workers, Customer(w)
      PROVE  TypeOK'
  <2>1. step[w] # "idle"
    BY <1>8 DEF Customer
  <2>2. CASE GoTo(w, "select") /\ UNCHANGED <<jobVars, task, seen, data>>
    BY NamesFit, <1>8, <2>2, ActorsApart DEF Customer, GoTo
  <2>3. CASE NotFoundInApi(w)
    <3>1. dropped' \subseteq Events
      BY <2>1, <2>3, WorkerKnown DEF NotFoundInApi
    <3>2. QED
      BY NamesFit, <1>8, <2>3, <3>1, LeaveTyped DEF Customer, NotFoundInApi
  <2>4. CASE UnknownInWebhooks(w)
    BY NamesFit, <1>8, <2>1, <2>4, LeaveTyped, ThrowsIs DEF Customer, UnknownInWebhooks
  <2>5. QED
    BY <1>8, <2>2, <2>3, <2>4 DEF Customer
<1>9. ASSUME NEW w \in Workers, Select(w)
      PROVE  TypeOK'
  <2>1. step[w] # "idle"
    BY <1>9 DEF Select
  <2>2. Of(w) \in PMs
    BY <2>1, WorkerKnown
  <2>3. QED
    BY NamesFit, <1>9, <2>2, ActorsApart DEF Select, GoTo
<1>10. ASSUME NEW w \in Workers, Upsert(w)
      PROVE  TypeOK'
  <2>1. step[w] # "idle"
    BY <1>10 DEF Upsert
  <2>2. Of(w) \in PMs
    BY <2>1, WorkerKnown
  <2>3. CASE UpdateFields(w)
    <3>1. (IF row[Of(w)].id = seen[w] THEN data[w] ELSE row[Of(w)].version) \in Nat
      BY <2>2
    <3>2. row' \in [PMs -> [id : 0..MaxRows, version : Nat, isDefault : BOOLEAN]]
      BY <2>2, <2>3, <3>1, RowStays DEF UpdateFields
    <3>3. QED
      BY NamesFit, <1>10, <2>3, <3>2, LeaveTyped DEF UpdateFields, Succeeds, Upsert
  <2>4. CASE InsertNew(w) /\ row[Of(w)] = NoRow
    <3>1. made[Of(w)] + 1 \in 0..MaxRows
      BY <2>2, <2>4, BoundsAssumption DEF InsertNew
    <3>2. [id |-> made[Of(w)] + 1, version |-> data[w], isDefault |-> FALSE]
            \in [id : 0..MaxRows, version : Nat, isDefault : BOOLEAN]
      BY <3>1
    <3>3. row' \in [PMs -> [id : 0..MaxRows, version : Nat, isDefault : BOOLEAN]]
      BY <2>2, <2>4, <3>2 DEF InsertNew
    <3>4. made' \in [PMs -> 0..MaxRows]
      BY <2>2, <2>4, <3>1 DEF InsertNew
    <3>5. QED
      BY NamesFit, <1>10, <2>4, <3>3, <3>4, LeaveTyped DEF InsertNew, Succeeds, Upsert
  <2>5. CASE Throws(w) /\ UNCHANGED rowVars
    BY NamesFit, <1>10, <2>1, <2>5, LeaveTyped, ThrowsIs DEF Upsert
  <2>6. QED
    BY <1>10, <2>3, <2>4, <2>5 DEF Upsert, InsertNew
<1>11. ASSUME NEW w \in Workers, FindByStripeId(w)
      PROVE  TypeOK'
  <2>1. step[w] # "idle"
    BY <1>11 DEF FindByStripeId
  <2>2. Of(w) \in PMs
    BY <2>1, WorkerKnown
  <2>3. CASE Succeeds(w) /\ UNCHANGED <<stripeVars, known, rowVars, raced>>
    BY NamesFit, <2>3, LeaveTyped DEF Succeeds
  <2>4. CASE row[Of(w)] # NoRow
    BY NamesFit, <1>11, <2>2, <2>4, ActorsApart DEF FindByStripeId, GoTo
  <2>5. QED
    BY <1>11, <2>3, <2>4 DEF FindByStripeId
<1>12. ASSUME NEW w \in Workers, RemoveByStripeId(w)
      PROVE  TypeOK'
  <2>1. step[w] # "idle"
    BY <1>12 DEF RemoveByStripeId
  <2>2. Of(w) \in PMs
    BY <2>1, WorkerKnown
  <2>3. row' \in [PMs -> [id : 0..MaxRows, version : Nat, isDefault : BOOLEAN]]
    BY <1>12, <2>2, RowStays DEF RemoveByStripeId, DeleteById
  <2>4. QED
    BY NamesFit, <1>12, <2>3, LeaveTyped DEF RemoveByStripeId, Succeeds
<1>13. ASSUME NEW w \in Workers, WorkerFails(w)
      PROVE  TypeOK'
  BY NamesFit, <1>13, LeaveTyped, ThrowsIs DEF WorkerFails
<1>14. ASSUME NEW r \in Requests, NEW p \in PMs, Begin(r, p, "find default")
      PROVE  TypeOK'
  BY NamesFit, <1>14, ActorsApart DEF Begin, GoTo
<1>15. ASSUME NEW r \in Requests, NEW p \in PMs, Begin(r, p, "find detach")
      PROVE  TypeOK'
  BY NamesFit, <1>15, ActorsApart DEF Begin, GoTo
<1>16. ASSUME NEW r \in Requests, Found(r, "find default", "tell")
      PROVE  TypeOK'
  BY NamesFit, <1>16, ActorsApart, OverTyped DEF Found, GoTo
<1>17. ASSUME NEW r \in Requests, Found(r, "find detach", "detach")
      PROVE  TypeOK'
  BY NamesFit, <1>17, ActorsApart, OverTyped DEF Found, GoTo
<1>18. ASSUME NEW r \in Requests, Tell(r)
      PROVE  TypeOK'
  BY NamesFit, <1>18, ActorsApart, OverTyped DEF Tell, GoTo
<1>19. ASSUME NEW r \in Requests, Clear(r)
      PROVE  TypeOK'
  BY NamesFit, <1>19, ActorsApart DEF Clear, Cleared, GoTo
<1>20. ASSUME NEW r \in Requests, SetDefault(r)
      PROVE  TypeOK'
  <2>1. row' \in [PMs -> [id : 0..MaxRows, version : Nat, isDefault : BOOLEAN]]
    BY <1>20 DEF SetDefault
  <2>2. QED
    BY <1>20, <2>1, OverTyped DEF SetDefault
<1>21. ASSUME NEW r \in Requests, Detach(r)
      PROVE  TypeOK'
  <2>1. task[r] \in PMs
    BY <1>21 DEF Detach, RequestsFit, RequestFits
  <2>2. card[task[r]].version \in Nat /\ "detached" \in Kinds
    BY <2>1 DEF Kinds
  <2>3. card' \in [PMs -> [at : {"new", "attached", "detached"}, version : Nat]]
    BY <1>21, <2>1 DEF Detach, Detaches
  <2>4. QED
    BY NamesFit, <1>21, <2>1, <2>2, <2>3, SendsOne, ActorsApart DEF Detach, Detaches, GoTo
<1>22. ASSUME NEW r \in Requests, DeleteRow(r)
      PROVE  TypeOK'
  <2>1. task[r] \in PMs
    BY <1>22 DEF DeleteRow, RequestsFit, RequestFits
  <2>2. row' \in [PMs -> [id : 0..MaxRows, version : Nat, isDefault : BOOLEAN]]
    BY <1>22, <2>1, RowStays DEF DeleteRow, DeleteById
  <2>3. QED
    BY <1>22, <2>2, OverTyped DEF DeleteRow
<1>23. ASSUME NEW r \in Requests, RequestFails(r)
      PROVE  TypeOK'
  BY <1>23, OverTyped DEF RequestFails
<1>24. CASE UNCHANGED vars
  BY <1>24 DEF vars
<1>25. QED
  BY <1>1, <1>2, <1>3, <1>4, <1>5, <1>6, <1>7, <1>8, <1>9, <1>10, <1>11, <1>12, <1>13,
     <1>14, <1>15, <1>16, <1>17, <1>18, <1>19, <1>20, <1>21, <1>22, <1>23, <1>24
     DEF Next, StripeMoves, Works, Serves

\* What happens to payment method p when Stripe reports an event of this kind.
Reported(kind, p) ==
  /\ card[p].at = IF kind = "attached" THEN "new" ELSE "attached"
  /\ card'[p].at = IF kind = "detached" THEN "detached" ELSE "attached"
  /\ \A q \in PMs \ {p} : card'[q] = card[q]

Reports ==
  \E kind \in Kinds, p \in PMs, version \in Nat :
    Sends(kind, p, version) /\ Reported(kind, p) /\ UNCHANGED <<known, rowVars, raced>>

\* Nothing changes at Stripe without a report.
LEMMA StepStripe ==
  ASSUME TypeOK, RequestsFit, [Next]_vars
  PROVE  Reports \/ UNCHANGED stripeVars
<1>0. card \in [PMs -> [at : {"new", "attached", "detached"}, version : Nat]]
  BY DEF TypeOK
<1>1. ASSUME NEW p \in PMs, Attached(p)
      PROVE  Reports \/ UNCHANGED stripeVars
  <2>1. card[p].version \in Nat /\ "attached" \in Kinds
    BY <1>0 DEF Kinds
  <2>2. Sends("attached", p, card[p].version) /\ UNCHANGED <<known, rowVars, raced>>
    BY <1>1 DEF Attached
  <2>3. Reported("attached", p)
    BY <1>0, <1>1 DEF Attached, Reported
  <2>4. QED
    BY <2>1, <2>2, <2>3 DEF Reports
<1>2. ASSUME NEW p \in PMs, Updated(p, "updated")
      PROVE  Reports \/ UNCHANGED stripeVars
  <2>1. card[p].version + 1 \in Nat /\ "updated" \in Kinds
    BY <1>0 DEF Kinds
  <2>2. Sends("updated", p, card[p].version + 1) /\ UNCHANGED <<known, rowVars, raced>>
    BY <1>2 DEF Updated
  <2>3. Reported("updated", p)
    BY <1>0, <1>2 DEF Updated, Reported
  <2>4. QED
    BY <2>1, <2>2, <2>3 DEF Reports
<1>3. ASSUME NEW p \in PMs, Updated(p, "mandate")
      PROVE  Reports \/ UNCHANGED stripeVars
  <2>1. card[p].version + 1 \in Nat /\ "mandate" \in Kinds
    BY <1>0 DEF Kinds
  <2>2. Sends("mandate", p, card[p].version + 1) /\ UNCHANGED <<known, rowVars, raced>>
    BY <1>3 DEF Updated
  <2>3. Reported("mandate", p)
    BY <1>0, <1>3 DEF Updated, Reported
  <2>4. QED
    BY <2>1, <2>2, <2>3 DEF Reports
<1>4. ASSUME NEW p \in PMs, DetachedElsewhere(p)
      PROVE  Reports \/ UNCHANGED stripeVars
  <2>1. card[p].version \in Nat /\ "detached" \in Kinds
    BY <1>0 DEF Kinds
  <2>2. Sends("detached", p, card[p].version) /\ UNCHANGED <<known, rowVars, raced>>
    BY <1>4 DEF DetachedElsewhere, Detaches
  <2>3. Reported("detached", p)
    BY <1>0, <1>4 DEF DetachedElsewhere, Detaches, Reported
  <2>4. QED
    BY <2>1, <2>2, <2>3 DEF Reports
<1>5. CASE CustomerInserted
  BY <1>5 DEF CustomerInserted
<1>6. ASSUME NEW w \in Workers, NEW e \in Events, Take(w, e)
      PROVE  Reports \/ UNCHANGED stripeVars
  BY <1>6 DEF Take
<1>7. ASSUME NEW w \in Workers, Retrieve(w)
      PROVE  Reports \/ UNCHANGED stripeVars
  BY <1>7 DEF Retrieve
<1>8. ASSUME NEW w \in Workers, Customer(w)
      PROVE  Reports \/ UNCHANGED stripeVars
  BY <1>8 DEF Customer
<1>9. ASSUME NEW w \in Workers, Select(w)
      PROVE  Reports \/ UNCHANGED stripeVars
  BY <1>9 DEF Select
<1>10. ASSUME NEW w \in Workers, Upsert(w)
      PROVE  Reports \/ UNCHANGED stripeVars
  BY <1>10 DEF Upsert
<1>11. ASSUME NEW w \in Workers, FindByStripeId(w)
      PROVE  Reports \/ UNCHANGED stripeVars
  BY <1>11 DEF FindByStripeId
<1>12. ASSUME NEW w \in Workers, RemoveByStripeId(w)
      PROVE  Reports \/ UNCHANGED stripeVars
  BY <1>12 DEF RemoveByStripeId
<1>13. ASSUME NEW w \in Workers, WorkerFails(w)
      PROVE  Reports \/ UNCHANGED stripeVars
  BY <1>13 DEF WorkerFails
<1>14. ASSUME NEW r \in Requests, NEW p \in PMs, Begin(r, p, "find default")
      PROVE  Reports \/ UNCHANGED stripeVars
  BY <1>14 DEF Begin
<1>15. ASSUME NEW r \in Requests, NEW p \in PMs, Begin(r, p, "find detach")
      PROVE  Reports \/ UNCHANGED stripeVars
  BY <1>15 DEF Begin
<1>16. ASSUME NEW r \in Requests, Found(r, "find default", "tell")
      PROVE  Reports \/ UNCHANGED stripeVars
  BY <1>16 DEF Found
<1>17. ASSUME NEW r \in Requests, Found(r, "find detach", "detach")
      PROVE  Reports \/ UNCHANGED stripeVars
  BY <1>17 DEF Found
<1>18. ASSUME NEW r \in Requests, Tell(r)
      PROVE  Reports \/ UNCHANGED stripeVars
  BY <1>18 DEF Tell
<1>19. ASSUME NEW r \in Requests, Clear(r)
      PROVE  Reports \/ UNCHANGED stripeVars
  BY <1>19 DEF Clear
<1>20. ASSUME NEW r \in Requests, SetDefault(r)
      PROVE  Reports \/ UNCHANGED stripeVars
  BY <1>20 DEF SetDefault
<1>21. ASSUME NEW r \in Requests, Detach(r)
      PROVE  Reports \/ UNCHANGED stripeVars
  <2>0. task[r] \in PMs
    BY <1>21 DEF Detach, RequestsFit, RequestFits
  <2>1. card[task[r]].version \in Nat /\ "detached" \in Kinds
    BY <2>0, <1>0 DEF Kinds
  <2>2. Sends("detached", task[r], card[task[r]].version)
        /\ UNCHANGED <<known, rowVars, raced>>
    BY <1>21 DEF Detach, Detaches
  <2>3. Reported("detached", task[r])
    BY <2>0, <1>0, <1>21 DEF Detach, Detaches, Reported
  <2>4. QED
    BY <2>0, <2>1, <2>2, <2>3 DEF Reports
<1>22. ASSUME NEW r \in Requests, DeleteRow(r)
      PROVE  Reports \/ UNCHANGED stripeVars
  BY <1>22 DEF DeleteRow
<1>23. ASSUME NEW r \in Requests, RequestFails(r)
      PROVE  Reports \/ UNCHANGED stripeVars
  BY <1>23 DEF RequestFails
<1>24. CASE UNCHANGED vars
  BY <1>24 DEF vars
<1>25. QED
  BY <1>1, <1>2, <1>3, <1>4, <1>5, <1>6, <1>7, <1>8, <1>9, <1>10, <1>11, <1>12, <1>13,
     <1>14, <1>15, <1>16, <1>17, <1>18, <1>19, <1>20, <1>21, <1>22, <1>23, <1>24
     DEF Next, StripeMoves, Works, Serves

\* The events stay what they were, and no payment method is new or attached again.
ReportsStay ==
  /\ Len(sent) <= Len(sent')
  /\ \A e \in 1..Len(sent) : e \in 1..Len(sent') /\ sent'[e] = sent[e]
  /\ \A p \in PMs : card[p].at # "new" => card'[p].at # "new"
  /\ \A p \in PMs : card[p].at = "detached" => card'[p].at = "detached"

\* Stripe takes back no event.
LEMMA StepReports ==
  ASSUME TypeOK, RequestsFit, [Next]_vars
  PROVE  ReportsStay
<1>0. sent \in Seq(Event)
  BY DEF TypeOK
<1>1. CASE Reports
  <2>1. PICK k \in Kinds, p \in PMs, v \in Nat : Sends(k, p, v) /\ Reported(k, p)
    BY <1>1 DEF Reports
  <2>2. Len(sent') = Len(sent) + 1 /\ \A e \in 1..Len(sent) : sent'[e] = sent[e]
    BY <2>1, SendsOne
  <2>3. QED
    BY <1>0, <2>1, <2>2 DEF Reported, ReportsStay
<1>2. CASE UNCHANGED stripeVars
  BY <1>0, <1>2 DEF ReportsStay, stripeVars
<1>3. QED
  BY <1>1, <1>2, StepStripe

\* What is reported has happened.
LEMMA StepSent ==
  ASSUME TypeOK, SentIsTrue, RequestsFit, [Next]_vars
  PROVE  SentIsTrue'
<1>0. sent \in Seq(Event) /\ ReportsStay
  BY StepReports DEF TypeOK
<1>1. ASSUME NEW e \in 1..Len(sent)
      PROVE  /\ card'[sent'[e].pm].at # "new"
             /\ sent'[e].kind = "detached" => card'[sent'[e].pm].at = "detached"
  <2>1. sent[e] \in Event /\ sent'[e] = sent[e]
    BY <1>0 DEF ReportsStay
  <2>2. sent[e].pm \in PMs
    BY <2>1 DEF Event
  <2>3. QED
    BY <1>0, <2>1, <2>2 DEF ReportsStay, SentIsTrue
<1>2. CASE Reports
  <2>1. PICK k \in Kinds, p \in PMs, v \in Nat : Sends(k, p, v) /\ Reported(k, p)
    BY <1>2 DEF Reports
  <2>2. Len(sent') = Len(sent) + 1
        /\ sent'[Len(sent')] = [kind |-> k, pm |-> p, version |-> v]
    BY <2>1, SendsOne
  <2>3. /\ card'[sent'[Len(sent')].pm].at # "new"
        /\ sent'[Len(sent')].kind = "detached"
             => card'[sent'[Len(sent')].pm].at = "detached"
    BY <2>1, <2>2 DEF Reported
  <2>4. QED
    BY <1>0, <1>1, <2>2, <2>3 DEF SentIsTrue
<1>3. CASE UNCHANGED stripeVars
  BY <1>3 DEF SentIsTrue, stripeVars
<1>4. QED
  BY <1>2, <1>3, StepStripe

\* A row is deleted only once its payment method is detached.
RowsLeave ==
  \A p \in PMs : row[p] # NoRow => row'[p] # NoRow \/ card[p].at = "detached"

\* Rows keep a number, and go only after a detachment.
LEMMA StepRows ==
  ASSUME TypeOK, SentIsTrue, RowsNumbered, JobsCounted, WorkersFit, RequestsFit, [Next]_vars
  PROVE  RowsNumbered' /\ RowsLeave
<1> USE DEF RowsLeave, rowVars
<1>0. row \in [PMs -> [id : 0..MaxRows, version : Nat, isDefault : BOOLEAN]]
  BY DEF TypeOK
<1>a. UNCHANGED rowVars => RowsNumbered' /\ RowsLeave
  BY <1>0 DEF rowVars, RowsNumbered
<1>1. ASSUME NEW p \in PMs, Attached(p)
      PROVE  RowsNumbered' /\ RowsLeave
  BY <1>a, <1>1 DEF Attached
<1>2. ASSUME NEW p \in PMs, Updated(p, "updated")
      PROVE  RowsNumbered' /\ RowsLeave
  BY <1>a, <1>2 DEF Updated
<1>3. ASSUME NEW p \in PMs, Updated(p, "mandate")
      PROVE  RowsNumbered' /\ RowsLeave
  BY <1>a, <1>3 DEF Updated
<1>4. ASSUME NEW p \in PMs, DetachedElsewhere(p)
      PROVE  RowsNumbered' /\ RowsLeave
  BY <1>a, <1>4 DEF DetachedElsewhere
<1>5. CASE CustomerInserted
  BY <1>a, <1>5 DEF CustomerInserted
<1>6. ASSUME NEW w \in Workers, NEW e \in Events, Take(w, e)
      PROVE  RowsNumbered' /\ RowsLeave
  BY <1>a, <1>6 DEF Take
<1>7. ASSUME NEW w \in Workers, Retrieve(w)
      PROVE  RowsNumbered' /\ RowsLeave
  BY <1>a, <1>7 DEF Retrieve
<1>8. ASSUME NEW w \in Workers, Customer(w)
      PROVE  RowsNumbered' /\ RowsLeave
  BY <1>a, <1>8 DEF Customer
<1>9. ASSUME NEW w \in Workers, Select(w)
      PROVE  RowsNumbered' /\ RowsLeave
  BY <1>a, <1>9 DEF Select
<1>10. ASSUME NEW w \in Workers, Upsert(w)
      PROVE  RowsNumbered' /\ RowsLeave
  <2>1. step[w] # "idle"
    BY <1>10 DEF Upsert
  <2>2. Of(w) \in PMs
    BY <2>1, WorkerKnown
  <2>3. CASE UpdateFields(w)
    BY <1>0, <2>2, <2>3 DEF UpdateFields, RowsNumbered, NoRow
  <2>4. CASE InsertNew(w) /\ row[Of(w)] = NoRow
    <3>1. made[Of(w)] + 1 # 0
      BY <2>2 DEF TypeOK
    <3>2. QED
      BY <1>0, <2>2, <2>4, <3>1 DEF InsertNew, RowsNumbered, NoRow
  <2>5. CASE UNCHANGED rowVars
    BY <1>a, <2>5
  <2>6. QED
    BY <1>10, <2>3, <2>4, <2>5 DEF Upsert, InsertNew
<1>11. ASSUME NEW w \in Workers, FindByStripeId(w)
      PROVE  RowsNumbered' /\ RowsLeave
  BY <1>a, <1>11 DEF FindByStripeId
<1>12. ASSUME NEW w \in Workers, RemoveByStripeId(w)
      PROVE  RowsNumbered' /\ RowsLeave
  <2>1. step[w] # "idle" /\ step[w] \in {"find", "delete"}
    BY <1>12 DEF RemoveByStripeId
  <2>2. Of(w) \in PMs /\ task[w] \in 1..Len(sent) /\ sent[task[w]].kind = "detached"
    BY <2>1, WorkerKnown DEF WorkersFit, WorkerFits
  <2>3. card[Of(w)].at = "detached"
    BY <2>2 DEF SentIsTrue, Of
  <2>4. QED
    BY <1>0, <2>2, <2>3, <1>12 DEF RemoveByStripeId, DeleteById, RowsNumbered
<1>13. ASSUME NEW w \in Workers, WorkerFails(w)
      PROVE  RowsNumbered' /\ RowsLeave
  BY <1>a, <1>13 DEF WorkerFails
<1>14. ASSUME NEW r \in Requests, NEW p \in PMs, Begin(r, p, "find default")
      PROVE  RowsNumbered' /\ RowsLeave
  BY <1>a, <1>14 DEF Begin
<1>15. ASSUME NEW r \in Requests, NEW p \in PMs, Begin(r, p, "find detach")
      PROVE  RowsNumbered' /\ RowsLeave
  BY <1>a, <1>15 DEF Begin
<1>16. ASSUME NEW r \in Requests, Found(r, "find default", "tell")
      PROVE  RowsNumbered' /\ RowsLeave
  BY <1>a, <1>16 DEF Found
<1>17. ASSUME NEW r \in Requests, Found(r, "find detach", "detach")
      PROVE  RowsNumbered' /\ RowsLeave
  BY <1>a, <1>17 DEF Found
<1>18. ASSUME NEW r \in Requests, Tell(r)
      PROVE  RowsNumbered' /\ RowsLeave
  BY <1>a, <1>18 DEF Tell
<1>19. ASSUME NEW r \in Requests, Clear(r)
      PROVE  RowsNumbered' /\ RowsLeave
  <2>1. \A p \in PMs : /\ row'[p] = [row[p] EXCEPT !.isDefault = FALSE]
                        /\ row'[p].id = row[p].id
    BY <1>0, <1>19 DEF Clear, Cleared
  <2>2. \A p \in PMs : row[p] = NoRow => row'[p] = NoRow
    BY <1>0, <2>1 DEF NoRow
  <2>3. NoRow.id = 0
    BY DEF NoRow
  <2>4. QED
    BY <1>0, <2>1, <2>2, <2>3 DEF RowsNumbered
<1>20. ASSUME NEW r \in Requests, SetDefault(r)
      PROVE  RowsNumbered' /\ RowsLeave
  <2>1. task[r] \in PMs /\ seen[r] # 0
    BY <1>20 DEF SetDefault, RequestsFit, RequestFits
  <2>2. \A p \in PMs : row'[p].id = row[p].id
    BY <1>0, <2>1, <1>20 DEF SetDefault
  <2>3. NoRow.id = 0 /\ NoRow.isDefault = FALSE
    BY DEF NoRow
  <2>4. ASSUME row[task[r]] = NoRow
        PROVE  row' = row
    <3>1. (row[task[r]].isDefault \/ row[task[r]].id = seen[r]) = row[task[r]].isDefault
      BY <2>1, <2>3, <2>4
    <3>2. QED
      BY <1>0, <2>1, <3>1, <1>20 DEF SetDefault
  <2>5. \A p \in PMs : p # task[r] => row'[p] = row[p]
    BY <1>0, <2>1, <1>20 DEF SetDefault
  <2>6. QED
    BY <1>0, <2>1, <2>2, <2>3, <2>4, <2>5 DEF RowsNumbered
<1>21. ASSUME NEW r \in Requests, Detach(r)
      PROVE  RowsNumbered' /\ RowsLeave
  BY <1>a, <1>21 DEF Detach
<1>22. ASSUME NEW r \in Requests, DeleteRow(r)
      PROVE  RowsNumbered' /\ RowsLeave
  <2>1. task[r] \in PMs /\ card[task[r]].at = "detached"
    BY <1>22 DEF DeleteRow, RequestsFit, RequestFits
  <2>2. QED
    BY <1>0, <2>1, <1>22 DEF DeleteRow, DeleteById, RowsNumbered
<1>23. ASSUME NEW r \in Requests, RequestFails(r)
      PROVE  RowsNumbered' /\ RowsLeave
  BY <1>a, <1>23 DEF RequestFails
<1>24. CASE UNCHANGED vars
  BY <1>a, <1>24 DEF vars
<1>25. QED
  BY <1>1, <1>2, <1>3, <1>4, <1>5, <1>6, <1>7, <1>8, <1>9, <1>10, <1>11, <1>12, <1>13,
     <1>14, <1>15, <1>16, <1>17, <1>18, <1>19, <1>20, <1>21, <1>22, <1>23, <1>24
     DEF Next, StripeMoves, Works, Serves

--------------------------------------------------------------------------------
(* PaymentMethods: jobs, workers and requests.                                *)

AtRest(a) == step'[a] = step[a] /\ task'[a] = task[a] /\ seen'[a] = seen[a]

\* A step of the handler of worker w that is not its last.
Goes(w) ==
  /\ \/ step[w] = "retrieve" /\ step'[w] = "customer"
     \/ step[w] = "customer" /\ step'[w] = "select"
     \/ step[w] = "select" /\ step'[w] = "upsert" /\ seen'[w] = row[Of(w)].id
     \/ step[w] = "find" /\ step'[w] = "delete"
  /\ UNCHANGED <<stripeVars, jobVars, rowVars, task>>

\* The last one.
Leaves(w) ==
  /\ step[w] # "idle" /\ step'[w] = "idle"
  /\ \E s \in JobState : /\ job' = [job EXCEPT ![task[w]] = s]
                         /\ s \notin {"none", "active"}
                         /\ s = "queued" => tries'[task[w]] < MaxAttempts
  /\ \A e \in Events \ {task[w]} : tries'[e] = tries[e]
  /\ UNCHANGED stripeVars

WorkersMove ==
  \/ (Reports \/ UNCHANGED <<stripeVars, jobVars>>) /\ \A w \in Workers : AtRest(w)
  \/ \E w \in Workers : /\ (\E e \in Events : Take(w, e)) \/ Goes(w) \/ Leaves(w)
                       /\ \A v \in Workers \ {w} : AtRest(v)

\* A worker that leaves its job without an error, or with one.
LEMMA LeavesIs ==
  ASSUME TypeOK, JobsCounted, WorkersFit, NEW w \in Workers, step[w] # "idle",
         UNCHANGED stripeVars,
         \/ Throws(w)
         \/ UNCHANGED tries /\ Leave(w, "done")
  PROVE  Leaves(w) /\ \A v \in Workers \ {w} : AtRest(v)
<1>1. task[w] \in Events /\ tries[task[w]] < MaxAttempts
  BY WorkerKnown
<1>2. ASSUME NEW s \in JobState, Leave(w, s)
      PROVE  /\ step'[w] = "idle" /\ job' = [job EXCEPT ![task[w]] = s]
             /\ \A v \in Workers \ {w} : AtRest(v)
  BY <1>2, ActorsApart DEF TypeOK, Leave, GoTo, AtRest
<1>3. CASE Throws(w)
  <2>1. PICK s \in JobState : /\ Leave(w, s) /\ s \in {"queued", "dead"}
                              /\ s = "queued" => tries'[task[w]] < MaxAttempts
    BY <1>3, ThrowsIs
  <2>2. \A e \in Events \ {task[w]} : tries'[e] = tries[e]
    BY <1>3, ThrowsIs DEF TypeOK
  <2>3. QED
    BY <1>2, <2>1, <2>2 DEF Leaves
<1>4. CASE UNCHANGED tries /\ Leave(w, "done")
  BY <1>1, <1>2, <1>4, NamesFit DEF Leaves
<1>5. QED
  BY <1>3, <1>4

\* The list of events is another one then.
LEMMA SendsGrows ==
  ASSUME TypeOK, NEW k, NEW p, NEW v, Sends(k, p, v)
  PROVE  sent' # sent
<1>1. Len(sent') = Len(sent) + 1 /\ Len(sent) \in Nat
  BY DEF TypeOK, Sends
<1>2. QED
  BY <1>1

\* At most one worker moves, and how.
LEMMA StepWorkers ==
  ASSUME TypeOK, JobsCounted, WorkersFit, RequestsFit, [Next]_vars
  PROVE  WorkersMove
<1> USE DEF WorkersMove
<1>0. step \in [Actors -> ActorSteps] /\ task \in [Actors -> Events \cup PMs \cup {0}]
      /\ seen \in [Actors -> 0..MaxRows]
  BY DEF TypeOK
<1>a. ASSUME NEW r \in Requests, NEW s, (GoTo(r, s) /\ UNCHANGED <<task, seen>>) \/ Over(r)
      PROVE  \A w \in Workers : AtRest(w)
  BY <1>0, <1>a, ActorsApart DEF GoTo, Over, AtRest
<1>b. UNCHANGED actorVars => \A w \in Workers : AtRest(w)
  BY DEF actorVars, AtRest
<1>c. ASSUME NEW w \in Workers, step[w] # "idle", UNCHANGED stripeVars,
             \/ Throws(w)
             \/ UNCHANGED tries /\ Leave(w, "done")
      PROVE  WorkersMove
  BY <1>c, LeavesIs
<1>1. ASSUME NEW p \in PMs, Attached(p)
      PROVE  WorkersMove
  <2>1. UNCHANGED actorVars /\ ~ UNCHANGED sent
    BY <1>1, SendsGrows DEF Attached
  <2>2. QED
    BY <1>b, <2>1, StepStripe DEF stripeVars
<1>2. ASSUME NEW p \in PMs, Updated(p, "updated")
      PROVE  WorkersMove
  <2>1. UNCHANGED actorVars /\ ~ UNCHANGED sent
    BY <1>2, SendsGrows DEF Updated
  <2>2. QED
    BY <1>b, <2>1, StepStripe DEF stripeVars
<1>3. ASSUME NEW p \in PMs, Updated(p, "mandate")
      PROVE  WorkersMove
  <2>1. UNCHANGED actorVars /\ ~ UNCHANGED sent
    BY <1>3, SendsGrows DEF Updated
  <2>2. QED
    BY <1>b, <2>1, StepStripe DEF stripeVars
<1>4. ASSUME NEW p \in PMs, DetachedElsewhere(p)
      PROVE  WorkersMove
  <2>1. UNCHANGED actorVars /\ ~ UNCHANGED sent
    BY <1>4, SendsGrows DEF DetachedElsewhere, Detaches
  <2>2. QED
    BY <1>b, <2>1, StepStripe DEF stripeVars
<1>5. CASE CustomerInserted
  BY <1>b, <1>5 DEF CustomerInserted
<1>6. ASSUME NEW w \in Workers, NEW e \in Events, Take(w, e)
      PROVE  WorkersMove
  BY <1>0, <1>6, ActorsApart DEF Take, GoTo, AtRest
<1>7. ASSUME NEW w \in Workers, Retrieve(w)
      PROVE  WorkersMove
  <2>1. CASE Succeeds(w)
    BY <1>c, <1>7, <2>1 DEF Retrieve, Succeeds
  <2>2. CASE ~ Succeeds(w)
    BY <1>0, <1>7, <2>2, ActorsApart DEF Retrieve, Goes, GoTo, AtRest
  <2>3. QED
    BY <2>1, <2>2
<1>8. ASSUME NEW w \in Workers, Customer(w)
      PROVE  WorkersMove
  <2>1. CASE NotFoundInApi(w) \/ UnknownInWebhooks(w)
    BY <1>c, <1>8, <2>1 DEF Customer, NotFoundInApi, UnknownInWebhooks
  <2>2. CASE GoTo(w, "select") /\ UNCHANGED <<jobVars, task, seen, data>>
    BY <1>0, <1>8, <2>2, ActorsApart DEF Customer, Goes, GoTo, AtRest
  <2>3. QED
    BY <1>8, <2>1, <2>2 DEF Customer
<1>9. ASSUME NEW w \in Workers, Select(w)
      PROVE  WorkersMove
  BY <1>0, <1>9, ActorsApart DEF Select, Goes, GoTo, AtRest
<1>10. ASSUME NEW w \in Workers, Upsert(w)
      PROVE  WorkersMove
  BY <1>c, <1>10 DEF Upsert, UpdateFields, InsertNew, Succeeds
<1>11. ASSUME NEW w \in Workers, FindByStripeId(w)
      PROVE  WorkersMove
  <2>1. CASE Succeeds(w)
    BY <1>c, <1>11, <2>1 DEF FindByStripeId, Succeeds
  <2>2. CASE ~ Succeeds(w)
    BY <1>0, <1>11, <2>2, ActorsApart DEF FindByStripeId, Goes, GoTo, AtRest
  <2>3. QED
    BY <2>1, <2>2
<1>12. ASSUME NEW w \in Workers, RemoveByStripeId(w)
      PROVE  WorkersMove
  BY <1>c, <1>12 DEF RemoveByStripeId, Succeeds
<1>13. ASSUME NEW w \in Workers, WorkerFails(w)
      PROVE  WorkersMove
  BY <1>c, <1>13 DEF WorkerFails
<1>14. ASSUME NEW r \in Requests, NEW p \in PMs, Begin(r, p, "find default")
      PROVE  WorkersMove
  BY <1>0, <1>14, ActorsApart DEF Begin, GoTo, AtRest
<1>15. ASSUME NEW r \in Requests, NEW p \in PMs, Begin(r, p, "find detach")
      PROVE  WorkersMove
  BY <1>0, <1>15, ActorsApart DEF Begin, GoTo, AtRest
<1>16. ASSUME NEW r \in Requests, Found(r, "find default", "tell")
      PROVE  WorkersMove
  BY <1>a, <1>16 DEF Found
<1>17. ASSUME NEW r \in Requests, Found(r, "find detach", "detach")
      PROVE  WorkersMove
  BY <1>a, <1>17 DEF Found
<1>18. ASSUME NEW r \in Requests, Tell(r)
      PROVE  WorkersMove
  BY <1>a, <1>18 DEF Tell
<1>19. ASSUME NEW r \in Requests, Clear(r)
      PROVE  WorkersMove
  BY <1>a, <1>19 DEF Clear
<1>20. ASSUME NEW r \in Requests, SetDefault(r)
      PROVE  WorkersMove
  BY <1>a, <1>20 DEF SetDefault
<1>21. ASSUME NEW r \in Requests, Detach(r)
      PROVE  WorkersMove
  <2>1. (\A w \in Workers : AtRest(w)) /\ ~ UNCHANGED sent
    BY <1>a, <1>21, SendsGrows DEF Detach, Detaches
  <2>2. QED
    BY <2>1, StepStripe DEF stripeVars
<1>22. ASSUME NEW r \in Requests, DeleteRow(r)
      PROVE  WorkersMove
  BY <1>a, <1>22 DEF DeleteRow
<1>23. ASSUME NEW r \in Requests, RequestFails(r)
      PROVE  WorkersMove
  BY <1>a, <1>23 DEF RequestFails
<1>24. CASE UNCHANGED vars
  BY <1>b, <1>24 DEF vars
<1>25. QED
  BY <1>1, <1>2, <1>3, <1>4, <1>5, <1>6, <1>7, <1>8, <1>9, <1>10, <1>11, <1>12, <1>13,
     <1>14, <1>15, <1>16, <1>17, <1>18, <1>19, <1>20, <1>21, <1>22, <1>23, <1>24
     DEF Next, StripeMoves, Works, Serves

\* A job is there for every event, and is tried as often as is allowed.
LEMMA StepJobs ==
  ASSUME TypeOK, JobsCounted, WorkersFit, RequestsFit, [Next]_vars
  PROVE  JobsCounted'
<1>0. /\ job \in [Events -> JobState] /\ sent \in Seq(Event) /\ Len(sent) \in Nat
      /\ \A e \in Events : e \in Nat
  BY BoundsAssumption DEF TypeOK, Events
<1>1. CASE Reports
  <2>1. PICK k \in Kinds, p \in PMs, v \in Nat : Sends(k, p, v)
    BY <1>1 DEF Reports
  <2>2. /\ Len(sent') = Len(sent) + 1 /\ Len(sent') \in Events /\ tries' = tries
        /\ job' = [job EXCEPT ![Len(sent')] = "queued"]
    BY <2>1, SendsOne
  <2>3. QED
    BY <1>0, <2>2 DEF JobsCounted
<1>2. CASE UNCHANGED <<stripeVars, jobVars>>
  BY <1>2 DEF JobsCounted, stripeVars, jobVars
<1>3. ASSUME NEW w \in Workers, NEW e \in Events, Take(w, e)
      PROVE  JobsCounted'
  <2>1. job' = [job EXCEPT ![e] = "active"] /\ job[e] = "queued"
        /\ UNCHANGED <<tries, sent>>
    BY <1>3 DEF Take, stripeVars
  <2>2. QED
    BY <1>0, <2>1 DEF JobsCounted
<1>4. ASSUME NEW w \in Workers, Goes(w)
      PROVE  JobsCounted'
  BY <1>4 DEF Goes, JobsCounted, stripeVars, jobVars
<1>5. ASSUME NEW w \in Workers, Leaves(w)
      PROVE  JobsCounted'
  <2>1. task[w] \in Events /\ job[task[w]] = "active"
    BY <1>5, WorkerKnown DEF Leaves
  <2>2. QED
    BY <1>0, <1>5, <2>1 DEF Leaves, JobsCounted, stripeVars
<1>6. QED
  BY <1>1, <1>2, <1>3, <1>4, <1>5, StepWorkers DEF WorkersMove

\* The workers do not get in each other's way.
LEMMA StepApart ==
  ASSUME TypeOK, JobsCounted, WorkersFit, JobsApart, RequestsFit, [Next]_vars
  PROVE  JobsApart'
<1>1. CASE \A w \in Workers : AtRest(w)
  BY <1>1 DEF JobsApart, AtRest
<1>2. ASSUME NEW w \in Workers, \A v \in Workers \ {w} : AtRest(v),
             NEW e \in Events, Take(w, e)
      PROVE  JobsApart'
  <2>1. \A v \in Workers : step[v] # "idle" => task[v] # e
    BY <1>2, WorkerKnown DEF Take
  <2>2. task'[w] = e
    BY <1>2, ActorsApart DEF Take, TypeOK
  <2>3. QED
    BY <1>2, <2>1, <2>2 DEF JobsApart, AtRest
<1>3. ASSUME NEW w \in Workers, \A v \in Workers \ {w} : AtRest(v), Goes(w) \/ Leaves(w)
      PROVE  JobsApart'
  BY <1>3 DEF JobsApart, AtRest, Goes, Leaves
<1>4. QED
  BY <1>1, <1>2, <1>3, StepWorkers DEF WorkersMove

\* A worker at a step of its handler has what the step needs.
LEMMA StepFits ==
  ASSUME TypeOK, SentIsTrue, RowsNumbered, JobsCounted, WorkersFit, JobsApart, RequestsFit,
         [Next]_vars
  PROVE  WorkersFit'
<1>0. /\ ReportsStay /\ RowsLeave
      /\ job \in [Events -> JobState] /\ sent \in Seq(Event) /\ Len(sent) \in Nat
  BY StepReports, StepRows DEF TypeOK
<1>1. ASSUME NEW v \in Workers, step[v] # "idle", AtRest(v), job'[task[v]] = "active"
      PROVE  WorkerFits(v)'
  <2>1. WorkerFits(v) /\ task[v] \in 1..Len(sent) /\ Of(v) \in PMs
    BY <1>1, WorkerKnown DEF WorkersFit
  <2>2. task[v] \in 1..Len(sent') /\ sent'[task[v]] = sent[task[v]] /\ Of(v)' = Of(v)
    BY <1>0, <1>1, <2>1 DEF ReportsStay, AtRest, Of
  <2>3. row[Of(v)] # NoRow \/ card[Of(v)].at = "detached"
          => row'[Of(v)] # NoRow \/ card'[Of(v)].at = "detached"
    BY <1>0, <2>1 DEF ReportsStay, RowsLeave
  <2>4. QED
    BY <1>1, <2>1, <2>2, <2>3 DEF WorkerFits, AtRest
<1>2. CASE (Reports \/ UNCHANGED <<stripeVars, jobVars>>) /\ \A w \in Workers : AtRest(w)
  <2>1. \A e \in 1..Len(sent) : job'[e] = job[e]
    <3>1. CASE Reports
      <4>1. PICK k \in Kinds, p \in PMs, x \in Nat : Sends(k, p, x)
        BY <3>1 DEF Reports
      <4>2. job' = [job EXCEPT ![Len(sent')] = "queued"] /\ Len(sent') = Len(sent) + 1
        BY <4>1, SendsOne
      <4>3. QED
        BY <1>0, <4>2
    <3>2. QED
      BY <1>2, <3>1 DEF jobVars
  <2>2. ASSUME NEW v \in Workers, step[v] # "idle"
        PROVE  WorkerFits(v)'
    BY <1>1, <1>2, <2>1, <2>2, WorkerKnown
  <2>3. QED
    BY <1>2, <2>2 DEF WorkersFit, AtRest
<1>3. ASSUME NEW w \in Workers, \A v \in Workers \ {w} : AtRest(v),
             NEW e \in Events, Take(w, e)
      PROVE  WorkersFit'
  <2>1. job' = [job EXCEPT ![e] = "active"] /\ job[e] = "queued" /\ UNCHANGED <<sent, row>>
    BY <1>3 DEF Take, stripeVars, rowVars
  <2>2. e \in 1..Len(sent) /\ sent[e] \in Event
    BY <1>0, <1>3, <2>1, BoundsAssumption DEF JobsCounted, Events
  <2>3. /\ task'[w] = e /\ job'[e] = "active"
        /\ step'[w] = FirstStep(sent[e].kind)
    BY <1>0, <1>3, <2>1, ActorsApart DEF Take, GoTo, TypeOK
  <2>4. /\ step'[w] \in {"customer", "find", "retrieve"}
        /\ step'[w] = "retrieve" <=> sent[e].kind = "mandate"
        /\ step'[w] = "find" <=> sent[e].kind = "detached"
    BY <2>2, <2>3 DEF Event, Kinds, FirstStep
  <2>5. WorkerFits(w)'
    BY <2>1, <2>2, <2>3, <2>4 DEF WorkerFits, WorkerSteps
  <2>6. ASSUME NEW v \in Workers \ {w}, step[v] # "idle"
        PROVE  WorkerFits(v)'
    <3>1. job[task[v]] = "active" /\ task[v] \in Events
      BY <2>6, WorkerKnown
    <3>2. job'[task[v]] = "active"
      BY <1>0, <2>1, <3>1
    <3>3. QED
      BY <1>1, <1>3, <2>6, <3>2
  <2>7. QED
    BY <1>3, <2>5, <2>6 DEF WorkersFit, AtRest
<1>4. ASSUME NEW w \in Workers, \A v \in Workers \ {w} : AtRest(v), Goes(w)
      PROVE  WorkersFit'
  <2>1. UNCHANGED <<card, sent, job, row, task>>
    BY <1>4 DEF Goes, stripeVars, jobVars, rowVars
  <2>2. step[w] # "idle" /\ WorkerFits(w) /\ Of(w) \in PMs
    BY <1>4, WorkerKnown DEF Goes, WorkersFit
  <2>3. step'[w] = "upsert" /\ seen'[w] # 0 => row[Of(w)] # NoRow
    BY <1>4, <2>2 DEF Goes, NoRow
  <2>4. WorkerFits(w)'
    BY <1>4, <2>1, <2>2, <2>3 DEF WorkerFits, Goes, WorkerSteps, Of
  <2>5. ASSUME NEW v \in Workers \ {w}, step[v] # "idle"
        PROVE  WorkerFits(v)'
    BY <1>1, <1>4, <2>1, <2>5, WorkerKnown
  <2>6. QED
    BY <1>4, <2>4, <2>5 DEF WorkersFit, AtRest
<1>5. ASSUME NEW w \in Workers, \A v \in Workers \ {w} : AtRest(v), Leaves(w)
      PROVE  WorkersFit'
  <2>1. ASSUME NEW v \in Workers \ {w}, step[v] # "idle"
        PROVE  WorkerFits(v)'
    <3>1. task[v] # task[w] /\ job[task[v]] = "active"
      BY <1>5, <2>1, WorkerKnown DEF JobsApart, Leaves
    <3>2. job'[task[v]] = "active"
      BY <1>0, <1>5, <3>1 DEF Leaves
    <3>3. QED
      BY <1>1, <1>5, <2>1, <3>2
  <2>2. QED
    BY <1>5, <2>1 DEF WorkersFit, AtRest, Leaves
<1>6. QED
  BY <1>2, <1>3, <1>4, <1>5, StepWorkers DEF WorkersMove

\* A request goes on with the row that it has found.
LEMMA StepAsks ==
  ASSUME TypeOK, RowsNumbered, RequestsFit, [Next]_vars
  PROVE  RequestsFit'
<1> USE DEF RequestsFit, RequestFits
<1>0. /\ step \in [Actors -> ActorSteps] /\ task \in [Actors -> Events \cup PMs \cup {0}]
      /\ seen \in [Actors -> 0..MaxRows] /\ ReportsStay
  BY StepReports DEF TypeOK
<1>a. ASSUME NEW r \in Requests, Over(r)
      PROVE  RequestsFit'
  BY <1>0, <1>a, ActorsApart DEF GoTo, Over, ReportsStay
<1>b. ASSUME \A r \in Requests : AtRest(r)
      PROVE  RequestsFit'
  BY <1>0, <1>b DEF AtRest, ReportsStay
<1>c. ASSUME NEW w \in Workers, NEW s, Leave(w, s)
      PROVE  RequestsFit'
  BY <1>0, <1>b, <1>c, ActorsApart DEF Leave, GoTo, AtRest
<1>d. ASSUME NEW w \in Workers, Throws(w)
      PROVE  RequestsFit'
  BY <1>c, <1>d DEF Throws
<1>e. ASSUME NEW r \in Requests, NEW s \in {"tell", "clear", "set", "detach"}, GoTo(r, s),
             step[r] \notin {"idle", "over"}, UNCHANGED <<task, seen>>
      PROVE  RequestsFit'
  <2>1. s \in DefaultSteps \cup DetachSteps /\ s # "delete by id"
    BY DEF DefaultSteps, DetachSteps
  <2>2. QED
    BY <1>0, <1>e, <2>1, ActorsApart DEF GoTo, ReportsStay
<1>1. ASSUME NEW p \in PMs, Attached(p)
      PROVE  RequestsFit'
  BY <1>b, <1>1 DEF Attached, actorVars, AtRest
<1>2. ASSUME NEW p \in PMs, Updated(p, "updated")
      PROVE  RequestsFit'
  BY <1>b, <1>2 DEF Updated, actorVars, AtRest
<1>3. ASSUME NEW p \in PMs, Updated(p, "mandate")
      PROVE  RequestsFit'
  BY <1>b, <1>3 DEF Updated, actorVars, AtRest
<1>4. ASSUME NEW p \in PMs, DetachedElsewhere(p)
      PROVE  RequestsFit'
  BY <1>b, <1>4 DEF DetachedElsewhere, actorVars, AtRest
<1>5. CASE CustomerInserted
  BY <1>b, <1>5 DEF CustomerInserted, actorVars, AtRest
<1>6. ASSUME NEW w \in Workers, NEW e \in Events, Take(w, e)
      PROVE  RequestsFit'
  BY <1>0, <1>b, <1>6, ActorsApart DEF Take, GoTo, AtRest
<1>7. ASSUME NEW w \in Workers, Retrieve(w)
      PROVE  RequestsFit'
  BY <1>0, <1>b, <1>c, <1>7, ActorsApart DEF Retrieve, Succeeds, GoTo, AtRest
<1>8. ASSUME NEW w \in Workers, Customer(w)
      PROVE  RequestsFit'
  BY <1>0, <1>b, <1>c, <1>d, <1>8, ActorsApart
     DEF Customer, NotFoundInApi, UnknownInWebhooks, GoTo, AtRest
<1>9. ASSUME NEW w \in Workers, Select(w)
      PROVE  RequestsFit'
  BY <1>0, <1>b, <1>9, ActorsApart DEF Select, GoTo, AtRest
<1>10. ASSUME NEW w \in Workers, Upsert(w)
      PROVE  RequestsFit'
  BY <1>c, <1>d, <1>10 DEF Upsert, UpdateFields, InsertNew, Succeeds
<1>11. ASSUME NEW w \in Workers, FindByStripeId(w)
      PROVE  RequestsFit'
  BY <1>0, <1>b, <1>c, <1>11, ActorsApart DEF FindByStripeId, Succeeds, GoTo, AtRest
<1>12. ASSUME NEW w \in Workers, RemoveByStripeId(w)
      PROVE  RequestsFit'
  BY <1>c, <1>12 DEF RemoveByStripeId, Succeeds
<1>13. ASSUME NEW w \in Workers, WorkerFails(w)
      PROVE  RequestsFit'
  BY <1>d, <1>13 DEF WorkerFails
<1>14. ASSUME NEW r \in Requests, NEW p \in PMs, Begin(r, p, "find default")
      PROVE  RequestsFit'
  <2>1. row[p].id # 0
    BY <1>14 DEF Begin, RowsNumbered
  <2>2. "find default" \in DefaultSteps \cup DetachSteps
    BY DEF DefaultSteps, DetachSteps
  <2>3. QED
    BY <1>0, <1>14, <2>1, <2>2, ActorsApart DEF Begin, GoTo, ReportsStay
<1>15. ASSUME NEW r \in Requests, NEW p \in PMs, Begin(r, p, "find detach")
      PROVE  RequestsFit'
  <2>1. row[p].id # 0
    BY <1>15 DEF Begin, RowsNumbered
  <2>2. "find detach" \in DefaultSteps \cup DetachSteps
    BY DEF DefaultSteps, DetachSteps
  <2>3. QED
    BY <1>0, <1>15, <2>1, <2>2, ActorsApart DEF Begin, GoTo, ReportsStay
<1>16. ASSUME NEW r \in Requests, Found(r, "find default", "tell")
      PROVE  RequestsFit'
  BY <1>a, <1>e, <1>16 DEF Found
<1>17. ASSUME NEW r \in Requests, Found(r, "find detach", "detach")
      PROVE  RequestsFit'
  BY <1>a, <1>e, <1>17 DEF Found
<1>18. ASSUME NEW r \in Requests, Tell(r)
      PROVE  RequestsFit'
  BY <1>a, <1>e, <1>18 DEF Tell
<1>19. ASSUME NEW r \in Requests, Clear(r)
      PROVE  RequestsFit'
  BY <1>a, <1>e, <1>19 DEF Clear
<1>20. ASSUME NEW r \in Requests, SetDefault(r)
      PROVE  RequestsFit'
  BY <1>a, <1>20 DEF SetDefault
<1>21. ASSUME NEW r \in Requests, Detach(r)
      PROVE  RequestsFit'
  <2>1. task[r] \in PMs /\ seen[r] # 0
    BY <1>21 DEF Detach
  <2>2. card'[task[r]].at = "detached"
    BY <2>1, <1>21 DEF Detach, Detaches, TypeOK
  <2>3. "delete by id" \in DetachSteps
    BY DEF DetachSteps
  <2>4. QED
    BY <1>0, <2>1, <2>2, <2>3, <1>21, ActorsApart DEF Detach, GoTo, ReportsStay
<1>22. ASSUME NEW r \in Requests, DeleteRow(r)
      PROVE  RequestsFit'
  BY <1>a, <1>22 DEF DeleteRow
<1>23. ASSUME NEW r \in Requests, RequestFails(r)
      PROVE  RequestsFit'
  BY <1>a, <1>23 DEF RequestFails
<1>24. CASE UNCHANGED vars
  BY <1>b, <1>24 DEF vars, actorVars, AtRest
<1>25. QED
  BY <1>1, <1>2, <1>3, <1>4, <1>5, <1>6, <1>7, <1>8, <1>9, <1>10, <1>11, <1>12, <1>13,
     <1>14, <1>15, <1>16, <1>17, <1>18, <1>19, <1>20, <1>21, <1>22, <1>23, <1>24
     DEF Next, StripeMoves, Works, Serves

\* What the two properties rest on is kept by every step.
LEMMA StepFrame ==
  ASSUME Frame, [Next]_vars
  PROVE  Frame'
  BY StepTyped, StepSent, StepRows, StepJobs, StepApart, StepFits, StepAsks DEF Frame

--------------------------------------------------------------------------------
(* PaymentMethods: the two properties.                                        *)

\* Of two requests for a default, one is alone, or the race is on record.
LEMMA StepDefault ==
  ASSUME Frame, SetsAlone, OneDefaultUnlessRaced, [Next]_vars
  PROVE  SetsAlone' /\ OneDefaultUnlessRaced'
<1> USE DEF Frame
<1> USE DEF SetsAlone, OneDefaultUnlessRaced
<1>0. /\ step \in [Actors -> ActorSteps]
      /\ row \in [PMs -> [id : 0..MaxRows, version : Nat, isDefault : BOOLEAN]]
  BY DEF TypeOK
<1>a. ASSUME raced' = raced, \A r \in Requests : step'[r] = "set" => step[r] = "set",
             \A p \in PMs : row'[p].isDefault => row[p].isDefault
      PROVE  SetsAlone' /\ OneDefaultUnlessRaced'
  BY <1>a
<1>b. UNCHANGED rowVars => \A p \in PMs : row'[p].isDefault => row[p].isDefault
  BY DEF rowVars
<1>c. ASSUME NEW w \in Workers, NEW s, Leave(w, s) \/ GoTo(w, s)
      PROVE  \A r \in Requests : step'[r] = "set" => step[r] = "set"
  BY <1>0, <1>c, ActorsApart DEF Leave, GoTo
<1>d. ASSUME NEW w \in Workers, Throws(w)
      PROVE  \A r \in Requests : step'[r] = "set" => step[r] = "set"
  BY <1>c, <1>d DEF Throws
<1>e. ASSUME NEW r \in Requests, NEW s, s # "set", GoTo(r, s) \/ Over(r)
      PROVE  \A q \in Requests : step'[q] = "set" => step[q] = "set"
  BY <1>0, <1>e, ActorsApart DEF Over, GoTo
<1>1. ASSUME NEW p \in PMs, Attached(p)
      PROVE  SetsAlone' /\ OneDefaultUnlessRaced'
  BY <1>a, <1>b, <1>1 DEF Attached, actorVars
<1>2. ASSUME NEW p \in PMs, Updated(p, "updated")
      PROVE  SetsAlone' /\ OneDefaultUnlessRaced'
  BY <1>a, <1>b, <1>2 DEF Updated, actorVars
<1>3. ASSUME NEW p \in PMs, Updated(p, "mandate")
      PROVE  SetsAlone' /\ OneDefaultUnlessRaced'
  BY <1>a, <1>b, <1>3 DEF Updated, actorVars
<1>4. ASSUME NEW p \in PMs, DetachedElsewhere(p)
      PROVE  SetsAlone' /\ OneDefaultUnlessRaced'
  BY <1>a, <1>b, <1>4 DEF DetachedElsewhere, actorVars
<1>5. CASE CustomerInserted
  BY <1>a, <1>b, <1>5 DEF CustomerInserted, actorVars
<1>6. ASSUME NEW w \in Workers, NEW e \in Events, Take(w, e)
      PROVE  SetsAlone' /\ OneDefaultUnlessRaced'
  BY <1>a, <1>b, <1>c, <1>d, <1>6 DEF Take
<1>7. ASSUME NEW w \in Workers, Retrieve(w)
      PROVE  SetsAlone' /\ OneDefaultUnlessRaced'
  BY <1>a, <1>b, <1>c, <1>d, <1>7 DEF Retrieve, Succeeds
<1>8. ASSUME NEW w \in Workers, Customer(w)
      PROVE  SetsAlone' /\ OneDefaultUnlessRaced'
  BY <1>a, <1>b, <1>c, <1>d, <1>8 DEF Customer, NotFoundInApi, UnknownInWebhooks
<1>9. ASSUME NEW w \in Workers, Select(w)
      PROVE  SetsAlone' /\ OneDefaultUnlessRaced'
  BY <1>a, <1>b, <1>c, <1>d, <1>9 DEF Select
<1>10. ASSUME NEW w \in Workers, Upsert(w)
      PROVE  SetsAlone' /\ OneDefaultUnlessRaced'
  <2>1. step[w] # "idle"
    BY <1>10 DEF Upsert
  <2>2. Of(w) \in PMs
    BY <2>1, WorkerKnown DEF Frame
  <2>3. \A p \in PMs : row'[p].isDefault => row[p].isDefault
    BY <1>0, <1>b, <2>2, <1>10 DEF Upsert, UpdateFields, InsertNew
  <2>4. \A r \in Requests : step'[r] = "set" => step[r] = "set"
    BY <1>c, <1>d, <1>10 DEF Upsert, UpdateFields, InsertNew, Succeeds
  <2>5. QED
    BY <1>a, <2>3, <2>4, <1>10 DEF Upsert
<1>11. ASSUME NEW w \in Workers, FindByStripeId(w)
      PROVE  SetsAlone' /\ OneDefaultUnlessRaced'
  BY <1>a, <1>b, <1>c, <1>d, <1>11 DEF FindByStripeId, Succeeds
<1>12. ASSUME NEW w \in Workers, RemoveByStripeId(w)
      PROVE  SetsAlone' /\ OneDefaultUnlessRaced'
  <2>1. \A p \in PMs : row'[p].isDefault => row[p].isDefault
    BY <1>0, <1>12 DEF RemoveByStripeId, DeleteById, NoRow
  <2>2. QED
    BY <1>a, <1>c, <2>1, <1>12 DEF RemoveByStripeId, Succeeds
<1>13. ASSUME NEW w \in Workers, WorkerFails(w)
      PROVE  SetsAlone' /\ OneDefaultUnlessRaced'
  BY <1>a, <1>b, <1>c, <1>d, <1>13 DEF WorkerFails
<1>14. ASSUME NEW r \in Requests, NEW p \in PMs, Begin(r, p, "find default")
      PROVE  SetsAlone' /\ OneDefaultUnlessRaced'
  BY <1>a, <1>b, <1>e, <1>14 DEF Begin
<1>15. ASSUME NEW r \in Requests, NEW p \in PMs, Begin(r, p, "find detach")
      PROVE  SetsAlone' /\ OneDefaultUnlessRaced'
  BY <1>a, <1>b, <1>e, <1>15 DEF Begin
<1>16. ASSUME NEW r \in Requests, Found(r, "find default", "tell")
      PROVE  SetsAlone' /\ OneDefaultUnlessRaced'
  BY <1>a, <1>b, <1>e, <1>16 DEF Found
<1>17. ASSUME NEW r \in Requests, Found(r, "find detach", "detach")
      PROVE  SetsAlone' /\ OneDefaultUnlessRaced'
  BY <1>a, <1>b, <1>e, <1>17 DEF Found
<1>18. ASSUME NEW r \in Requests, Tell(r)
      PROVE  SetsAlone' /\ OneDefaultUnlessRaced'
  BY <1>a, <1>b, <1>e, <1>18 DEF Tell
<1>19. ASSUME NEW r \in Requests, Clear(r)
      PROVE  SetsAlone' /\ OneDefaultUnlessRaced'
  <2>1. \A p \in PMs : ~ row'[p].isDefault
    BY <1>0, <1>19 DEF Clear, Cleared
  <2>2. \A q \in Requests \ {r} : step'[q] = step[q]
    BY <1>0, <1>19, ActorsApart DEF Clear, GoTo
  <2>3. raced' \/ \A q \in Requests \ {r} : step[q] # "set"
    BY <1>19 DEF Clear
  <2>4. QED
    BY <2>1, <2>2, <2>3
<1>20. ASSUME NEW r \in Requests, SetDefault(r)
      PROVE  SetsAlone' /\ OneDefaultUnlessRaced'
  <2>1. raced' = raced /\ step[r] = "set"
    BY <1>20 DEF SetDefault
  <2>2. \A p \in PMs : p # task[r] => row'[p] = row[p]
    BY <1>0, <1>20 DEF SetDefault
  <2>3. step'[r] # "set" /\ \A q \in Requests \ {r} : step'[q] = step[q]
    BY <1>0, <1>20, ActorsApart DEF SetDefault, Over, GoTo
  <2>4. QED
    BY <2>1, <2>2, <2>3
<1>21. ASSUME NEW r \in Requests, Detach(r)
      PROVE  SetsAlone' /\ OneDefaultUnlessRaced'
  BY <1>a, <1>b, <1>e, <1>21 DEF Detach
<1>22. ASSUME NEW r \in Requests, DeleteRow(r)
      PROVE  SetsAlone' /\ OneDefaultUnlessRaced'
  <2>1. \A p \in PMs : row'[p].isDefault => row[p].isDefault
    BY <1>0, <1>22 DEF DeleteRow, DeleteById, NoRow
  <2>2. QED
    BY <1>a, <1>e, <2>1, <1>22 DEF DeleteRow
<1>23. ASSUME NEW r \in Requests, RequestFails(r)
      PROVE  SetsAlone' /\ OneDefaultUnlessRaced'
  BY <1>a, <1>b, <1>e, <1>23 DEF RequestFails
<1>24. CASE UNCHANGED vars
  BY <1>a, <1>b, <1>24 DEF vars, actorVars
<1>25. QED
  BY <1>1, <1>2, <1>3, <1>4, <1>5, <1>6, <1>7, <1>8, <1>9, <1>10, <1>11, <1>12, <1>13,
     <1>14, <1>15, <1>16, <1>17, <1>18, <1>19, <1>20, <1>21, <1>22, <1>23, <1>24
     DEF Next, StripeMoves, Works, Serves

\* A job that succeeds for the first event of a payment method leaves a row behind,
\* unless the payment method has been detached, or a worker of the api dropped the event.
LEMMA DoneIsListed ==
  ASSUME Frame, [Next]_vars, NEW f \in 1..Len(sent), sent[f].kind = "attached",
         job[f] # "done", job'[f] = "done"
  PROVE  row'[sent[f].pm] # NoRow \/ card[sent[f].pm].at = "detached" \/ f \in dropped'
<1>0. /\ job \in [Events -> JobState] /\ sent \in Seq(Event)
      /\ row \in [PMs -> [id : 0..MaxRows, version : Nat, isDefault : BOOLEAN]]
  BY DEF Frame, TypeOK
<1>a. ASSUME NEW w \in Workers, step[w] # "idle", NEW s, Leave(w, s)
      PROVE  s = "done" /\ task[w] = f
  BY <1>0, <1>a DEF Leave
<1>b. ASSUME NEW w \in Workers, step[w] # "idle", Throws(w)
      PROVE  FALSE
  BY <1>a, <1>b DEF Throws
<1>c. UNCHANGED jobVars => FALSE
  BY DEF jobVars
<1>e. Reports => FALSE
  <2>1. SUFFICES ASSUME Reports PROVE FALSE
    OBVIOUS
  <2>2. PICK k \in Kinds, p \in PMs, v \in Nat : Sends(k, p, v)
    BY <2>1 DEF Reports
  <2>3. job' = [job EXCEPT ![Len(sent')] = "queued"] /\ Len(sent') = Len(sent) + 1
    BY <2>2, SendsOne DEF Frame
  <2>4. QED
    BY <1>0, <2>3
<1> USE DEF Frame
<1>1. ASSUME NEW p \in PMs, Attached(p)
      PROVE  row'[sent[f].pm] # NoRow \/ card[sent[f].pm].at = "detached"
  <2>1. ~ UNCHANGED sent
    BY <1>1, SendsGrows DEF Attached
  <2>2. QED
    BY <1>e, <2>1, StepStripe DEF stripeVars
<1>2. ASSUME NEW p \in PMs, Updated(p, "updated")
      PROVE  row'[sent[f].pm] # NoRow \/ card[sent[f].pm].at = "detached"
  <2>1. ~ UNCHANGED sent
    BY <1>2, SendsGrows DEF Updated
  <2>2. QED
    BY <1>e, <2>1, StepStripe DEF stripeVars
<1>3. ASSUME NEW p \in PMs, Updated(p, "mandate")
      PROVE  row'[sent[f].pm] # NoRow \/ card[sent[f].pm].at = "detached"
  <2>1. ~ UNCHANGED sent
    BY <1>3, SendsGrows DEF Updated
  <2>2. QED
    BY <1>e, <2>1, StepStripe DEF stripeVars
<1>4. ASSUME NEW p \in PMs, DetachedElsewhere(p)
      PROVE  row'[sent[f].pm] # NoRow \/ card[sent[f].pm].at = "detached"
  <2>1. ~ UNCHANGED sent
    BY <1>4, SendsGrows DEF DetachedElsewhere, Detaches
  <2>2. QED
    BY <1>e, <2>1, StepStripe DEF stripeVars
<1>5. CASE CustomerInserted
  BY <1>c, <1>5 DEF CustomerInserted
<1>6. ASSUME NEW w \in Workers, NEW e \in Events, Take(w, e)
      PROVE  row'[sent[f].pm] # NoRow \/ card[sent[f].pm].at = "detached"
  BY <1>0, <1>6 DEF Take
<1>7. ASSUME NEW w \in Workers, Retrieve(w)
      PROVE  row'[sent[f].pm] # NoRow \/ card[sent[f].pm].at = "detached"
  <2>1. Succeeds(w) /\ step[w] # "idle"
    BY <1>c, <1>7 DEF Retrieve
  <2>2. sent[task[w]].kind = "mandate"
    BY <2>1, <1>7 DEF Retrieve, WorkersFit, WorkerFits
  <2>3. QED
    BY <1>a, <2>1, <2>2 DEF Succeeds
<1>8. ASSUME NEW w \in Workers, Customer(w)
      PROVE  f \in dropped'
  BY <1>a, <1>b, <1>c, <1>8 DEF Customer, NotFoundInApi, UnknownInWebhooks
<1>9. ASSUME NEW w \in Workers, Select(w)
      PROVE  row'[sent[f].pm] # NoRow \/ card[sent[f].pm].at = "detached"
  BY <1>c, <1>9 DEF Select
<1>10. ASSUME NEW w \in Workers, Upsert(w)
      PROVE  row'[sent[f].pm] # NoRow \/ card[sent[f].pm].at = "detached"
  <2>1. step[w] # "idle" /\ step[w] = "upsert" /\ UNCHANGED stripeVars
    BY <1>10 DEF Upsert
  <2>2. Of(w) \in PMs /\ RowsLeave
    BY <2>1, WorkerKnown, StepRows
  <2>3. CASE UpdateFields(w)
    <3>1. row[Of(w)] # NoRow \/ card[Of(w)].at = "detached"
      BY <2>1, <2>3 DEF UpdateFields, WorkersFit, WorkerFits
    <3>2. task[w] = f
      BY <1>a, <2>1, <2>3 DEF UpdateFields, Succeeds
    <3>3. QED
      BY <2>2, <3>1, <3>2 DEF RowsLeave, Of
  <2>4. CASE InsertNew(w) /\ row[Of(w)] = NoRow
    <3>1. made[Of(w)] + 1 # 0
      BY <2>2 DEF TypeOK
    <3>2. row'[Of(w)] # NoRow
      BY <1>0, <2>2, <2>4, <3>1 DEF InsertNew, NoRow
    <3>3. task[w] = f
      BY <1>a, <2>1, <2>4 DEF InsertNew, Succeeds
    <3>4. QED
      BY <3>2, <3>3 DEF Of
  <2>5. CASE Throws(w)
    BY <1>b, <2>1, <2>5
  <2>6. QED
    BY <1>10, <2>3, <2>4, <2>5 DEF Upsert, InsertNew
<1>11. ASSUME NEW w \in Workers, FindByStripeId(w)
      PROVE  row'[sent[f].pm] # NoRow \/ card[sent[f].pm].at = "detached"
  <2>1. Succeeds(w) /\ step[w] # "idle"
    BY <1>c, <1>11 DEF FindByStripeId
  <2>2. sent[task[w]].kind = "detached"
    BY <2>1, <1>11 DEF FindByStripeId, WorkersFit, WorkerFits
  <2>3. QED
    BY <1>a, <2>1, <2>2 DEF Succeeds
<1>12. ASSUME NEW w \in Workers, RemoveByStripeId(w)
      PROVE  row'[sent[f].pm] # NoRow \/ card[sent[f].pm].at = "detached"
  <2>1. Succeeds(w) /\ step[w] # "idle"
    BY <1>12 DEF RemoveByStripeId
  <2>2. sent[task[w]].kind = "detached"
    BY <2>1, <1>12 DEF RemoveByStripeId, WorkersFit, WorkerFits
  <2>3. QED
    BY <1>a, <2>1, <2>2 DEF Succeeds
<1>13. ASSUME NEW w \in Workers, WorkerFails(w)
      PROVE  row'[sent[f].pm] # NoRow \/ card[sent[f].pm].at = "detached"
  BY <1>b, <1>13 DEF WorkerFails
<1>14. ASSUME NEW r \in Requests, NEW p \in PMs, Begin(r, p, "find default")
      PROVE  row'[sent[f].pm] # NoRow \/ card[sent[f].pm].at = "detached"
  BY <1>c, <1>14 DEF Begin
<1>15. ASSUME NEW r \in Requests, NEW p \in PMs, Begin(r, p, "find detach")
      PROVE  row'[sent[f].pm] # NoRow \/ card[sent[f].pm].at = "detached"
  BY <1>c, <1>15 DEF Begin
<1>16. ASSUME NEW r \in Requests, Found(r, "find default", "tell")
      PROVE  row'[sent[f].pm] # NoRow \/ card[sent[f].pm].at = "detached"
  BY <1>c, <1>16 DEF Found
<1>17. ASSUME NEW r \in Requests, Found(r, "find detach", "detach")
      PROVE  row'[sent[f].pm] # NoRow \/ card[sent[f].pm].at = "detached"
  BY <1>c, <1>17 DEF Found
<1>18. ASSUME NEW r \in Requests, Tell(r)
      PROVE  row'[sent[f].pm] # NoRow \/ card[sent[f].pm].at = "detached"
  BY <1>c, <1>18 DEF Tell
<1>19. ASSUME NEW r \in Requests, Clear(r)
      PROVE  row'[sent[f].pm] # NoRow \/ card[sent[f].pm].at = "detached"
  BY <1>c, <1>19 DEF Clear
<1>20. ASSUME NEW r \in Requests, SetDefault(r)
      PROVE  row'[sent[f].pm] # NoRow \/ card[sent[f].pm].at = "detached"
  BY <1>c, <1>20 DEF SetDefault
<1>21. ASSUME NEW r \in Requests, Detach(r)
      PROVE  row'[sent[f].pm] # NoRow \/ card[sent[f].pm].at = "detached"
  <2>1. ~ UNCHANGED sent
    BY <1>21, SendsGrows DEF Detach, Detaches
  <2>2. QED
    BY <1>e, <2>1, StepStripe DEF stripeVars
<1>22. ASSUME NEW r \in Requests, DeleteRow(r)
      PROVE  row'[sent[f].pm] # NoRow \/ card[sent[f].pm].at = "detached"
  BY <1>c, <1>22 DEF DeleteRow
<1>23. ASSUME NEW r \in Requests, RequestFails(r)
      PROVE  row'[sent[f].pm] # NoRow \/ card[sent[f].pm].at = "detached"
  BY <1>c, <1>23 DEF RequestFails
<1>24. CASE UNCHANGED vars
  BY <1>c, <1>24 DEF vars
<1>25. QED
  BY <1>1, <1>2, <1>3, <1>4, <1>5, <1>6, <1>7, <1>8, <1>9, <1>10, <1>11, <1>12, <1>13,
     <1>14, <1>15, <1>16, <1>17, <1>18, <1>19, <1>20, <1>21, <1>22, <1>23, <1>24
     DEF Next, StripeMoves, Works, Serves

\* What was dropped stays dropped.
LEMMA DroppedStays ==
  ASSUME [Next]_vars
  PROVE  dropped \subseteq dropped'
<1> USE DEF stripeVars, jobVars
<1>1. CASE UNCHANGED vars
  BY <1>1 DEF vars
<1>2. CASE StripeMoves \/ CustomerInserted
  BY <1>2 DEF StripeMoves, CustomerInserted, Attached, Updated, DetachedElsewhere, Detaches,
              Sends
<1>3. ASSUME NEW w \in Workers, (\E e \in Events : Take(w, e)) \/ Works(w)
      PROVE  dropped \subseteq dropped'
  BY <1>3 DEF Take, Works, Retrieve, Customer, NotFoundInApi, UnknownInWebhooks, Select,
              Upsert, UpdateFields, InsertNew, FindByStripeId, RemoveByStripeId,
              WorkerFails, Succeeds, Throws
<1>4. ASSUME NEW r \in Requests,
             Serves(r) \/ \E p \in PMs : Begin(r, p, "find default") \/ Begin(r, p, "find detach")
      PROVE  dropped \subseteq dropped'
  BY <1>4 DEF Serves, Begin, Found, Tell, Clear, SetDefault, Detach, Detaches, Sends,
              DeleteRow, RequestFails
<1>5. QED
  BY <1>1, <1>2, <1>3, <1>4 DEF Next

\* An event that was handled stays listed.
LEMMA StepListed ==
  ASSUME Frame, HandledIsListed, [Next]_vars
  PROVE  HandledIsListed'
<1>0. /\ sent \in Seq(Event) /\ RowsLeave /\ ReportsStay
      /\ card \in [PMs -> [at : {"new", "attached", "detached"}, version : Nat]]
  BY StepRows, StepReports DEF Frame, TypeOK
<1>1. SUFFICES ASSUME NEW e \in 1..Len(sent'), sent'[e].kind = "attached",
                      job'[e] = "done", card'[sent'[e].pm].at = "attached"
               PROVE  row'[sent'[e].pm] # NoRow \/ e \in dropped'
  BY DEF HandledIsListed
<1>2. CASE e \in 1..Len(sent)
  <2>1. sent[e] \in Event /\ sent'[e] = sent[e]
    BY <1>0, <1>2 DEF ReportsStay
  <2>2. sent[e].pm \in PMs
    BY <2>1 DEF Event
  <2>3. card[sent[e].pm].at = "attached"
    BY <1>0, <1>1, <1>2, <2>1, <2>2 DEF ReportsStay, SentIsTrue, Frame
  <2>4. CASE job[e] = "done"
    BY <1>0, <1>1, <1>2, <2>1, <2>2, <2>3, <2>4, DroppedStays
       DEF HandledIsListed, RowsLeave
  <2>5. CASE job[e] # "done"
    BY <1>1, <1>2, <2>1, <2>3, <2>5, DoneIsListed
  <2>6. QED
    BY <2>4, <2>5
<1>3. CASE e \notin 1..Len(sent)
  <2>1. Reports
    BY <1>1, <1>3, StepStripe DEF Frame, stripeVars
  <2>2. PICK k \in Kinds, p \in PMs, v \in Nat : Sends(k, p, v)
    BY <2>1 DEF Reports
  <2>3. /\ job' = [job EXCEPT ![Len(sent')] = "queued"] /\ Len(sent') = Len(sent) + 1
        /\ Len(sent') \in Events
    BY <2>2, SendsOne DEF Frame
  <2>4. e = Len(sent') /\ job'[e] = "queued"
    BY <1>0, <1>1, <1>3, <2>3 DEF Frame, TypeOK
  <2>5. QED
    BY <1>1, <2>4
<1>4. QED
  BY <1>2, <1>3

--------------------------------------------------------------------------------
(* PaymentMethods: the theorems.                                              *)

\* The initial states are typed, and nothing is under way in them.
LEMMA InitFits ==
  ASSUME Init
  PROVE  IInv
<1>1. /\ 0 \in Nat /\ 0 \in 0..MaxRows /\ 1 \in 0..MaxRows
      /\ 0 \in 0..MaxAttempts /\ 0 < MaxAttempts
  BY BoundsAssumption
<1>2. made \in [PMs -> 0..MaxRows]
  BY <1>1 DEF Init
<1>3. row \in [PMs -> [id : 0..MaxRows, version : Nat, isDefault : BOOLEAN]]
  BY <1>1, <1>2 DEF Init
<1>4. card \in [PMs -> [at : {"new", "attached", "detached"}, version : Nat]]
  BY <1>1 DEF Init
<1>5. sent \in Seq(Event) /\ Len(sent) = 0 /\ Len(sent) <= MaxEvents
  BY BoundsAssumption DEF Init
<1>6. job \in [Events -> JobState] /\ tries \in [Events -> 0..MaxAttempts]
  BY <1>1 DEF Init, JobState
<1>7. /\ step \in [Actors -> ActorSteps] /\ task \in [Actors -> Events \cup PMs \cup {0}]
      /\ seen \in [Actors -> 0..MaxRows] /\ data \in [Workers -> Nat]
  BY <1>1, NamesFit DEF Init
<1>8. TypeOK
  BY <1>2, <1>3, <1>4, <1>5, <1>6, <1>7 DEF TypeOK, Init
<1>9. RowsNumbered
  <2>1. ASSUME NEW p \in PMs
        PROVE  row[p] = NoRow \/ row[p].id # 0
    <3>1. row[p] = [id |-> made[p], version |-> 0, isDefault |-> FALSE]
      BY DEF Init
    <3>2. CASE made[p] = 0
      BY <3>1, <3>2 DEF NoRow
    <3>3. CASE made[p] # 0
      BY <3>1, <3>3
    <3>4. QED
      BY <3>2, <3>3
  <2>2. QED
    BY <2>1 DEF RowsNumbered
<1>10. SentIsTrue /\ HandledIsListed
  BY <1>5 DEF SentIsTrue, HandledIsListed
<1>11. JobsCounted
  BY <1>1, <1>5, BoundsAssumption DEF Init, JobsCounted, Events
<1>12. WorkersFit /\ JobsApart /\ RequestsFit
  BY ActorsApart DEF Init, WorkersFit, JobsApart, RequestsFit
<1>13. SetsAlone /\ OneDefaultUnlessRaced
  BY ActorsApart DEF Init, SetsAlone, OneDefaultUnlessRaced
<1>14. QED
  BY <1>8, <1>9, <1>10, <1>11, <1>12, <1>13 DEF IInv, Frame

\* The inductive invariant holds in every reachable state of PaymentMethods.
THEOREM Invariance == Spec => []IInv
<1>1. Init => IInv
  BY InitFits
<1>2. IInv /\ [Next]_vars => IInv'
  BY StepFrame, StepDefault, StepListed DEF IInv
<1>3. QED
  BY <1>1, <1>2, PTL DEF Spec

\* Every variable of PaymentMethods keeps its type: the numbers of rows, the attempts and
\* the events stay within their bounds, and an actor is always at one of its steps.
THEOREM TypeCorrect == Spec => []TypeOK
<1>1. IInv => TypeOK
  BY DEF IInv, Frame
<1>2. QED
  BY <1>1, Invariance, PTL

\* For any number of payment methods and requests, two payment methods are the default
\* only when two requests were between clearing and setting it at the same time.
THEOREM OneDefault == Spec => []OneDefaultUnlessRaced
<1>1. IInv => OneDefaultUnlessRaced
  BY DEF IInv
<1>2. QED
  BY <1>1, Invariance, PTL

\* For any number of events and attempts, a payment method that is attached and whose
\* first event was handled has a row.
THEOREM HandledListed == Spec => []HandledIsListed
<1>1. IInv => HandledIsListed
  BY DEF IInv
<1>2. QED
  BY <1>1, Invariance, PTL

--------------------------------------------------------------------------------
(* Customers: the inductive invariant.                                        *)

\* Steps that use the copy of the last lookup.
UsesCopy ==
  {"fill", "fillByStripe", "fillByUser", "edit", "send", "write", "syncWrite"}

\* The positions of a route at which customers.retrieve has answered, or the form is
\* filled in, and what it said is still to be used.
SeesFrom(o) ==
  CASE o = "sync"             -> 5..11
    [] o = "customer.updated" -> 2..8
    [] o = "form"             -> 8..15
    [] OTHER                  -> {}

IsHeld(copy) == \A f \in Fields : copy[f] \in held[f]

\* Every copy, in the row, in Redis or in the hand of a call, is made of values that
\* Stripe has had.
CopiesHeld ==
  /\ IsHeld(stripe.fields) /\ IsHeld(customer.fields)
  /\ \A k \in Keys : cache[k] # None => IsHeld(cache[k])
  /\ \A c \in Calls : call[c].got # None => IsHeld(call[c].got)

\* The field that a request names has had that value at Stripe.
NamedIsIn(values, o, c, saw) ==
  /\ o = "patch" => c \in values["email"]
  /\ o = "form" /\ saw["name"] # "nothing" => saw["name"] \in values["name"]

\* A call has in hand what its next step uses; what it is about to write is known to
\* Stripe, and so is the deletion.
CallFits(c) ==
  /\ Route[op[c]][call[c].at] \in UsesCopy => call[c].got # None
  /\ call[c].at \in SeesFrom(op[c]) => call[c].saw # None
  /\ op[c] \in {"sync", "customer.updated"} /\ call[c].saw # None => IsHeld(call[c].saw)
  /\ Before(c, "write") => NamedIsIn(held, op[c], c, call[c].saw)
  /\ Before(c, "softDelete") /\ op[c] = "delete" => stripe.gone

CallsFit == \A c \in Calls : call[c].at # 0 => CallFits(c)

\* The row is deleted only after the customer.
GoneFirst == customer.deleted => stripe.gone

CustomerIInv == CustomerTypeOK /\ CopiesHeld /\ CallsFit /\ GoneFirst

--------------------------------------------------------------------------------
(* Customers: the routes, step by step.  A route is put together from parts;  *)
(* position by position, each part is what its definition says.               *)

RouteSteps ==
  {"destroy", "edit", "evict", "fill", "fillByStripe", "fillByUser", "get", "getByStripe",
   "getByUser", "openSession", "read", "readAny", "readByStripe", "readByUser",
   "retrieve", "send", "softDelete", "syncWrite", "write"}

\* Every step has a name.
LEMMA RouteStepsAre ==
  /\ "destroy" \in RouteSteps /\ "edit" \in RouteSteps
  /\ "evict" \in RouteSteps /\ "fill" \in RouteSteps
  /\ "fillByStripe" \in RouteSteps /\ "fillByUser" \in RouteSteps
  /\ "get" \in RouteSteps /\ "getByStripe" \in RouteSteps
  /\ "getByUser" \in RouteSteps /\ "openSession" \in RouteSteps
  /\ "read" \in RouteSteps /\ "readAny" \in RouteSteps
  /\ "readByStripe" \in RouteSteps /\ "readByUser" \in RouteSteps
  /\ "retrieve" \in RouteSteps /\ "send" \in RouteSteps
  /\ "softDelete" \in RouteSteps /\ "syncWrite" \in RouteSteps
  /\ "write" \in RouteSteps
BY DEF RouteSteps

Lists(j, n) == j \in Seq(RouteSteps) /\ Len(j) = n

\* j is s, up to position m, and then t, up to position k.
Joins(j, s, t, m, k) ==
  (\A i \in 1..m : j[i] = s[i]) /\ \A i \in m + 1..k : j[i] = t[i - m]

\* Two parts of a route, one after the other.
LEMMA Joined ==
  ASSUME NEW s, NEW t, NEW m \in Nat, NEW n \in Nat, NEW k, k = m + n,
         Lists(s, m), Lists(t, n)
  PROVE  Lists(s \o t, k) /\ Joins(s \o t, s, t, m, k)
<1>1. s \in Seq(RouteSteps) /\ t \in Seq(RouteSteps) /\ Len(s) = m /\ Len(t) = n
  BY DEF Lists
<1>2. Len(s \o t) = Len(s) + Len(t) /\ s \o t \in Seq(RouteSteps)
  BY <1>1
<1>3. ASSUME NEW i \in (m + 1)..(m + n)
      PROVE  (s \o t)[i] = t[i - m]
  <2>1. i \in 1..Len(s) + Len(t) /\ i \notin 1..Len(s) /\ i - m = i - Len(s)
    BY <1>1
  <2>2. QED
    BY <1>1, <2>1
<1>4. QED
  BY <1>1, <1>2, <1>3 DEF Lists, Joins

\* What a lookup by the id does.
LEMMA FindIs ==
  /\ Lists(Find, 3)
  /\ Find[1] = "get" /\ Find[2] = "read" /\ Find[3] = "fill"
  BY RouteStepsAre DEF Find, Lists

\* Position by position: ByStripe.
LEMMA ByStripeIs ==
  /\ Lists(ByStripe, 6)
  /\ ByStripe[1] = "getByStripe" /\ ByStripe[2] = "readByStripe" /\ ByStripe[3] = "get" /\
     ByStripe[4] = "read" /\ ByStripe[5] = "fill" /\ ByStripe[6] = "fillByStripe"
<1> DEFINE a == <<"getByStripe", "readByStripe">>
<1>1. Lists(a, 2) /\ a[1] = "getByStripe" /\ a[2] = "readByStripe"
  BY RouteStepsAre DEF Lists
<1> HIDE DEF a
<1> DEFINE b == <<"fillByStripe">>
<1>2. Lists(b, 1) /\ b[1] = "fillByStripe"
  BY RouteStepsAre DEF Lists
<1> HIDE DEF b
<1> DEFINE c == a \o Find
<1>3. Lists(c, 5) /\ Joins(c, a, Find, 2, 5)
  BY <1>1, FindIs, Joined
<1> HIDE DEF c
<1>4. /\ c[1] = "getByStripe" /\ c[2] = "readByStripe" /\ c[3] = "get" /\ c[4] = "read" /\
         c[5] = "fill"
  BY <1>1, FindIs, <1>3 DEF Joins
<1> DEFINE d == c \o b
<1>5. Lists(d, 6) /\ Joins(d, c, b, 5, 6)
  BY <1>3, <1>4, <1>2, Joined
<1> HIDE DEF d
<1>6. /\ d[1] = "getByStripe" /\ d[2] = "readByStripe" /\ d[3] = "get" /\ d[4] = "read" /\
         d[5] = "fill" /\ d[6] = "fillByStripe"
  BY <1>3, <1>4, <1>2, <1>5 DEF Joins
<1>7. QED
  BY <1>5, <1>6 DEF ByStripe, a, b, c, d

\* Position by position: ByUser.
LEMMA ByUserIs ==
  /\ Lists(ByUser, 6)
  /\ ByUser[1] = "getByUser" /\ ByUser[2] = "readByUser" /\ ByUser[3] = "get" /\
     ByUser[4] = "read" /\ ByUser[5] = "fill" /\ ByUser[6] = "fillByUser"
<1> DEFINE a == <<"getByUser", "readByUser">>
<1>1. Lists(a, 2) /\ a[1] = "getByUser" /\ a[2] = "readByUser"
  BY RouteStepsAre DEF Lists
<1> HIDE DEF a
<1> DEFINE b == <<"fillByUser">>
<1>2. Lists(b, 1) /\ b[1] = "fillByUser"
  BY RouteStepsAre DEF Lists
<1> HIDE DEF b
<1> DEFINE c == a \o Find
<1>3. Lists(c, 5) /\ Joins(c, a, Find, 2, 5)
  BY <1>1, FindIs, Joined
<1> HIDE DEF c
<1>4. /\ c[1] = "getByUser" /\ c[2] = "readByUser" /\ c[3] = "get" /\ c[4] = "read" /\
         c[5] = "fill"
  BY <1>1, FindIs, <1>3 DEF Joins
<1> DEFINE d == c \o b
<1>5. Lists(d, 6) /\ Joins(d, c, b, 5, 6)
  BY <1>3, <1>4, <1>2, Joined
<1> HIDE DEF d
<1>6. /\ d[1] = "getByUser" /\ d[2] = "readByUser" /\ d[3] = "get" /\ d[4] = "read" /\
         d[5] = "fill" /\ d[6] = "fillByUser"
  BY <1>3, <1>4, <1>2, <1>5 DEF Joins
<1>7. QED
  BY <1>5, <1>6 DEF ByUser, a, b, c, d

\* Position by position: Update.
LEMMA UpdateIs ==
  /\ Lists(Update, 9)
  /\ Update[1] = "get" /\ Update[2] = "read" /\ Update[3] = "fill" /\
     Update[4] = "send" /\ Update[5] = "write" /\ Update[6] = "evict" /\
     Update[7] = "get" /\ Update[8] = "read" /\ Update[9] = "fill"
<1> DEFINE a == <<"send", "write", "evict">>
<1>1. Lists(a, 3) /\ a[1] = "send" /\ a[2] = "write" /\ a[3] = "evict"
  BY RouteStepsAre DEF Lists
<1> HIDE DEF a
<1> DEFINE b == Find \o a
<1>2. Lists(b, 6) /\ Joins(b, Find, a, 3, 6)
  BY FindIs, <1>1, Joined
<1> HIDE DEF b
<1>3. /\ b[1] = "get" /\ b[2] = "read" /\ b[3] = "fill" /\ b[4] = "send" /\
         b[5] = "write" /\ b[6] = "evict"
  BY FindIs, <1>1, <1>2 DEF Joins
<1> DEFINE c == b \o Find
<1>4. Lists(c, 9) /\ Joins(c, b, Find, 6, 9)
  BY <1>2, <1>3, FindIs, Joined
<1> HIDE DEF c
<1>5. /\ c[1] = "get" /\ c[2] = "read" /\ c[3] = "fill" /\ c[4] = "send" /\
         c[5] = "write" /\ c[6] = "evict" /\ c[7] = "get" /\ c[8] = "read" /\
         c[9] = "fill"
  BY <1>2, <1>3, FindIs, <1>4 DEF Joins
<1>6. QED
  BY <1>4, <1>5 DEF Update, a, b, c

\* Position by position: Delete.
LEMMA DeleteIs ==
  /\ Lists(Delete, 6)
  /\ Delete[1] = "get" /\ Delete[2] = "read" /\ Delete[3] = "fill" /\
     Delete[4] = "destroy" /\ Delete[5] = "softDelete" /\ Delete[6] = "evict"
<1> DEFINE a == <<"destroy", "softDelete", "evict">>
<1>1. Lists(a, 3) /\ a[1] = "destroy" /\ a[2] = "softDelete" /\ a[3] = "evict"
  BY RouteStepsAre DEF Lists
<1> HIDE DEF a
<1> DEFINE b == Find \o a
<1>2. Lists(b, 6) /\ Joins(b, Find, a, 3, 6)
  BY FindIs, <1>1, Joined
<1> HIDE DEF b
<1>3. /\ b[1] = "get" /\ b[2] = "read" /\ b[3] = "fill" /\ b[4] = "destroy" /\
         b[5] = "softDelete" /\ b[6] = "evict"
  BY FindIs, <1>1, <1>2 DEF Joins
<1>4. QED
  BY <1>2, <1>3 DEF Delete, a, b

\* Position by position: Sync.
LEMMA SyncIs ==
  /\ Lists(Sync, 12)
  /\ Sync[1] = "retrieve" /\ Sync[2] = "getByStripe" /\ Sync[3] = "readByStripe" /\
     Sync[4] = "get" /\ Sync[5] = "read" /\ Sync[6] = "fill" /\
     Sync[7] = "fillByStripe" /\ Sync[8] = "syncWrite" /\ Sync[9] = "evict" /\
     Sync[10] = "get" /\ Sync[11] = "read" /\ Sync[12] = "fill"
<1> DEFINE a == <<"retrieve">>
<1>1. Lists(a, 1) /\ a[1] = "retrieve"
  BY RouteStepsAre DEF Lists
<1> HIDE DEF a
<1> DEFINE b == <<"syncWrite", "evict">>
<1>2. Lists(b, 2) /\ b[1] = "syncWrite" /\ b[2] = "evict"
  BY RouteStepsAre DEF Lists
<1> HIDE DEF b
<1> DEFINE c == a \o ByStripe
<1>3. Lists(c, 7) /\ Joins(c, a, ByStripe, 1, 7)
  BY <1>1, ByStripeIs, Joined
<1> HIDE DEF c
<1>4. /\ c[1] = "retrieve" /\ c[2] = "getByStripe" /\ c[3] = "readByStripe" /\
         c[4] = "get" /\ c[5] = "read" /\ c[6] = "fill" /\ c[7] = "fillByStripe"
  BY <1>1, ByStripeIs, <1>3 DEF Joins
<1> DEFINE d == c \o b
<1>5. Lists(d, 9) /\ Joins(d, c, b, 7, 9)
  BY <1>3, <1>4, <1>2, Joined
<1> HIDE DEF d
<1>6. /\ d[1] = "retrieve" /\ d[2] = "getByStripe" /\ d[3] = "readByStripe" /\
         d[4] = "get" /\ d[5] = "read" /\ d[6] = "fill" /\ d[7] = "fillByStripe" /\
         d[8] = "syncWrite" /\ d[9] = "evict"
  BY <1>3, <1>4, <1>2, <1>5 DEF Joins
<1> DEFINE e == d \o Find
<1>7. Lists(e, 12) /\ Joins(e, d, Find, 9, 12)
  BY <1>5, <1>6, FindIs, Joined
<1> HIDE DEF e
<1>8. /\ e[1] = "retrieve" /\ e[2] = "getByStripe" /\ e[3] = "readByStripe" /\
         e[4] = "get" /\ e[5] = "read" /\ e[6] = "fill" /\ e[7] = "fillByStripe" /\
         e[8] = "syncWrite" /\ e[9] = "evict" /\ e[10] = "get" /\ e[11] = "read" /\
         e[12] = "fill"
  BY <1>5, <1>6, FindIs, <1>7 DEF Joins
<1>9. QED
  BY <1>7, <1>8 DEF Sync, a, b, c, d, e

\* Position by position: Session.
LEMMA SessionIs ==
  /\ Lists(Session, 4)
  /\ Session[1] = "get" /\ Session[2] = "read" /\ Session[3] = "fill" /\
     Session[4] = "openSession"
<1> DEFINE a == <<"openSession">>
<1>1. Lists(a, 1) /\ a[1] = "openSession"
  BY RouteStepsAre DEF Lists
<1> HIDE DEF a
<1> DEFINE b == Find \o a
<1>2. Lists(b, 4) /\ Joins(b, Find, a, 3, 4)
  BY FindIs, <1>1, Joined
<1> HIDE DEF b
<1>3. /\ b[1] = "get" /\ b[2] = "read" /\ b[3] = "fill" /\ b[4] = "openSession"
  BY FindIs, <1>1, <1>2 DEF Joins
<1>4. QED
  BY <1>2, <1>3 DEF Session, a, b

\* Position by position: AccountPage.
LEMMA AccountPageIs ==
  /\ Lists(AccountPage, 7)
  /\ AccountPage[1] = "getByUser" /\ AccountPage[2] = "readByUser" /\
     AccountPage[3] = "get" /\ AccountPage[4] = "read" /\ AccountPage[5] = "fill" /\
     AccountPage[6] = "fillByUser" /\ AccountPage[7] = "edit"
<1> DEFINE a == <<"edit">>
<1>1. Lists(a, 1) /\ a[1] = "edit"
  BY RouteStepsAre DEF Lists
<1> HIDE DEF a
<1> DEFINE b == ByUser \o a
<1>2. Lists(b, 7) /\ Joins(b, ByUser, a, 6, 7)
  BY ByUserIs, <1>1, Joined
<1> HIDE DEF b
<1>3. /\ b[1] = "getByUser" /\ b[2] = "readByUser" /\ b[3] = "get" /\ b[4] = "read" /\
         b[5] = "fill" /\ b[6] = "fillByUser" /\ b[7] = "edit"
  BY ByUserIs, <1>1, <1>2 DEF Joins
<1>4. QED
  BY <1>2, <1>3 DEF AccountPage, a, b

\* Position by position: SyncDel.
LEMMA SyncDelIs ==
  /\ Lists(SyncDel, 9)
  /\ SyncDel[1] = "getByStripe" /\ SyncDel[2] = "readByStripe" /\ SyncDel[3] = "get" /\
     SyncDel[4] = "read" /\ SyncDel[5] = "fill" /\ SyncDel[6] = "fillByStripe" /\
     SyncDel[7] = "readAny" /\ SyncDel[8] = "softDelete" /\ SyncDel[9] = "evict"
<1> DEFINE a == <<"readAny", "softDelete", "evict">>
<1>1. Lists(a, 3) /\ a[1] = "readAny" /\ a[2] = "softDelete" /\ a[3] = "evict"
  BY RouteStepsAre DEF Lists
<1> HIDE DEF a
<1> DEFINE b == ByStripe \o a
<1>2. Lists(b, 9) /\ Joins(b, ByStripe, a, 6, 9)
  BY ByStripeIs, <1>1, Joined
<1> HIDE DEF b
<1>3. /\ b[1] = "getByStripe" /\ b[2] = "readByStripe" /\ b[3] = "get" /\ b[4] = "read" /\
         b[5] = "fill" /\ b[6] = "fillByStripe" /\ b[7] = "readAny" /\
         b[8] = "softDelete" /\ b[9] = "evict"
  BY ByStripeIs, <1>1, <1>2 DEF Joins
<1>4. QED
  BY <1>2, <1>3 DEF SyncDel, a, b

\* The route of "session".
LEMMA RouteSessionIs ==
  /\ Lists(Route["session"], 7)
  /\ Route["session"][1] = "get" /\ Route["session"][2] = "read" /\
     Route["session"][3] = "fill" /\ Route["session"][4] = "get" /\
     Route["session"][5] = "read" /\ Route["session"][6] = "fill" /\
     Route["session"][7] = "openSession"
<1> DEFINE a == Find \o Session
<1>1. Lists(a, 7) /\ Joins(a, Find, Session, 3, 7)
  BY FindIs, SessionIs, Joined
<1> HIDE DEF a
<1>2. /\ a[1] = "get" /\ a[2] = "read" /\ a[3] = "fill" /\ a[4] = "get" /\
         a[5] = "read" /\ a[6] = "fill" /\ a[7] = "openSession"
  BY FindIs, SessionIs, <1>1 DEF Joins
<1>3. QED
  BY <1>1, <1>2 DEF Route, Ops, RequestOps, Jobs, a

\* The route of "form".
LEMMA RouteFormIs ==
  /\ Lists(Route["form"], 19)
  /\ Route["form"][1] = "getByUser" /\ Route["form"][2] = "readByUser" /\
     Route["form"][3] = "get" /\ Route["form"][4] = "read" /\ Route["form"][5] = "fill" /\
     Route["form"][6] = "fillByUser" /\ Route["form"][7] = "edit" /\
     Route["form"][8] = "get" /\ Route["form"][9] = "read" /\
     Route["form"][10] = "fill" /\ Route["form"][11] = "get" /\
     Route["form"][12] = "read" /\ Route["form"][13] = "fill" /\
     Route["form"][14] = "send" /\ Route["form"][15] = "write" /\
     Route["form"][16] = "evict" /\ Route["form"][17] = "get" /\
     Route["form"][18] = "read" /\ Route["form"][19] = "fill"
<1> DEFINE a == AccountPage \o Find
<1>1. Lists(a, 10) /\ Joins(a, AccountPage, Find, 7, 10)
  BY AccountPageIs, FindIs, Joined
<1> HIDE DEF a
<1>2. /\ a[1] = "getByUser" /\ a[2] = "readByUser" /\ a[3] = "get" /\ a[4] = "read" /\
         a[5] = "fill" /\ a[6] = "fillByUser" /\ a[7] = "edit" /\ a[8] = "get" /\
         a[9] = "read" /\ a[10] = "fill"
  BY AccountPageIs, FindIs, <1>1 DEF Joins
<1> DEFINE b == a \o Update
<1>3. Lists(b, 19) /\ Joins(b, a, Update, 10, 19)
  BY <1>1, <1>2, UpdateIs, Joined
<1> HIDE DEF b
<1>4. /\ b[1] = "getByUser" /\ b[2] = "readByUser" /\ b[3] = "get" /\ b[4] = "read" /\
         b[5] = "fill" /\ b[6] = "fillByUser" /\ b[7] = "edit" /\ b[8] = "get" /\
         b[9] = "read" /\ b[10] = "fill" /\ b[11] = "get" /\ b[12] = "read" /\
         b[13] = "fill" /\ b[14] = "send" /\ b[15] = "write" /\ b[16] = "evict" /\
         b[17] = "get" /\ b[18] = "read" /\ b[19] = "fill"
  BY <1>1, <1>2, UpdateIs, <1>3 DEF Joins
<1>5. QED
  BY <1>3, <1>4 DEF Route, Ops, RequestOps, Jobs, a, b

\* The route of "patch".
LEMMA RoutePatchIs ==
  /\ Lists(Route["patch"], 12)
  /\ Route["patch"][1] = "get" /\ Route["patch"][2] = "read" /\
     Route["patch"][3] = "fill" /\ Route["patch"][4] = "get" /\
     Route["patch"][5] = "read" /\ Route["patch"][6] = "fill" /\
     Route["patch"][7] = "send" /\ Route["patch"][8] = "write" /\
     Route["patch"][9] = "evict" /\ Route["patch"][10] = "get" /\
     Route["patch"][11] = "read" /\ Route["patch"][12] = "fill"
<1> DEFINE a == Find \o Update
<1>1. Lists(a, 12) /\ Joins(a, Find, Update, 3, 12)
  BY FindIs, UpdateIs, Joined
<1> HIDE DEF a
<1>2. /\ a[1] = "get" /\ a[2] = "read" /\ a[3] = "fill" /\ a[4] = "get" /\
         a[5] = "read" /\ a[6] = "fill" /\ a[7] = "send" /\ a[8] = "write" /\
         a[9] = "evict" /\ a[10] = "get" /\ a[11] = "read" /\ a[12] = "fill"
  BY FindIs, UpdateIs, <1>1 DEF Joins
<1>3. QED
  BY <1>1, <1>2 DEF Route, Ops, RequestOps, Jobs, a

\* The route of "delete".
LEMMA RouteDeleteIs ==
  /\ Lists(Route["delete"], 9)
  /\ Route["delete"][1] = "get" /\ Route["delete"][2] = "read" /\
     Route["delete"][3] = "fill" /\ Route["delete"][4] = "get" /\
     Route["delete"][5] = "read" /\ Route["delete"][6] = "fill" /\
     Route["delete"][7] = "destroy" /\ Route["delete"][8] = "softDelete" /\
     Route["delete"][9] = "evict"
<1> DEFINE a == Find \o Delete
<1>1. Lists(a, 9) /\ Joins(a, Find, Delete, 3, 9)
  BY FindIs, DeleteIs, Joined
<1> HIDE DEF a
<1>2. /\ a[1] = "get" /\ a[2] = "read" /\ a[3] = "fill" /\ a[4] = "get" /\
         a[5] = "read" /\ a[6] = "fill" /\ a[7] = "destroy" /\ a[8] = "softDelete" /\
         a[9] = "evict"
  BY FindIs, DeleteIs, <1>1 DEF Joins
<1>3. QED
  BY <1>1, <1>2 DEF Route, Ops, RequestOps, Jobs, a

\* The route of "sync".
LEMMA RouteSyncIs ==
  /\ Lists(Route["sync"], 15)
  /\ Route["sync"][1] = "get" /\ Route["sync"][2] = "read" /\ Route["sync"][3] = "fill" /\
     Route["sync"][4] = "retrieve" /\ Route["sync"][5] = "getByStripe" /\
     Route["sync"][6] = "readByStripe" /\ Route["sync"][7] = "get" /\
     Route["sync"][8] = "read" /\ Route["sync"][9] = "fill" /\
     Route["sync"][10] = "fillByStripe" /\ Route["sync"][11] = "syncWrite" /\
     Route["sync"][12] = "evict" /\ Route["sync"][13] = "get" /\
     Route["sync"][14] = "read" /\ Route["sync"][15] = "fill"
<1> DEFINE a == Find \o Sync
<1>1. Lists(a, 15) /\ Joins(a, Find, Sync, 3, 15)
  BY FindIs, SyncIs, Joined
<1> HIDE DEF a
<1>2. /\ a[1] = "get" /\ a[2] = "read" /\ a[3] = "fill" /\ a[4] = "retrieve" /\
         a[5] = "getByStripe" /\ a[6] = "readByStripe" /\ a[7] = "get" /\ a[8] = "read" /\
         a[9] = "fill" /\ a[10] = "fillByStripe" /\ a[11] = "syncWrite" /\
         a[12] = "evict" /\ a[13] = "get" /\ a[14] = "read" /\ a[15] = "fill"
  BY FindIs, SyncIs, <1>1 DEF Joins
<1>3. QED
  BY <1>1, <1>2 DEF Route, Ops, RequestOps, Jobs, a

\* The route of "customer.updated".
LEMMA RouteUpdatedIs ==
  /\ Lists(Route["customer.updated"], 12)
  /\ Route["customer.updated"][1] = "retrieve" /\
     Route["customer.updated"][2] = "getByStripe" /\
     Route["customer.updated"][3] = "readByStripe" /\
     Route["customer.updated"][4] = "get" /\ Route["customer.updated"][5] = "read" /\
     Route["customer.updated"][6] = "fill" /\
     Route["customer.updated"][7] = "fillByStripe" /\
     Route["customer.updated"][8] = "syncWrite" /\
     Route["customer.updated"][9] = "evict" /\ Route["customer.updated"][10] = "get" /\
     Route["customer.updated"][11] = "read" /\ Route["customer.updated"][12] = "fill"
  BY SyncIs DEF Route, Ops, RequestOps, Jobs

\* The route of "customer.deleted".
LEMMA RouteDeletedIs ==
  /\ Lists(Route["customer.deleted"], 9)
  /\ Route["customer.deleted"][1] = "getByStripe" /\
     Route["customer.deleted"][2] = "readByStripe" /\
     Route["customer.deleted"][3] = "get" /\ Route["customer.deleted"][4] = "read" /\
     Route["customer.deleted"][5] = "fill" /\
     Route["customer.deleted"][6] = "fillByStripe" /\
     Route["customer.deleted"][7] = "readAny" /\
     Route["customer.deleted"][8] = "softDelete" /\ Route["customer.deleted"][9] = "evict"
  BY SyncDelIs DEF Route, Ops, RequestOps, Jobs

\* What the steps of a route rest on: which operations have them, and what was in hand.
RouteStep(o, i) ==
  /\ i \in SeesFrom(o) => Route[o][i] # "evict"
  /\ Route[o][i] = "syncWrite" => o \in {"sync", "customer.updated"} /\ i \in SeesFrom(o)
  /\ Route[o][i] \in {"send", "write"}
       => o \in {"form", "patch"} /\ (o = "form" => i \in SeesFrom(o))
  /\ Route[o][i] = "retrieve" => o \in {"sync", "customer.updated"}
  /\ Route[o][i] = "edit" => o = "form"
  /\ Route[o][i] = "softDelete" => o \in {"delete", "customer.deleted"}

\* From one step to the next: a copy is used only by a step that comes after another one
\* that had it, what Stripe said is not lost on the way, and no step is left out.
RouteNext(o, i, n) ==
  /\ Route[o][n] \in UsesCopy => Route[o][i] \in UsesCopy \cup {"read"}
  /\ n \in SeesFrom(o) => i \in SeesFrom(o) \/ Route[o][i] \in {"retrieve", "edit"}
  /\ Route[o][n] = "write" => Route[o][i] = "send"
  /\ o = "delete" /\ Route[o][n] = "softDelete" => Route[o][i] = "destroy"

\* The same when a hit in Redis skips the rest of a lookup.
Skips(o, i, n) ==
  \/ Route[o][i] = "get" /\ n = i + 3
  \/ Route[o][i] \in {"getByStripe", "getByUser"} /\ n = i + 6

RouteHit(o, i, n) ==
  /\ Route[o][n] # "write" /\ (o = "delete" => Route[o][n] # "softDelete")
  /\ n \in SeesFrom(o) => i \in SeesFrom(o)

RouteFits(o) ==
  \A i \in 1..Len(Route[o]) :
    /\ RouteStep(o, i)
    /\ \A n \in 1..Len(Route[o]) :
         (n = i + 1 => RouteNext(o, i, n)) /\ (Skips(o, i, n) => RouteHit(o, i, n))

\* The route of "session" is one.
LEMMA RouteSessionFits == RouteFits("session")
<1>1. Len(Route["session"]) = 7
  BY RouteSessionIs DEF Lists
<1>2. ASSUME NEW i \in 1..7
      PROVE  RouteStep("session", i)
  <2>1. i = 1 \/ i = 2 \/ i = 3 \/ i = 4 \/ i = 5 \/ i = 6 \/ i = 7
    OBVIOUS
  <2>2. QED
    BY <2>1, RouteSessionIs DEF RouteStep, SeesFrom
<1>3. ASSUME NEW i \in 1..7, NEW n \in 1..7, n = i + 1
      PROVE  RouteNext("session", i, n)
  <2>1. (i = 1 /\ n = 2) \/ (i = 2 /\ n = 3) \/ (i = 3 /\ n = 4) \/ (i = 4 /\ n = 5) \/
        (i = 5 /\ n = 6) \/ (i = 6 /\ n = 7)
    BY <1>3
  <2>2. QED
    BY <2>1, RouteSessionIs DEF RouteNext, SeesFrom, UsesCopy
<1>4. ASSUME NEW i \in 1..7, NEW n \in 1..7, Skips("session", i, n)
      PROVE  RouteHit("session", i, n)
  <2>1. i = 1 \/ i = 2 \/ i = 3 \/ i = 4 \/ i = 5 \/ i = 6 \/ i = 7
    OBVIOUS
  <2>2. (i = 1 /\ n = 4) \/ (i = 4 /\ n = 7)
    BY <1>4, <2>1, RouteSessionIs DEF Skips
  <2>3. QED
    BY <2>2, RouteSessionIs DEF RouteHit, SeesFrom
<1>5. QED
  BY <1>1, <1>2, <1>3, <1>4 DEF RouteFits

\* The route of "form" is one.
LEMMA RouteFormFits == RouteFits("form")
<1>1. Len(Route["form"]) = 19
  BY RouteFormIs DEF Lists
<1>2. ASSUME NEW i \in 1..19
      PROVE  RouteStep("form", i)
  <2>1. i = 1 \/ i = 2 \/ i = 3 \/ i = 4 \/ i = 5 \/ i = 6 \/ i = 7 \/ i = 8 \/ i = 9 \/
        i = 10 \/ i = 11 \/ i = 12 \/ i = 13 \/ i = 14 \/ i = 15 \/ i = 16 \/ i = 17 \/
        i = 18 \/ i = 19
    OBVIOUS
  <2>2. QED
    BY <2>1, RouteFormIs DEF RouteStep, SeesFrom
<1>3. ASSUME NEW i \in 1..19, NEW n \in 1..19, n = i + 1
      PROVE  RouteNext("form", i, n)
  <2>1. (i = 1 /\ n = 2) \/ (i = 2 /\ n = 3) \/ (i = 3 /\ n = 4) \/ (i = 4 /\ n = 5) \/
        (i = 5 /\ n = 6) \/ (i = 6 /\ n = 7) \/ (i = 7 /\ n = 8) \/ (i = 8 /\ n = 9) \/
        (i = 9 /\ n = 10) \/ (i = 10 /\ n = 11) \/ (i = 11 /\ n = 12) \/
        (i = 12 /\ n = 13) \/ (i = 13 /\ n = 14) \/ (i = 14 /\ n = 15) \/
        (i = 15 /\ n = 16) \/ (i = 16 /\ n = 17) \/ (i = 17 /\ n = 18) \/
        (i = 18 /\ n = 19)
    BY <1>3
  <2>2. QED
    BY <2>1, RouteFormIs DEF RouteNext, SeesFrom, UsesCopy
<1>4. ASSUME NEW i \in 1..19, NEW n \in 1..19, Skips("form", i, n)
      PROVE  RouteHit("form", i, n)
  <2>1. i = 1 \/ i = 2 \/ i = 3 \/ i = 4 \/ i = 5 \/ i = 6 \/ i = 7 \/ i = 8 \/ i = 9 \/
        i = 10 \/ i = 11 \/ i = 12 \/ i = 13 \/ i = 14 \/ i = 15 \/ i = 16 \/ i = 17 \/
        i = 18 \/ i = 19
    OBVIOUS
  <2>2. (i = 1 /\ n = 7) \/ (i = 3 /\ n = 6) \/ (i = 8 /\ n = 11) \/ (i = 11 /\ n = 14)
    BY <1>4, <2>1, RouteFormIs DEF Skips
  <2>3. QED
    BY <2>2, RouteFormIs DEF RouteHit, SeesFrom
<1>5. QED
  BY <1>1, <1>2, <1>3, <1>4 DEF RouteFits

\* The route of "patch" is one.
LEMMA RoutePatchFits == RouteFits("patch")
<1>1. Len(Route["patch"]) = 12
  BY RoutePatchIs DEF Lists
<1>2. ASSUME NEW i \in 1..12
      PROVE  RouteStep("patch", i)
  <2>1. i = 1 \/ i = 2 \/ i = 3 \/ i = 4 \/ i = 5 \/ i = 6 \/ i = 7 \/ i = 8 \/ i = 9 \/
        i = 10 \/ i = 11 \/ i = 12
    OBVIOUS
  <2>2. QED
    BY <2>1, RoutePatchIs DEF RouteStep, SeesFrom
<1>3. ASSUME NEW i \in 1..12, NEW n \in 1..12, n = i + 1
      PROVE  RouteNext("patch", i, n)
  <2>1. (i = 1 /\ n = 2) \/ (i = 2 /\ n = 3) \/ (i = 3 /\ n = 4) \/ (i = 4 /\ n = 5) \/
        (i = 5 /\ n = 6) \/ (i = 6 /\ n = 7) \/ (i = 7 /\ n = 8) \/ (i = 8 /\ n = 9) \/
        (i = 9 /\ n = 10) \/ (i = 10 /\ n = 11) \/ (i = 11 /\ n = 12)
    BY <1>3
  <2>2. QED
    BY <2>1, RoutePatchIs DEF RouteNext, SeesFrom, UsesCopy
<1>4. ASSUME NEW i \in 1..12, NEW n \in 1..12, Skips("patch", i, n)
      PROVE  RouteHit("patch", i, n)
  <2>1. i = 1 \/ i = 2 \/ i = 3 \/ i = 4 \/ i = 5 \/ i = 6 \/ i = 7 \/ i = 8 \/ i = 9 \/
        i = 10 \/ i = 11 \/ i = 12
    OBVIOUS
  <2>2. (i = 1 /\ n = 4) \/ (i = 4 /\ n = 7)
    BY <1>4, <2>1, RoutePatchIs DEF Skips
  <2>3. QED
    BY <2>2, RoutePatchIs DEF RouteHit, SeesFrom
<1>5. QED
  BY <1>1, <1>2, <1>3, <1>4 DEF RouteFits

\* The route of "delete" is one.
LEMMA RouteDeleteFits == RouteFits("delete")
<1>1. Len(Route["delete"]) = 9
  BY RouteDeleteIs DEF Lists
<1>2. ASSUME NEW i \in 1..9
      PROVE  RouteStep("delete", i)
  <2>1. i = 1 \/ i = 2 \/ i = 3 \/ i = 4 \/ i = 5 \/ i = 6 \/ i = 7 \/ i = 8 \/ i = 9
    OBVIOUS
  <2>2. QED
    BY <2>1, RouteDeleteIs DEF RouteStep, SeesFrom
<1>3. ASSUME NEW i \in 1..9, NEW n \in 1..9, n = i + 1
      PROVE  RouteNext("delete", i, n)
  <2>1. (i = 1 /\ n = 2) \/ (i = 2 /\ n = 3) \/ (i = 3 /\ n = 4) \/ (i = 4 /\ n = 5) \/
        (i = 5 /\ n = 6) \/ (i = 6 /\ n = 7) \/ (i = 7 /\ n = 8) \/ (i = 8 /\ n = 9)
    BY <1>3
  <2>2. QED
    BY <2>1, RouteDeleteIs DEF RouteNext, SeesFrom, UsesCopy
<1>4. ASSUME NEW i \in 1..9, NEW n \in 1..9, Skips("delete", i, n)
      PROVE  RouteHit("delete", i, n)
  <2>1. i = 1 \/ i = 2 \/ i = 3 \/ i = 4 \/ i = 5 \/ i = 6 \/ i = 7 \/ i = 8 \/ i = 9
    OBVIOUS
  <2>2. (i = 1 /\ n = 4) \/ (i = 4 /\ n = 7)
    BY <1>4, <2>1, RouteDeleteIs DEF Skips
  <2>3. QED
    BY <2>2, RouteDeleteIs DEF RouteHit, SeesFrom
<1>5. QED
  BY <1>1, <1>2, <1>3, <1>4 DEF RouteFits

\* The route of "sync" is one.
LEMMA RouteSyncFits == RouteFits("sync")
<1>1. Len(Route["sync"]) = 15
  BY RouteSyncIs DEF Lists
<1>2. ASSUME NEW i \in 1..15
      PROVE  RouteStep("sync", i)
  <2>1. i = 1 \/ i = 2 \/ i = 3 \/ i = 4 \/ i = 5 \/ i = 6 \/ i = 7 \/ i = 8 \/ i = 9 \/
        i = 10 \/ i = 11 \/ i = 12 \/ i = 13 \/ i = 14 \/ i = 15
    OBVIOUS
  <2>2. QED
    BY <2>1, RouteSyncIs DEF RouteStep, SeesFrom
<1>3. ASSUME NEW i \in 1..15, NEW n \in 1..15, n = i + 1
      PROVE  RouteNext("sync", i, n)
  <2>1. (i = 1 /\ n = 2) \/ (i = 2 /\ n = 3) \/ (i = 3 /\ n = 4) \/ (i = 4 /\ n = 5) \/
        (i = 5 /\ n = 6) \/ (i = 6 /\ n = 7) \/ (i = 7 /\ n = 8) \/ (i = 8 /\ n = 9) \/
        (i = 9 /\ n = 10) \/ (i = 10 /\ n = 11) \/ (i = 11 /\ n = 12) \/
        (i = 12 /\ n = 13) \/ (i = 13 /\ n = 14) \/ (i = 14 /\ n = 15)
    BY <1>3
  <2>2. QED
    BY <2>1, RouteSyncIs DEF RouteNext, SeesFrom, UsesCopy
<1>4. ASSUME NEW i \in 1..15, NEW n \in 1..15, Skips("sync", i, n)
      PROVE  RouteHit("sync", i, n)
  <2>1. i = 1 \/ i = 2 \/ i = 3 \/ i = 4 \/ i = 5 \/ i = 6 \/ i = 7 \/ i = 8 \/ i = 9 \/
        i = 10 \/ i = 11 \/ i = 12 \/ i = 13 \/ i = 14 \/ i = 15
    OBVIOUS
  <2>2. (i = 1 /\ n = 4) \/ (i = 5 /\ n = 11) \/ (i = 7 /\ n = 10)
    BY <1>4, <2>1, RouteSyncIs DEF Skips
  <2>3. QED
    BY <2>2, RouteSyncIs DEF RouteHit, SeesFrom
<1>5. QED
  BY <1>1, <1>2, <1>3, <1>4 DEF RouteFits

\* The route of "customer.updated" is one.
LEMMA RouteUpdatedFits == RouteFits("customer.updated")
<1>1. Len(Route["customer.updated"]) = 12
  BY RouteUpdatedIs DEF Lists
<1>2. ASSUME NEW i \in 1..12
      PROVE  RouteStep("customer.updated", i)
  <2>1. i = 1 \/ i = 2 \/ i = 3 \/ i = 4 \/ i = 5 \/ i = 6 \/ i = 7 \/ i = 8 \/ i = 9 \/
        i = 10 \/ i = 11 \/ i = 12
    OBVIOUS
  <2>2. QED
    BY <2>1, RouteUpdatedIs DEF RouteStep, SeesFrom
<1>3. ASSUME NEW i \in 1..12, NEW n \in 1..12, n = i + 1
      PROVE  RouteNext("customer.updated", i, n)
  <2>1. (i = 1 /\ n = 2) \/ (i = 2 /\ n = 3) \/ (i = 3 /\ n = 4) \/ (i = 4 /\ n = 5) \/
        (i = 5 /\ n = 6) \/ (i = 6 /\ n = 7) \/ (i = 7 /\ n = 8) \/ (i = 8 /\ n = 9) \/
        (i = 9 /\ n = 10) \/ (i = 10 /\ n = 11) \/ (i = 11 /\ n = 12)
    BY <1>3
  <2>2. QED
    BY <2>1, RouteUpdatedIs DEF RouteNext, SeesFrom, UsesCopy
<1>4. ASSUME NEW i \in 1..12, NEW n \in 1..12, Skips("customer.updated", i, n)
      PROVE  RouteHit("customer.updated", i, n)
  <2>1. i = 1 \/ i = 2 \/ i = 3 \/ i = 4 \/ i = 5 \/ i = 6 \/ i = 7 \/ i = 8 \/ i = 9 \/
        i = 10 \/ i = 11 \/ i = 12
    OBVIOUS
  <2>2. (i = 2 /\ n = 8) \/ (i = 4 /\ n = 7)
    BY <1>4, <2>1, RouteUpdatedIs DEF Skips
  <2>3. QED
    BY <2>2, RouteUpdatedIs DEF RouteHit, SeesFrom
<1>5. QED
  BY <1>1, <1>2, <1>3, <1>4 DEF RouteFits

\* The route of "customer.deleted" is one.
LEMMA RouteDeletedFits == RouteFits("customer.deleted")
<1>1. Len(Route["customer.deleted"]) = 9
  BY RouteDeletedIs DEF Lists
<1>2. ASSUME NEW i \in 1..9
      PROVE  RouteStep("customer.deleted", i)
  <2>1. i = 1 \/ i = 2 \/ i = 3 \/ i = 4 \/ i = 5 \/ i = 6 \/ i = 7 \/ i = 8 \/ i = 9
    OBVIOUS
  <2>2. QED
    BY <2>1, RouteDeletedIs DEF RouteStep, SeesFrom
<1>3. ASSUME NEW i \in 1..9, NEW n \in 1..9, n = i + 1
      PROVE  RouteNext("customer.deleted", i, n)
  <2>1. (i = 1 /\ n = 2) \/ (i = 2 /\ n = 3) \/ (i = 3 /\ n = 4) \/ (i = 4 /\ n = 5) \/
        (i = 5 /\ n = 6) \/ (i = 6 /\ n = 7) \/ (i = 7 /\ n = 8) \/ (i = 8 /\ n = 9)
    BY <1>3
  <2>2. QED
    BY <2>1, RouteDeletedIs DEF RouteNext, SeesFrom, UsesCopy
<1>4. ASSUME NEW i \in 1..9, NEW n \in 1..9, Skips("customer.deleted", i, n)
      PROVE  RouteHit("customer.deleted", i, n)
  <2>1. i = 1 \/ i = 2 \/ i = 3 \/ i = 4 \/ i = 5 \/ i = 6 \/ i = 7 \/ i = 8 \/ i = 9
    OBVIOUS
  <2>2. (i = 1 /\ n = 7) \/ (i = 3 /\ n = 6)
    BY <1>4, <2>1, RouteDeletedIs DEF Skips
  <2>3. QED
    BY <2>2, RouteDeletedIs DEF RouteHit, SeesFrom
<1>5. QED
  BY <1>1, <1>2, <1>3, <1>4 DEF RouteFits

\* Every route is one.
LEMMA RoutesFit ==
  ASSUME NEW o \in Ops
  PROVE  RouteFits(o)
  BY RouteSessionFits, RouteFormFits, RoutePatchFits, RouteDeleteFits, RouteSyncFits,
     RouteUpdatedFits, RouteDeletedFits DEF Ops, RequestOps, Jobs

--------------------------------------------------------------------------------
(* Customers: how a call goes on.                                             *)

\* A route is a list of steps, none of which both uses a copy and forgets it.
LEMMA RouteIsList ==
  ASSUME NEW o \in Ops
  PROVE  Route[o] \in Seq(RouteSteps) /\ Len(Route[o]) \in Nat
<1>1. Route[o] \in Seq(RouteSteps)
  BY RouteSessionIs, RouteFormIs, RoutePatchIs, RouteDeleteIs, RouteSyncIs, RouteUpdatedIs,
     RouteDeletedIs DEF Ops, RequestOps, Jobs, Lists
<1>2. QED
  BY <1>1

\* No step both uses a copy and forgets it.
LEMMA UsesApart == UsesCopy \cap Forgetting = {}
  BY DEF UsesCopy, Forgetting

Lifetime == [at : Nat, got : Copy \cup {None}, saw : AtStripe \cup {None}]

CallsTyped ==
  call \in [Calls -> Lifetime] /\ \A c \in Calls : call[c].at <= Len(Route[op[c]])

GotHeld == \A c \in Calls : call[c].got # None => IsHeld(call[c].got)

\* What the world does in any step: an operation stays what it is, Stripe has had every
\* value that it has had, and a customer who is gone does not come back.
WorldGoesOn ==
  /\ op' = op /\ \A f \in Fields : held[f] \subseteq held'[f]
  /\ stripe.gone => stripe'.gone

\* A call that is on its route is at one of its positions.
LEMMA OnRoute ==
  ASSUME CustomerTypeOK, NEW c \in Calls, call[c].at # 0
  PROVE  op[c] \in Ops /\ call[c].at \in 1..Len(Route[op[c]])
<1>1. op[c] \in Ops /\ call[c].at \in Nat /\ call[c].at <= Len(Route[op[c]])
  BY DEF CustomerTypeOK
<1>2. Len(Route[op[c]]) \in Nat
  BY <1>1, RouteIsList
<1>3. QED
  BY <1>1, <1>2

\* A call that does not move has what it had.
LEMMA StaysFit ==
  ASSUME CallsFit, WorldGoesOn, NEW c \in Calls, call'[c] = call[c], call[c].at # 0
  PROVE  CallFits(c)'
<1>1. CallFits(c) /\ op'[c] = op[c]
  BY DEF CallsFit, WorldGoesOn
<1>2. (Before(c, "write") <=> Before(c, "write")')
      /\ (Before(c, "softDelete") <=> Before(c, "softDelete")')
  BY <1>1 DEF Before
<1>3. "email" \in Fields /\ "name" \in Fields
  BY DEF Fields
<1>4. NamedIsIn(held, op[c], c, call[c].saw)
      => NamedIsIn(held, op[c], c, call[c].saw)'
  BY <1>1, <1>3 DEF NamedIsIn, WorldGoesOn
<1>5. call[c].saw # None /\ IsHeld(call[c].saw) => IsHeld(call[c].saw)'
  BY <1>1 DEF IsHeld, WorldGoesOn
<1>6. QED
  BY <1>1, <1>2, <1>4, <1>5 DEF CallFits, WorldGoesOn

\* What a call may take along to its next step.
MayCarry(c, n, got, saw) ==
  LET o == op[c]
      i == call[c].at
  IN  /\ got \in Copy \cup {None} /\ saw \in AtStripe \cup {None}
      /\ n = 1 \/ (n \in Nat /\ Skips(o, i, i + n) /\ got # None)
      /\ Route[o][i] \in UsesCopy \cup {"read"} => got # None
      /\ got # None => \A f \in Fields : got[f] \in held'[f]
      /\ i \in SeesFrom(o) \/ Route[o][i] \in {"retrieve", "edit"} => saw # None
      /\ o \in {"sync", "customer.updated"} /\ saw # None
           => \A f \in Fields : saw[f] \in held'[f]
      /\ Route[o][i] = "send" => NamedIsIn(held', o, c, saw)
      /\ Route[o][i] = "destroy" => stripe'.gone

\* A call that ends has nothing.
LEMMA EndFits ==
  ASSUME CustomerTypeOK, CopiesHeld, CallsFit, WorldGoesOn, NEW c \in Calls, End(c)
  PROVE  CallsTyped' /\ CallsFit' /\ GotHeld'
<1>1. call \in [Calls -> Lifetime] /\ op \in [Calls -> Ops] /\ op' = op
      /\ \A d \in Calls : call[d].at <= Len(Route[op[d]])
  BY DEF CustomerTypeOK, Lifetime, WorldGoesOn
<1>2. Ended \in Lifetime /\ Ended.at = 0 /\ Ended.got = None
  BY DEF Ended, Lifetime
<1>3. call' \in [Calls -> Lifetime] /\ call'[c] = Ended
      /\ \A d \in Calls : d # c => call'[d] = call[d]
  BY <1>1, <1>2 DEF End
<1>4. Len(Route[op[c]]) \in Nat
  BY <1>1, RouteIsList
<1>5. CallsTyped'
  BY <1>1, <1>2, <1>3, <1>4 DEF CallsTyped
<1>6. ASSUME NEW d \in Calls, call'[d].at # 0
      PROVE  CallFits(d)'
  BY <1>2, <1>3, <1>6, StaysFit
<1>7. ASSUME NEW d \in Calls, call'[d].got # None
      PROVE  IsHeld(call[d].got)'
  BY <1>2, <1>3, <1>7 DEF CopiesHeld, IsHeld, WorldGoesOn
<1>8. QED
  BY <1>5, <1>6, <1>7 DEF CallsFit, GotHeld

\* A call that goes on has what its next step uses.
LEMMA GoFits ==
  ASSUME CustomerTypeOK, CopiesHeld, CallsFit, WorldGoesOn, NEW c \in Calls, call[c].at # 0,
         NEW n, NEW got, NEW saw, MayCarry(c, n, got, saw), Go(c, n, got, saw)
  PROVE  CallsTyped' /\ CallsFit' /\ GotHeld'
<1> DEFINE o    == op[c]
           i    == call[c].at
           next == i + n
           kept == IF Route[o][next] \in Forgetting THEN None ELSE got
           shown == IF Route[o][next] = "evict" THEN None ELSE saw
           new  == [at |-> next, got |-> kept, saw |-> shown]
<1>1. call \in [Calls -> Lifetime] /\ op \in [Calls -> Ops] /\ op' = op
      /\ \A d \in Calls : call[d].at <= Len(Route[op[d]])
  BY DEF CustomerTypeOK, Lifetime, WorldGoesOn
<1>2. o \in Ops /\ i \in 1..Len(Route[o]) /\ Len(Route[o]) \in Nat
  BY OnRoute, RouteIsList
<1>3. n \in Nat /\ next \in Nat /\ next >= 1
  BY <1>2 DEF MayCarry
<1>4. CASE next > Len(Route[o])
  <2>1. End(c)
    BY <1>4 DEF Go
  <2>2. QED
    BY <2>1, EndFits
<1>5. CASE ~ (next > Len(Route[o]))
  <2>1. call' = [call EXCEPT ![c] = new]
    BY <1>5 DEF Go
  <2>2. next \in 1..Len(Route[o])
    BY <1>2, <1>3, <1>5
  <2>3. RouteStep(o, i) /\ RouteStep(o, next)
        /\ (n = 1 => RouteNext(o, i, next)) /\ (Skips(o, i, next) => RouteHit(o, i, next))
    BY <1>2, <2>2, RoutesFit DEF RouteFits
  <2>4. kept \in Copy \cup {None} /\ shown \in AtStripe \cup {None}
    BY DEF MayCarry
  <2>5. new \in Lifetime
    BY <1>3, <2>4 DEF Lifetime
  <2> HIDE DEF kept, shown
  <2>6. new.at = next /\ new.got = kept /\ new.saw = shown
    OBVIOUS
  <2> HIDE DEF new, next
  <2>7. call' \in [Calls -> Lifetime] /\ call'[c] = new
        /\ \A d \in Calls : d # c => call'[d] = call[d]
    BY <1>1, <2>1, <2>5
  <2>8. CallsTyped'
    BY <1>1, <1>2, <2>2, <2>6, <2>7 DEF CallsTyped
  <2>9. MayCarry(c, n, got, saw)
    OBVIOUS
  <2>10. op'[c] = o /\ next # 0
    BY <1>1, <2>2
  <2>11. n = 1 \/ (Skips(o, i, next) /\ got # None)
    BY <2>9 DEF MayCarry, next
  <2>12. (Route[o][i] \in UsesCopy \cup {"read"} => got # None)
         /\ (i \in SeesFrom(o) \/ Route[o][i] \in {"retrieve", "edit"} => saw # None)
         /\ (Route[o][i] = "send" => NamedIsIn(held', o, c, saw))
         /\ (Route[o][i] = "destroy" => stripe'.gone)
    BY <2>9 DEF MayCarry
  <2>13. o \in {"sync", "customer.updated"} /\ saw # None
           => \A f \in Fields : saw[f] \in held'[f]
    BY <2>9 DEF MayCarry
  <2>14. got # None => \A f \in Fields : got[f] \in held'[f]
    BY <2>9 DEF MayCarry
  <2> HIDE DEF o, i
  <2>15. Route[o][next] \in UsesCopy => kept # None
    <3> SUFFICES ASSUME Route[o][next] \in UsesCopy
                 PROVE  kept # None
      OBVIOUS
    <3>1. kept = got
      BY UsesApart DEF kept, next
    <3>2. got # None
      BY <2>3, <2>11, <2>12 DEF RouteNext
    <3>3. QED
      BY <3>1, <3>2
  <2>16. next \in SeesFrom(o) => shown # None
    <3> SUFFICES ASSUME next \in SeesFrom(o)
                 PROVE  shown # None
      OBVIOUS
    <3>1. shown = saw
      BY <2>3 DEF shown, next, RouteStep
    <3>2. saw # None
      BY <2>3, <2>11, <2>12 DEF RouteNext, RouteHit
    <3>3. QED
      BY <3>1, <3>2
  <2>17. o \in {"sync", "customer.updated"} /\ shown # None
           => \A f \in Fields : shown[f] \in held'[f]
    BY <2>13 DEF shown
  <2>18. Route[o][next] = "write" => NamedIsIn(held', o, c, shown)
    <3> SUFFICES ASSUME Route[o][next] = "write"
                 PROVE  NamedIsIn(held', o, c, shown)
      OBVIOUS
    <3>1. shown = saw
      BY DEF shown, next
    <3>2. NamedIsIn(held', o, c, saw)
      BY <2>3, <2>11, <2>12 DEF RouteNext, RouteHit
    <3>3. QED
      BY <3>1, <3>2
  <2>19. Route[o][next] = "softDelete" /\ o = "delete" => stripe'.gone
    BY <2>3, <2>11, <2>12 DEF RouteNext, RouteHit
  <2>20. CallFits(c)'
    BY <2>6, <2>7, <2>10, <2>15, <2>16, <2>17, <2>18, <2>19 DEF CallFits, Before, IsHeld
  <2>21. ASSUME NEW d \in Calls, call'[d].at # 0
         PROVE  CallFits(d)'
    BY <2>7, <2>20, <2>21, StaysFit
  <2>22. kept # None => \A f \in Fields : kept[f] \in held'[f]
    BY <2>14 DEF kept
  <2>23. ASSUME NEW d \in Calls, call'[d].got # None
         PROVE  IsHeld(call[d].got)'
    <3>1. CASE d = c
      BY <2>6, <2>7, <2>22, <2>23, <3>1 DEF IsHeld
    <3>2. CASE d # c
      BY <2>7, <2>23, <3>2 DEF CopiesHeld, IsHeld, WorldGoesOn
    <3>3. QED
      BY <3>1, <3>2
  <2>24. QED
    BY <2>8, <2>21, <2>23 DEF CallsFit, GotHeld
<1>6. QED
  BY <1>4, <1>5

--------------------------------------------------------------------------------
(* Customers: one lemma per action.                                           *)

\* What is not the calls': its types, and where copies are stored.
WorldTyped ==
  /\ stripe \in [fields : AtStripe, gone : BOOLEAN]
  /\ customer \in [fields : Copy, deleted : BOOLEAN]
  /\ cache \in [Keys -> Copy \cup {None}]
  /\ op \in [Calls -> Ops]
  /\ edits \in 0..MaxEdits
  /\ held \in [Fields -> SUBSET (Values \cup {"nothing"})]

CopiesStored ==
  /\ IsHeld(stripe.fields) /\ IsHeld(customer.fields)
  /\ \A k \in Keys : cache[k] # None => IsHeld(cache[k])

\* The parts of the invariant, taken together.
LEMMA Together ==
  ASSUME WorldTyped', CopiesStored', GoneFirst', CallsTyped', CallsFit', GotHeld'
  PROVE  CustomerIInv'
BY DEF CustomerIInv, CustomerTypeOK, CopiesHeld, WorldTyped, CopiesStored, CallsTyped,
       GotHeld, Lifetime

\* The parts of the invariant, taken apart.
LEMMA TakenApart ==
  ASSUME CustomerIInv
  PROVE  /\ CustomerTypeOK /\ CopiesHeld /\ CallsFit /\ GoneFirst
         /\ WorldTyped /\ CopiesStored /\ GotHeld
         /\ call \in [Calls -> Lifetime]
BY DEF CustomerIInv, CustomerTypeOK, CopiesHeld, WorldTyped, CopiesStored, GotHeld, Lifetime

\* When only the calls and the cache change, and the cache takes a copy that is held or
\* nothing, the rest is as it was.
LEMMA OnlyTheCache ==
  ASSUME CustomerIInv, UNCHANGED <<stripe, customer, op, edits, held>>,
         cache' \in [Keys -> Copy \cup {None}],
         \A k \in Keys : cache'[k] # None => IsHeld(cache'[k])
  PROVE  WorldTyped' /\ CopiesStored' /\ GoneFirst' /\ WorldGoesOn
BY TakenApart DEF WorldTyped, CopiesStored, GoneFirst, WorldGoesOn, IsHeld

\* When not even the cache changes.
LEMMA OnlyTheCalls ==
  ASSUME CustomerIInv, UNCHANGED <<stripe, customer, cache, op, edits, held>>
  PROVE  WorldTyped' /\ CopiesStored' /\ GoneFirst' /\ WorldGoesOn
BY TakenApart DEF WorldTyped, CopiesStored, GoneFirst, WorldGoesOn, IsHeld

\* A copy, and what Stripe has, is never the empty answer of Redis.
LEMMA NotEmpty ==
  ASSUME NEW x \in Copy \cup AtStripe
  PROVE  x # None
<1>1. DOMAIN x = Fields /\ "email" \in Fields
  BY DEF Copy, AtStripe, Fields
<1>2. "email" \notin DOMAIN None
  BY DEF None
<1>3. QED
  BY <1>1, <1>2

\* What a call has in hand.
LEMMA InHand ==
  ASSUME CustomerIInv, NEW c \in Calls, call[c].at # 0
  PROVE  /\ op[c] \in Ops /\ call[c].at \in 1..Len(Route[op[c]])
         /\ Got(c) \in Copy \cup {None} /\ Saw(c) \in AtStripe \cup {None}
         /\ CallFits(c)
         /\ Got(c) # None => IsHeld(Got(c))
         /\ RouteStep(op[c], call[c].at)
<1>1. op[c] \in Ops /\ call[c].at \in 1..Len(Route[op[c]])
  BY TakenApart, OnRoute
<1>2. RouteStep(op[c], call[c].at)
  BY <1>1, RoutesFit DEF RouteFits
<1>3. CallFits(c)
  BY TakenApart DEF CallsFit
<1>4. QED
  BY <1>1, <1>2, <1>3, TakenApart DEF Got, Saw, GotHeld, Lifetime

\* A call that goes on to the next step takes along what it has.
LEMMA AdvanceFits ==
  ASSUME CustomerIInv, WorldGoesOn, NEW c \in Calls, call[c].at # 0, Advance(c),
         Route[op[c]][call[c].at] \notin {"read", "retrieve", "edit"},
         Route[op[c]][call[c].at] = "send" => NamedIsIn(held', op[c], c, call[c].saw),
         Route[op[c]][call[c].at] = "destroy" => stripe'.gone
  PROVE  CallsTyped' /\ CallsFit' /\ GotHeld'
<1> DEFINE got == call[c].got
           saw == call[c].saw
<1>1. got \in Copy \cup {None} /\ saw \in AtStripe \cup {None} /\ CallFits(c)
      /\ (got # None => IsHeld(got))
  BY InHand DEF Got, Saw
<1>2. Go(c, 1, got, saw)
  BY DEF Advance, Got, Saw
<1> HIDE DEF got, saw
<1>3. (Route[op[c]][call[c].at] \in UsesCopy \cup {"read"} => got # None)
      /\ (call[c].at \in SeesFrom(op[c]) => saw # None)
      /\ (op[c] \in {"sync", "customer.updated"} /\ saw # None => IsHeld(saw))
  BY <1>1 DEF CallFits, got, saw
<1>4. (got # None => \A f \in Fields : got[f] \in held'[f])
      /\ (op[c] \in {"sync", "customer.updated"} /\ saw # None
           => \A f \in Fields : saw[f] \in held'[f])
  BY <1>1, <1>3 DEF IsHeld, WorldGoesOn
<1>5. Route[op[c]][call[c].at] = "send" => NamedIsIn(held', op[c], c, saw)
  BY DEF saw
<1>6. MayCarry(c, 1, got, saw)
  BY <1>1, <1>3, <1>4, <1>5 DEF MayCarry
<1>7. QED
  BY <1>2, <1>6, GoFits, TakenApart

\* A hit in Redis gives a call its copy.
LEMMA HitFits ==
  ASSUME CustomerIInv, WorldGoesOn, NEW c \in Calls, call[c].at # 0, NEW k \in Keys,
         cache[k] # None, NEW n \in {3, 6}, GoWith(c, n, cache[k]),
         n = 3 => Route[op[c]][call[c].at] = "get",
         n = 6 => Route[op[c]][call[c].at] \in {"getByStripe", "getByUser"}
  PROVE  CallsTyped' /\ CallsFit' /\ GotHeld'
<1> DEFINE got == cache[k]
           saw == call[c].saw
<1>1. saw \in AtStripe \cup {None} /\ CallFits(c)
  BY InHand DEF Saw
<1>2. got \in Copy \cup {None} /\ got # None /\ IsHeld(got)
  BY TakenApart DEF WorldTyped, CopiesStored
<1>3. Go(c, n, got, saw)
  BY DEF GoWith, Saw
<1> HIDE DEF got, saw
<1>4. (call[c].at \in SeesFrom(op[c]) => saw # None)
      /\ (op[c] \in {"sync", "customer.updated"} /\ saw # None => IsHeld(saw))
  BY <1>1 DEF CallFits, saw
<1>5. (\A f \in Fields : got[f] \in held'[f])
      /\ (op[c] \in {"sync", "customer.updated"} /\ saw # None
           => \A f \in Fields : saw[f] \in held'[f])
  BY <1>2, <1>4 DEF IsHeld, WorldGoesOn
<1>6. Skips(op[c], call[c].at, call[c].at + n)
  BY DEF Skips
<1>7. MayCarry(c, n, got, saw)
  BY <1>1, <1>2, <1>4, <1>5, <1>6 DEF MayCarry
<1>8. QED
  BY <1>3, <1>7, GoFits, TakenApart

\* The row gives a call its copy.
LEMMA ReadFits ==
  ASSUME CustomerIInv, WorldGoesOn, NEW c \in Calls, call[c].at # 0,
         Route[op[c]][call[c].at] = "read", GoWith(c, 1, customer.fields)
  PROVE  CallsTyped' /\ CallsFit' /\ GotHeld'
<1> DEFINE got == customer.fields
           saw == call[c].saw
<1>1. saw \in AtStripe \cup {None} /\ CallFits(c)
  BY InHand DEF Saw
<1>2. got \in Copy /\ got # None /\ IsHeld(got)
  BY TakenApart, NotEmpty DEF WorldTyped, CopiesStored
<1>3. Go(c, 1, got, saw)
  BY DEF GoWith, Saw
<1> HIDE DEF got, saw
<1>4. (call[c].at \in SeesFrom(op[c]) => saw # None)
      /\ (op[c] \in {"sync", "customer.updated"} /\ saw # None => IsHeld(saw))
  BY <1>1 DEF CallFits, saw
<1>5. (\A f \in Fields : got[f] \in held'[f])
      /\ (op[c] \in {"sync", "customer.updated"} /\ saw # None
           => \A f \in Fields : saw[f] \in held'[f])
  BY <1>2, <1>4 DEF IsHeld, WorldGoesOn
<1>6. MayCarry(c, 1, got, saw)
  BY <1>1, <1>2, <1>4, <1>5 DEF MayCarry
<1>7. QED
  BY <1>3, <1>6, GoFits, TakenApart

\* Any step of a lookup: a get, given the step that it is and the others that a hit skips.
LEMMA GetFits ==
  ASSUME CustomerIInv, NEW c \in Calls, call[c].at # 0, NEW k \in Keys, NEW n \in {3, 6},
         Get(c, k, n), UNCHANGED <<stripe, customer, cache, op, edits, held>>,
         n = 3 => Route[op[c]][call[c].at] = "get",
         n = 6 => Route[op[c]][call[c].at] \in {"getByStripe", "getByUser"}
  PROVE  CustomerIInv'
<1>1. WorldTyped' /\ CopiesStored' /\ GoneFirst' /\ WorldGoesOn
  BY OnlyTheCalls
<1>2. Route[op[c]][call[c].at] \in {"get", "getByStripe", "getByUser"}
  OBVIOUS
<1>3. CASE cache[k] # None /\ GoWith(c, n, cache[k])
  BY <1>1, <1>3, HitFits, Together
<1>4. CASE Advance(c)
  BY <1>1, <1>2, <1>4, AdvanceFits, Together
<1>5. QED
  BY <1>3, <1>4 DEF Get

\* A fill stores the copy that the call has in hand.
LEMMA PutFits ==
  ASSUME CustomerIInv, NEW c \in Calls, call[c].at # 0, NEW k \in Keys, Put(c, k),
         UNCHANGED <<stripe, customer, op, edits, held>>,
         Route[op[c]][call[c].at] \in {"fill", "fillByStripe", "fillByUser"}
  PROVE  CustomerIInv'
<1>1. Got(c) \in Copy /\ IsHeld(Got(c))
  BY InHand DEF CallFits, UsesCopy, Got
<1>2. cache \in [Keys -> Copy \cup {None}]
      /\ \A l \in Keys : cache[l] # None => IsHeld(cache[l])
  BY TakenApart DEF WorldTyped, CopiesStored
<1>3. cache' \in [Keys -> Copy \cup {None}]
      /\ \A l \in Keys : cache'[l] # None => IsHeld(cache'[l])
  <2>1. CASE cache' = [cache EXCEPT ![k] = Got(c)]
    <3> DEFINE copy == Got(c)
    <3> HIDE DEF copy
    <3>1. cache' = [cache EXCEPT ![k] = copy] /\ copy \in Copy /\ IsHeld(copy)
      BY <1>1, <2>1 DEF copy
    <3>2. \A l \in Keys : cache'[l] = IF l = k THEN copy ELSE cache[l]
      BY <1>2, <3>1
    <3>3. QED
      BY <1>2, <3>1, <3>2
  <2>2. CASE UNCHANGED cache
    BY <1>2, <2>2
  <2>3. QED
    BY <2>1, <2>2 DEF Put
<1>4. WorldTyped' /\ CopiesStored' /\ GoneFirst' /\ WorldGoesOn
  BY <1>3, OnlyTheCache
<1>5. Advance(c)
  BY DEF Put
<1>6. QED
  BY <1>4, <1>5, AdvanceFits, Together

\* A call that ends, whatever it was about to do.
LEMMA EndKeeps ==
  ASSUME CustomerIInv, NEW c \in Calls, End(c),
         UNCHANGED <<stripe, customer, cache, op, edits, held>>
  PROVE  CustomerIInv'
<1>1. WorldTyped' /\ CopiesStored' /\ GoneFirst' /\ WorldGoesOn
  BY OnlyTheCalls
<1>2. QED
  BY <1>1, EndFits, TakenApart, Together

\* A lookup by another key than the id.
LEMMA FindByKeeps ==
  ASSUME CustomerIInv, NEW c \in Calls, call[c].at # 0, NEW k \in Keys,
         NEW get \in {"getByStripe", "getByUser"},
         NEW read \in {"readByStripe", "readByUser"},
         NEW fill \in {"fillByStripe", "fillByUser"},
         FindBy(c, k, get, read, fill), UNCHANGED <<stripe, customer, op, edits, held>>
  PROVE  CustomerIInv'
<1>1. CASE Before(c, get) /\ Get(c, k, 6) /\ UNCHANGED cache
  BY <1>1, GetFits DEF Before
<1>2. CASE /\ Before(c, read) /\ UNCHANGED cache
           /\ IF customer.deleted THEN End(c) ELSE Advance(c)
  <2>1. CASE End(c)
    BY <1>2, <2>1, EndKeeps
  <2>2. CASE Advance(c)
    <3>1. WorldTyped' /\ CopiesStored' /\ GoneFirst' /\ WorldGoesOn
      BY <1>2, OnlyTheCalls
    <3>2. Route[op[c]][call[c].at] \in {"readByStripe", "readByUser"}
      BY <1>2 DEF Before
    <3>3. QED
      BY <2>2, <3>1, <3>2, AdvanceFits, Together
  <2>3. QED
    BY <1>2, <2>1, <2>2
<1>3. CASE Before(c, fill) /\ Put(c, k)
  BY <1>3, PutFits DEF Before
<1>4. QED
  BY <1>1, <1>2, <1>3 DEF FindBy

\* A lookup.
LEMMA LookupKeeps ==
  ASSUME CustomerIInv, NEW c \in Calls, call[c].at # 0, Lookup(c)
  PROVE  CustomerIInv'
<1>1. "id" \in Keys /\ "stripe" \in Keys /\ "user" \in Keys
  BY DEF Keys
<1>2. UNCHANGED <<stripe, customer, op, edits, held>>
  BY DEF Lookup
<1>3. CASE FindById(c)
  <2>1. CASE Before(c, "get") /\ Get(c, "id", 3) /\ UNCHANGED cache
    BY <1>1, <1>2, <2>1, GetFits DEF Before
  <2>2. CASE /\ Before(c, "read") /\ UNCHANGED cache
             /\ IF customer.deleted THEN End(c) ELSE GoWith(c, 1, customer.fields)
    <3>1. CASE End(c)
      BY <1>2, <2>2, <3>1, EndKeeps
    <3>2. CASE GoWith(c, 1, customer.fields)
      <4>1. WorldTyped' /\ CopiesStored' /\ GoneFirst' /\ WorldGoesOn
        BY <1>2, <2>2, OnlyTheCalls
      <4>2. QED
        BY <2>2, <3>2, <4>1, ReadFits, Together DEF Before
    <3>3. QED
      BY <2>2, <3>1, <3>2
  <2>3. CASE Before(c, "fill") /\ Put(c, "id")
    BY <1>1, <1>2, <2>3, PutFits DEF Before
  <2>4. QED
    BY <1>3, <2>1, <2>2, <2>3 DEF FindById
<1>4. CASE FindCustomerByStripeId(c)
  BY <1>1, <1>2, <1>4, FindByKeeps DEF FindCustomerByStripeId
<1>5. CASE FindByUserId(c)
  BY <1>1, <1>2, <1>5, FindByKeeps DEF FindByUserId
<1>6. QED
  BY <1>3, <1>4, <1>5 DEF Lookup

\* What an update makes of the fields.
LEMMA PatchedIs ==
  ASSUME NEW c \in Calls, NEW fields, op[c] \in {"form", "patch"}
  PROVE  /\ op[c] = "patch" => Patched(fields, Named(c))
                                 = [f \in Fields |-> IF f = "email" THEN c ELSE fields[f]]
         /\ op[c] = "form" => Patched(fields, Named(c))
              = [f \in Fields |-> IF f = "name" /\ call[c].saw["name"] # "nothing"
                                  THEN call[c].saw["name"] ELSE fields[f]]
<1>1. CASE op[c] = "patch"
  <2>1. Named(c) = [email |-> c]
    BY <1>1 DEF Named
  <2>2. DOMAIN Named(c) = {"email"} /\ Named(c)["email"] = c
    BY <2>1
  <2>3. \A f \in Fields : (IF f \in DOMAIN Named(c) THEN Named(c)[f] ELSE fields[f])
                            = IF f = "email" THEN c ELSE fields[f]
    BY <2>2
  <2>4. QED
    BY <1>1, <2>3 DEF Patched
<1>2. CASE op[c] = "form"
  <2>1. Named(c) = [f \in {g \in {"name"} : call[c].saw[g] # "nothing"} |-> call[c].saw[f]]
    BY <1>2 DEF Named, Saw
  <2>2. \A f \in Fields : (IF f \in DOMAIN Named(c) THEN Named(c)[f] ELSE fields[f])
                            = IF f = "name" /\ call[c].saw["name"] # "nothing"
                              THEN call[c].saw["name"] ELSE fields[f]
    BY <2>1
  <2>3. QED
    BY <1>2, <2>2 DEF Patched
<1>3. QED
  BY <1>1, <1>2

\* The fields that a request names, and those that it does not.
LEMMA NamedFits ==
  ASSUME CustomerIInv, NEW c \in Calls, call[c].at # 0, op[c] \in {"form", "patch"},
         op[c] = "form" => call[c].saw # None
  PROVE  /\ op[c] = "patch" => c \in Values
         /\ op[c] = "form" => call[c].saw \in AtStripe
         /\ op[c] = "form" /\ call[c].saw["name"] # "nothing"
              => call[c].saw["name"] \in Values
<1>1. call[c].saw \in AtStripe \cup {None}
  BY InHand DEF Saw
<1>2. "name" \in Fields
  BY DEF Fields
<1>3. QED
  BY <1>1, <1>2 DEF Values, AtStripe

\* A request that has come to send or to write is an update, and has what it needs.
LEMMA UpdateHas ==
  ASSUME CustomerIInv, NEW c \in Calls, call[c].at # 0,
         Route[op[c]][call[c].at] \in {"send", "write"}
  PROVE  /\ op[c] \in {"form", "patch"} /\ (op[c] = "form" => call[c].saw # None)
         /\ Got(c) \in Copy /\ IsHeld(Got(c))
<1>1. CallFits(c) /\ RouteStep(op[c], call[c].at)
      /\ Got(c) \in Copy \cup {None} /\ (Got(c) # None => IsHeld(Got(c)))
  BY InHand
<1>2. op[c] \in {"form", "patch"} /\ (op[c] = "form" => call[c].at \in SeesFrom(op[c]))
  BY <1>1 DEF RouteStep
<1>3. Got(c) # None /\ (op[c] = "form" => call[c].saw # None)
  BY <1>1, <1>2 DEF CallFits, UsesCopy, Got
<1>4. QED
  BY <1>1, <1>2, <1>3

\* Stripe is given the named fields.
LEMMA SendKeeps ==
  ASSUME CustomerIInv, NEW c \in Calls, Send(c)
  PROVE  CustomerIInv'
<1> DEFINE fields == stripe'.fields
<1>1. call[c].at # 0 /\ Route[op[c]][call[c].at] = "send"
      /\ UNCHANGED <<customer, cache, op, edits>>
  BY DEF Send, Before
<1>2. op[c] \in {"form", "patch"} /\ (op[c] = "form" => call[c].saw # None)
  BY <1>1, UpdateHas
<1>3. WorldTyped /\ CopiesStored /\ GoneFirst
  BY TakenApart
<1>4. stripe' = [stripe EXCEPT !.fields = Patched(stripe.fields, Named(c))]
      /\ held' = [f \in Fields |-> held[f] \cup {fields[f]}] /\ Advance(c)
  BY DEF Send, Holds
<1>5. fields = Patched(stripe.fields, Named(c)) /\ stripe'.gone = stripe.gone
  BY <1>3, <1>4 DEF WorldTyped
<1>6. stripe.fields \in AtStripe
  BY <1>3 DEF WorldTyped
<1>7. fields \in AtStripe
  <2>1. CASE op[c] = "patch"
    <3>1. fields = [f \in Fields |-> IF f = "email" THEN c ELSE stripe.fields[f]]
      BY <1>2, <1>5, <2>1, PatchedIs
    <3>2. QED
      BY <3>1, <1>6 DEF AtStripe, Values
  <2>2. CASE op[c] = "form"
    <3>1. fields = [f \in Fields |-> IF f = "name" /\ call[c].saw["name"] # "nothing"
                                     THEN call[c].saw["name"] ELSE stripe.fields[f]]
      BY <1>2, <1>5, <2>2, PatchedIs
    <3>2. call[c].saw["name"] # "nothing" => call[c].saw["name"] \in Values
      BY <1>1, <1>2, <2>2, NamedFits
    <3>3. QED
      BY <3>1, <3>2, <1>6 DEF AtStripe
  <2>3. QED
    BY <1>2, <2>1, <2>2
<1>8. stripe' \in [fields : AtStripe, gone : BOOLEAN]
  <2> DEFINE new == Patched(stripe.fields, Named(c))
  <2> HIDE DEF new
  <2>1. stripe' = [stripe EXCEPT !.fields = new] /\ new \in AtStripe
    BY <1>4, <1>5, <1>7 DEF new
  <2>2. QED
    BY <1>3, <2>1 DEF WorldTyped
<1>9. NamedIsIn(held', op[c], c, call[c].saw)
  <2>1. "email" \in Fields /\ "name" \in Fields
    BY DEF Fields
  <2>2. op[c] = "patch" => fields["email"] = c
    BY <1>2, <1>5, <2>1, PatchedIs
  <2>3. op[c] = "form" /\ call[c].saw["name"] # "nothing"
          => fields["name"] = call[c].saw["name"]
    BY <1>2, <1>5, <2>1, PatchedIs
  <2> HIDE DEF fields
  <2>4. fields["email"] \in held'["email"] /\ fields["name"] \in held'["name"]
    BY <1>4, <2>1
  <2>5. QED
    BY <2>2, <2>3, <2>4 DEF NamedIsIn
<1>10. held' \in [Fields -> SUBSET (Values \cup {"nothing"})]
       /\ (\A f \in Fields : held[f] \subseteq held'[f])
       /\ \A f \in Fields : fields[f] \in held'[f]
  <2> HIDE DEF fields
  <2>1. QED
    BY <1>3, <1>4, <1>7 DEF WorldTyped, AtStripe
<1>11. WorldTyped' /\ WorldGoesOn /\ GoneFirst'
  BY <1>1, <1>3, <1>5, <1>8, <1>10 DEF WorldTyped, WorldGoesOn, GoneFirst
<1>12. CopiesStored'
  BY <1>1, <1>3, <1>10 DEF CopiesStored, IsHeld
<1>13. CallsTyped' /\ CallsFit' /\ GotHeld'
  BY <1>1, <1>4, <1>9, <1>11, AdvanceFits
<1>14. QED
  BY <1>11, <1>12, <1>13, Together

\* A step that writes copies that are held to the row, or deletes it after Stripe has.
LEMMA RowKeeps ==
  ASSUME CustomerIInv, NEW c \in Calls, call[c].at # 0, Advance(c),
         UNCHANGED <<stripe, cache, op, edits, held>>,
         customer' \in [fields : Copy, deleted : BOOLEAN],
         IsHeld(customer'.fields), customer'.deleted => customer.deleted \/ stripe.gone,
         Route[op[c]][call[c].at] \in {"write", "syncWrite", "softDelete"}
  PROVE  CustomerIInv'
<1>1. WorldTyped' /\ CopiesStored' /\ GoneFirst' /\ WorldGoesOn
  BY TakenApart DEF WorldTyped, CopiesStored, GoneFirst, WorldGoesOn, IsHeld
<1>2. QED
  BY <1>1, AdvanceFits, Together

\* The row is given the named fields, and the copy's.
LEMMA WriteKeeps ==
  ASSUME CustomerIInv, NEW c \in Calls, Write(c)
  PROVE  CustomerIInv'
<1> DEFINE fields == Written(c)
<1>1. call[c].at # 0 /\ Route[op[c]][call[c].at] = "write" /\ Advance(c)
      /\ UNCHANGED <<stripe, cache, op, edits, held>>
      /\ customer' = [customer EXCEPT !.fields = Written(c)]
  BY DEF Write, Before
<1>2. op[c] \in {"form", "patch"} /\ (op[c] = "form" => call[c].saw # None)
      /\ Got(c) \in Copy /\ IsHeld(Got(c))
  BY <1>1, UpdateHas
<1>3. NamedIsIn(held, op[c], c, call[c].saw)
  BY <1>1, InHand DEF CallFits, Before
<1>4. fields \in Copy /\ IsHeld(fields)
  <2>1. CASE op[c] = "patch"
    <3>1. fields = [f \in Fields |-> IF f = "email" THEN c ELSE Got(c)[f]]
      BY <1>2, <2>1, PatchedIs DEF Written
    <3>2. c \in held["email"]
      BY <1>3, <2>1 DEF NamedIsIn
    <3> HIDE DEF fields
    <3>3. QED
      BY <3>1, <3>2, <1>2 DEF Copy, Values, IsHeld
  <2>2. CASE op[c] = "form"
    <3>1. fields = [f \in Fields |-> IF f = "name" /\ call[c].saw["name"] # "nothing"
                                     THEN call[c].saw["name"] ELSE Got(c)[f]]
      BY <1>2, <2>2, PatchedIs DEF Written
    <3>2. call[c].saw["name"] # "nothing"
            => call[c].saw["name"] \in Values /\ call[c].saw["name"] \in held["name"]
      BY <1>1, <1>2, <1>3, <2>2, NamedFits DEF NamedIsIn
    <3> HIDE DEF fields
    <3>3. QED
      BY <3>1, <3>2, <1>2 DEF Copy, IsHeld
  <2>3. QED
    BY <1>2, <2>1, <2>2
<1> HIDE DEF fields
<1>5. customer' = [customer EXCEPT !.fields = fields]
  BY <1>1 DEF fields
<1>6. customer' \in [fields : Copy, deleted : BOOLEAN] /\ customer'.fields = fields
      /\ customer'.deleted = customer.deleted
  BY <1>4, <1>5, TakenApart DEF WorldTyped
<1>7. IsHeld(customer'.fields)
  BY <1>4, <1>6
<1>8. QED
  BY <1>1, <1>6, <1>7, RowKeeps

\* The row is given what Stripe has, and where it has nothing the copy's.
LEMMA SyncWriteKeeps ==
  ASSUME CustomerIInv, NEW c \in Calls, SyncWrite(c)
  PROVE  CustomerIInv'
<1> DEFINE fields == Merged(c)
<1>1. call[c].at # 0 /\ Route[op[c]][call[c].at] = "syncWrite" /\ Advance(c)
      /\ UNCHANGED <<stripe, cache, op, edits, held>>
      /\ customer' = [customer EXCEPT !.fields = Merged(c)]
  BY DEF SyncWrite, Before
<1>2. op[c] \in {"sync", "customer.updated"} /\ call[c].at \in SeesFrom(op[c])
      /\ CallFits(c)
  BY <1>1, InHand DEF RouteStep
<1>3. Got(c) \in Copy /\ IsHeld(Got(c))
  BY <1>1, InHand DEF CallFits, UsesCopy, Got
<1>4. Saw(c) \in AtStripe /\ IsHeld(Saw(c))
  BY <1>1, <1>2, InHand DEF CallFits, Saw
<1>5. fields \in Copy /\ IsHeld(fields)
  BY <1>3, <1>4 DEF Merged, Copy, AtStripe, IsHeld
<1> HIDE DEF fields
<1>6. customer' = [customer EXCEPT !.fields = fields]
  BY <1>1 DEF fields
<1>7. customer' \in [fields : Copy, deleted : BOOLEAN] /\ customer'.fields = fields
      /\ customer'.deleted = customer.deleted
  BY <1>5, <1>6, TakenApart DEF WorldTyped
<1>8. IsHeld(customer'.fields)
  BY <1>5, <1>7
<1>9. QED
  BY <1>1, <1>7, <1>8, RowKeeps

\* The row is deleted: after destroy, or when the event says that the customer is.
LEMMA SoftDeleteKeeps ==
  ASSUME CustomerIInv, NEW c \in Calls, Arrived(c), SoftDelete(c)
  PROVE  CustomerIInv'
<1>1. call[c].at # 0 /\ Route[op[c]][call[c].at] = "softDelete" /\ Advance(c)
      /\ UNCHANGED <<stripe, cache, op, edits, held>>
      /\ customer' = [customer EXCEPT !.deleted = TRUE]
  BY DEF SoftDelete, Before
<1>2. op[c] \in {"delete", "customer.deleted"} /\ CallFits(c)
  BY <1>1, InHand DEF RouteStep
<1>3. stripe.gone
  BY <1>1, <1>2 DEF CallFits, Before, Arrived
<1>4. customer' \in [fields : Copy, deleted : BOOLEAN] /\ IsHeld(customer'.fields)
  BY <1>1, TakenApart DEF WorldTyped, CopiesStored, IsHeld
<1>5. QED
  BY <1>1, <1>3, <1>4, RowKeeps

\* The three keys are deleted, or the command fails.
LEMMA EvictKeeps ==
  ASSUME CustomerIInv, NEW c \in Calls, Evict(c)
  PROVE  CustomerIInv'
<1>1. cache \in [Keys -> Copy \cup {None}]
      /\ \A k \in Keys : cache[k] # None => IsHeld(cache[k])
  BY TakenApart DEF WorldTyped, CopiesStored
<1>2. cache' \in [Keys -> Copy \cup {None}]
      /\ \A k \in Keys : cache'[k] # None => IsHeld(cache'[k])
  BY <1>1 DEF Evict
<1>3. WorldTyped' /\ CopiesStored' /\ GoneFirst' /\ WorldGoesOn
  BY <1>2, OnlyTheCache DEF Evict
<1>4. call[c].at # 0 /\ Route[op[c]][call[c].at] = "evict" /\ Advance(c)
  BY DEF Evict, Before
<1>5. QED
  BY <1>3, <1>4, AdvanceFits, Together

\* The customer is deleted at Stripe.
LEMMA DestroyKeeps ==
  ASSUME CustomerIInv, NEW c \in Calls, Destroy(c)
  PROVE  CustomerIInv'
<1>1. call[c].at # 0 /\ Route[op[c]][call[c].at] = "destroy" /\ Advance(c)
      /\ UNCHANGED <<customer, cache, op, edits, held>>
      /\ stripe' = [stripe EXCEPT !.gone = TRUE]
  BY DEF Destroy, Before
<1>2. stripe' \in [fields : AtStripe, gone : BOOLEAN] /\ stripe'.gone
      /\ stripe'.fields = stripe.fields
  BY <1>1, TakenApart DEF WorldTyped
<1>3. WorldTyped' /\ CopiesStored' /\ GoneFirst' /\ WorldGoesOn
  BY <1>1, <1>2, TakenApart DEF WorldTyped, CopiesStored, GoneFirst, WorldGoesOn, IsHeld
<1>4. QED
  BY <1>1, <1>2, <1>3, AdvanceFits, Together

\* A step that changes nothing but its own call.
LEMMA QuietKeeps ==
  ASSUME CustomerIInv, NEW c \in Calls, ReadAny(c) \/ OpenSession(c)
  PROVE  CustomerIInv'
<1>1. call[c].at # 0 /\ Advance(c)
      /\ Route[op[c]][call[c].at] \in {"readAny", "openSession"}
      /\ UNCHANGED <<stripe, customer, cache, op, edits, held>>
  BY DEF ReadAny, OpenSession, Before
<1>2. WorldTyped' /\ CopiesStored' /\ GoneFirst' /\ WorldGoesOn
  BY <1>1, OnlyTheCalls
<1>3. QED
  BY <1>1, <1>2, AdvanceFits, Together

\* The account page shows the copy that was looked up, with the name that its owner wants.
LEMMA EditKeeps ==
  ASSUME CustomerIInv, NEW c \in Calls, Edit(c)
  PROVE  CustomerIInv'
<1>1. call[c].at # 0 /\ Route[op[c]][call[c].at] = "edit"
      /\ UNCHANGED <<stripe, customer, cache, op, edits, held>>
  BY DEF Edit, Before
<1>2. WorldTyped' /\ CopiesStored' /\ GoneFirst' /\ WorldGoesOn
  BY <1>1, OnlyTheCalls
<1>3. CallFits(c) /\ Got(c) \in Copy \cup {None} /\ (Got(c) # None => IsHeld(Got(c)))
      /\ RouteStep(op[c], call[c].at)
  BY <1>1, InHand
<1>4. op[c] = "form"
  BY <1>1, <1>3 DEF RouteStep
<1> DEFINE got == Got(c)
<1>5. got \in Copy /\ got # None /\ \A f \in Fields : got[f] \in held'[f]
  BY <1>1, <1>2, <1>3 DEF CallFits, UsesCopy, Got, IsHeld, WorldGoesOn
<1>6. PICK name \in {got.name, c, "nothing"} : Go(c, 1, got, [got EXCEPT !.name = name])
  BY DEF Edit
<1> DEFINE saw == [got EXCEPT !.name = name]
<1>7. saw \in AtStripe
  <2>1. "name" \in Fields
    BY DEF Fields
  <2>2. name \in Values \cup {"nothing"}
    BY <1>5, <1>6, <2>1 DEF Copy, Values
  <2> HIDE DEF got
  <2>3. QED
    BY <1>5, <2>2 DEF Copy, AtStripe
<1>8. saw # None
  BY <1>7, NotEmpty
<1>9. Go(c, 1, got, saw)
  BY <1>6
<1> HIDE DEF got, saw
<1>10. MayCarry(c, 1, got, saw)
  BY <1>1, <1>4, <1>5, <1>7, <1>8 DEF MayCarry
<1>11. QED
  BY <1>1, <1>2, <1>9, <1>10, GoFits, TakenApart, Together

\* What Stripe says is what it has.
LEMMA RetrieveKeeps ==
  ASSUME CustomerIInv, NEW c \in Calls, RetrieveFromStripe(c)
  PROVE  CustomerIInv'
<1>1. call[c].at # 0 /\ Route[op[c]][call[c].at] = "retrieve"
      /\ UNCHANGED <<stripe, customer, cache, op, edits, held>>
  BY DEF RetrieveFromStripe, Before
<1>2. CASE End(c)
  BY <1>1, <1>2, EndKeeps
<1>3. CASE Go(c, 1, Got(c), stripe.fields)
  <2>1. WorldTyped' /\ CopiesStored' /\ GoneFirst' /\ WorldGoesOn
    BY <1>1, OnlyTheCalls
  <2>2. Got(c) \in Copy \cup {None} /\ (Got(c) # None => IsHeld(Got(c)))
    BY <1>1, InHand
  <2> DEFINE got == Got(c)
             saw == stripe.fields
  <2>3. saw \in AtStripe /\ IsHeld(saw)
    BY TakenApart DEF WorldTyped, CopiesStored
  <2>4. saw # None
    BY <2>3, NotEmpty
  <2>5. got \in Copy \cup {None} /\ (got # None => \A f \in Fields : got[f] \in held'[f])
        /\ \A f \in Fields : saw[f] \in held'[f]
    BY <1>1, <2>2, <2>3 DEF IsHeld
  <2>6. Go(c, 1, got, saw)
    BY <1>3
  <2> HIDE DEF got, saw
  <2>7. Route[op[c]][call[c].at] \notin UsesCopy \cup {"read"}
    BY <1>1 DEF UsesCopy
  <2>8. MayCarry(c, 1, got, saw)
    BY <1>1, <2>3, <2>4, <2>5, <2>7 DEF MayCarry
  <2>9. QED
    BY <1>1, <2>1, <2>6, <2>8, GoFits, TakenApart, Together
<1>4. QED
  BY <1>2, <1>3 DEF RetrieveFromStripe

\* When no call moves.
LEMMA CallsStay ==
  ASSUME CustomerIInv, WorldTyped', CopiesStored', GoneFirst', WorldGoesOn, call' = call
  PROVE  CustomerIInv'
<1>1. ASSUME NEW c \in Calls, call'[c].at # 0
      PROVE  CallFits(c)'
  BY <1>1, StaysFit, TakenApart
<1>2. CallsTyped' /\ GotHeld'
  BY TakenApart DEF CallsTyped, GotHeld, CustomerTypeOK, WorldGoesOn, IsHeld, Lifetime
<1>3. CallsFit'
  BY <1>1 DEF CallsFit
<1>4. QED
  BY <1>2, <1>3, Together

\* A key leaves Redis.
LEMMA ExpireKeeps ==
  ASSUME CustomerIInv, NEW k \in Keys, Expire(k)
  PROVE  CustomerIInv'
<1>1. cache \in [Keys -> Copy \cup {None}]
      /\ \A l \in Keys : cache[l] # None => IsHeld(cache[l])
  BY TakenApart DEF WorldTyped, CopiesStored
<1>2. cache' \in [Keys -> Copy \cup {None}]
      /\ \A l \in Keys : cache'[l] # None => IsHeld(cache'[l])
  BY <1>1 DEF Expire
<1>3. QED
  BY <1>2, OnlyTheCache, CallsStay DEF Expire

\* A field is edited in the Dashboard.
LEMMA DashboardKeeps ==
  ASSUME CustomerIInv, NEW f \in Fields, NEW v \in {"dashboard", "nothing"},
         EditInDashboard(f, v)
  PROVE  CustomerIInv'
<1> DEFINE fields == stripe'.fields
<1>1. stripe' = [stripe EXCEPT !.fields[f] = v]
      /\ held' = [g \in Fields |-> held[g] \cup {fields[g]}]
      /\ edits < MaxEdits /\ edits' = edits + 1 /\ UNCHANGED <<customer, cache, op, call>>
  BY DEF EditInDashboard, Holds
<1>2. WorldTyped /\ CopiesStored /\ GoneFirst
  BY TakenApart
<1>3. v \in Values \cup {"nothing"}
  BY DEF Values
<1>4. stripe' \in [fields : AtStripe, gone : BOOLEAN] /\ stripe'.gone = stripe.gone
      /\ fields \in AtStripe
  BY <1>1, <1>2, <1>3 DEF WorldTyped, AtStripe
<1> HIDE DEF fields
<1>5. held' \in [Fields -> SUBSET (Values \cup {"nothing"})]
      /\ (\A g \in Fields : held[g] \subseteq held'[g])
      /\ \A g \in Fields : fields[g] \in held'[g]
  BY <1>1, <1>2, <1>4 DEF WorldTyped, AtStripe
<1>6. edits' \in 0..MaxEdits
  BY <1>1, <1>2, EditsAssumption DEF WorldTyped
<1>7. WorldTyped' /\ GoneFirst' /\ WorldGoesOn
  BY <1>1, <1>2, <1>4, <1>5, <1>6 DEF WorldTyped, GoneFirst, WorldGoesOn
<1>8. CopiesStored'
  BY <1>1, <1>2, <1>5 DEF CopiesStored, IsHeld, fields
<1>9. QED
  BY <1>1, <1>7, <1>8, CallsStay

\* The customer is deleted in the Dashboard.
LEMMA DeletionKeeps ==
  ASSUME CustomerIInv, DeleteInDashboard
  PROVE  CustomerIInv'
<1>1. stripe' = [stripe EXCEPT !.gone = TRUE]
      /\ edits < MaxEdits /\ edits' = edits + 1
      /\ UNCHANGED <<customer, cache, op, call, held>>
  BY DEF DeleteInDashboard
<1>2. stripe' \in [fields : AtStripe, gone : BOOLEAN] /\ stripe'.gone
      /\ stripe'.fields = stripe.fields
  BY <1>1, TakenApart DEF WorldTyped
<1>3. edits' \in 0..MaxEdits
  BY <1>1, TakenApart, EditsAssumption DEF WorldTyped
<1>4. WorldTyped' /\ CopiesStored' /\ GoneFirst' /\ WorldGoesOn
  BY <1>1, <1>2, <1>3, TakenApart
     DEF WorldTyped, CopiesStored, GoneFirst, WorldGoesOn, IsHeld
<1>5. QED
  BY <1>1, <1>4, CallsStay

\* Every route begins with a step that uses no copy, and changes nothing.
LEMMA RouteBegins ==
  ASSUME NEW o \in Ops
  PROVE  /\ Len(Route[o]) >= 1 /\ 1 \notin SeesFrom(o)
         /\ Route[o][1] \notin UsesCopy \cup {"softDelete"}
<1> DEFINE Begins(p) == /\ Len(Route[p]) >= 1 /\ 1 \notin SeesFrom(p)
                        /\ Route[p][1] \notin UsesCopy \cup {"softDelete"}
<1>1. Begins("session")
  BY RouteSessionIs DEF Lists, SeesFrom, UsesCopy
<1>2. Begins("form")
  BY RouteFormIs DEF Lists, SeesFrom, UsesCopy
<1>3. Begins("patch")
  BY RoutePatchIs DEF Lists, SeesFrom, UsesCopy
<1>4. Begins("delete")
  BY RouteDeleteIs DEF Lists, SeesFrom, UsesCopy
<1>5. Begins("sync")
  BY RouteSyncIs DEF Lists, SeesFrom, UsesCopy
<1>6. Begins("customer.updated")
  BY RouteUpdatedIs DEF Lists, SeesFrom, UsesCopy
<1>7. Begins("customer.deleted")
  BY RouteDeletedIs DEF Lists, SeesFrom, UsesCopy
<1> HIDE DEF Begins
<1>8. Begins(o)
  BY <1>1, <1>2, <1>3, <1>4, <1>5, <1>6, <1>7 DEF Ops, RequestOps, Jobs
<1>9. QED
  BY <1>8 DEF Begins

\* The invariant holds at first.
LEMMA CustomerInitFits == CustomerInit => CustomerIInv
<1> SUFFICES ASSUME CustomerInit
             PROVE  CustomerIInv
  OBVIOUS
<1>1. op \in [Calls -> Ops]
  BY PlansAssumption DEF CustomerInit
<1> DEFINE first == [f \in Fields |-> "first"]
<1>2. first \in Copy /\ first \in AtStripe /\ \A f \in Fields : first[f] = "first"
  BY DEF Copy, AtStripe, Values
<1> HIDE DEF first
<1>3. stripe = [fields |-> first, gone |-> FALSE]
      /\ customer = [fields |-> first, deleted |-> FALSE]
      /\ cache = [k \in Keys |-> None] /\ edits = 0 /\ held = [f \in Fields |-> {"first"}]
      /\ call = [c \in Calls |-> [at |-> 1, got |-> None, saw |-> None]]
  BY DEF CustomerInit, first
<1>4. held \in [Fields -> SUBSET (Values \cup {"nothing"})]
  BY <1>3 DEF Values
<1>5. 0 \in 0..MaxEdits
  BY EditsAssumption
<1>6. \A c \in Calls : call[c] = [at |-> 1, got |-> None, saw |-> None]
  BY <1>3
<1>7. call \in [Calls -> [at : Nat, got : Copy \cup {None}, saw : AtStripe \cup {None}]]
  BY <1>3
<1>8. \A c \in Calls : call[c].at <= Len(Route[op[c]])
  BY <1>1, <1>6, RouteIsList, RouteBegins
<1>9. CustomerTypeOK
  BY <1>1, <1>2, <1>3, <1>4, <1>5, <1>7, <1>8 DEF CustomerTypeOK
<1>10. CopiesHeld
  BY <1>2, <1>3, <1>6 DEF CopiesHeld, IsHeld
<1>11. ASSUME NEW c \in Calls
       PROVE  CallFits(c)
  <2>1. /\ 1 \notin SeesFrom(op[c]) /\ Route[op[c]][1] \notin UsesCopy
        /\ Route[op[c]][1] # "softDelete"
    BY <1>1, RouteBegins
  <2>2. Route[op[c]][1] # "write"
    BY <2>1 DEF UsesCopy
  <2>3. QED
    BY <1>6, <2>1, <2>2 DEF CallFits, Before
<1>12. GoneFirst
  BY <1>3 DEF GoneFirst
<1>13. QED
  BY <1>9, <1>10, <1>11, <1>12 DEF CustomerIInv, CallsFit

\* Every copy that is stored, shown or in use is made of values that Stripe has had, and
\* every call has in hand what its next step takes: this is inductive, over the routes.
THEOREM CustomerInvariance == CustomerSpec => []CustomerIInv
<1>1. CustomerInit => CustomerIInv
  BY CustomerInitFits
<1>2. CustomerIInv /\ [CustomerNext]_customerVars => CustomerIInv'
  <2> SUFFICES ASSUME CustomerIInv, [CustomerNext]_customerVars
               PROVE  CustomerIInv'
    OBVIOUS
  <2>1. ASSUME NEW c \in Calls, Step(c)
        PROVE  CustomerIInv'
    <3>1. CASE Lookup(c)
      <4>1. call[c].at # 0
        BY <3>1 DEF Lookup, FindById, FindCustomerByStripeId, FindByUserId, FindBy, Before
      <4>2. QED
        BY <3>1, <4>1, LookupKeeps
    <3>2. CASE Send(c)
      BY <3>2, SendKeeps
    <3>3. CASE Write(c)
      BY <3>3, WriteKeeps
    <3>4. CASE Evict(c)
      BY <3>4, EvictKeeps
    <3>5. CASE Destroy(c)
      BY <3>5, DestroyKeeps
    <3>6. CASE SoftDelete(c)
      BY <2>1, <3>6, SoftDeleteKeeps DEF Step
    <3>7. CASE ReadAny(c) \/ OpenSession(c)
      BY <3>7, QuietKeeps
    <3>8. CASE SyncWrite(c)
      BY <3>8, SyncWriteKeeps
    <3>9. CASE Edit(c)
      BY <3>9, EditKeeps
    <3>10. CASE Fails(c)
      BY <3>10, EndKeeps DEF Fails
    <3>11. CASE RetrieveFromStripe(c)
      BY <3>11, RetrieveKeeps
    <3>12. QED
      BY <2>1, <3>1, <3>2, <3>3, <3>4, <3>5, <3>6, <3>7, <3>8, <3>9, <3>10, <3>11 DEF Step
  <2>2. ASSUME NEW k \in Keys, Expire(k)
        PROVE  CustomerIInv'
    BY <2>2, ExpireKeeps
  <2>3. ASSUME NEW f \in Fields, NEW v \in {"dashboard", "nothing"}, EditInDashboard(f, v)
        PROVE  CustomerIInv'
    BY <2>3, DashboardKeeps
  <2>4. CASE DeleteInDashboard
    BY <2>4, DeletionKeeps
  <2>5. CASE UNCHANGED customerVars
    BY <2>5, OnlyTheCalls, CallsStay DEF customerVars
  <2>6. QED
    BY <2>1, <2>2, <2>3, <2>4, <2>5 DEF CustomerNext
<1>3. QED
  BY <1>1, <1>2, PTL DEF CustomerSpec

\* The variables of Customers have their types: a call is on its route or over, and every
\* copy has every column.
THEOREM CustomerTypeCorrect == CustomerSpec => []CustomerTypeOK
<1>1. CustomerIInv => CustomerTypeOK
  BY DEF CustomerIInv
<1>2. QED
  BY <1>1, CustomerInvariance, PTL

\* The row never runs ahead of Stripe: whatever requests, jobs, forms and lookups stand
\* between each other's steps, and whatever Redis answers, each value in the row was once
\* the customer's value at Stripe, and the row is deleted only after the customer.
THEOREM RowFollows == CustomerSpec => []RowFollowsStripe
<1>1. CustomerIInv => RowFollowsStripe
  BY DEF CustomerIInv, CopiesHeld, GoneFirst, IsHeld, RowFollowsStripe
<1>2. QED
  BY <1>1, CustomerInvariance, PTL
================================================================================
