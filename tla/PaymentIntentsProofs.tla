------------------------- MODULE PaymentIntentsProofs -------------------------
(***************************************************************************)
(* Proofs about PaymentIntents, for every set of requests, keys and users. *)
(* IInv says what exists at Stripe and in the database by the time a       *)
(* request has reached each of its steps.                                  *)
(***************************************************************************)
EXTENDS PaymentIntents, TLAPS

-------------------------------------------------------------------------------
(* The inductive invariant.                                                    *)

\* What a request has behind it.
StepReached ==
  \A r \in Requests :
    /\ pc[r] = "custInsert" => customer[KeyOf[r]] # "none"
    /\ pc[r] \in {"insert", "void"} => intent[KeyOf[r]] # "none"
    /\ pc[r] = "returned" => piRow[KeyOf[r]] # "none"

\* A cancellation that is about to be written has happened.
CancelHappened == \A k \in cancelling : piRow[k] # "none" /\ intent[k] = "canceled"

\* A client that has started to pay was given the secret, so the row was there.
ProcessingHasRow == \A k \in Keys : intent[k] = "processing" => piRow[k] # "none"

\* The event of an end of the payment tells the truth, however late it is handled.
EventEndIsTrue ==
  \A k \in Keys, end \in {"canceled", "succeeded"} :
    <<k, end>> \in events => intent[k] = end

IInv ==
  /\ TypeOK
  /\ StepReached
  /\ CancelHappened
  /\ EventEndIsTrue
  /\ ProcessingHasRow
  /\ NoPhantomRow
  /\ ChargeHasRow
  /\ RowEndIsTrue

-------------------------------------------------------------------------------
(* Each part is kept by every step.                                            *)

\* The types.
LEMMA StepType ==
  ASSUME TypeOK, [Next]_vars
  PROVE  TypeOK'
<1> USE ConstantsAssumption
    DEF TypeOK, stripeVars, customerVars, afterVars, GoTo, User, IntentStatus,
        RequestStep
<1>1. CASE UNCHANGED vars
  BY <1>1 DEF vars
<1>2. ASSUME NEW r \in Requests, Create(r)
      PROVE  TypeOK'
  <2>1. CASE \/ CustomerFound(r)
             \/ CustomerMissing(r)
             \/ CustomerByKey(r)
             \/ CustomerByEmail(r)
             \/ Fail(r)
             \/ Lookup(r)
             \/ InsertFails(r)
    BY <2>1 DEF CustomerFound, CustomerMissing, CustomerByKey, CustomerByEmail,
           Fail, Lookup, InsertFails
  <2>2. CASE CustomerCreated(r)
    BY <2>2 DEF CustomerCreated
  <2>3. CASE CustomerInserted(r)
    BY <2>3 DEF CustomerInserted
  <2>4. CASE CustomerInsertFails(r)
    BY <2>4 DEF CustomerInsertFails
  <2>5. CASE CustomerInsertLost(r)
    BY <2>5 DEF CustomerInsertLost
  <2>6. CASE IntentCreated(r)
    BY <2>6 DEF IntentCreated, Answered, LiveCustomers
  <2>7. CASE SecretMissing(r)
    BY <2>7 DEF SecretMissing, Answered, LiveCustomers
  <2>8. CASE Insert(r)
    BY <2>8 DEF Insert
  <2>9. CASE InsertLost(r)
    BY <2>9 DEF InsertLost
  <2>10. CASE Void(r)
    BY <2>10 DEF Void
  <2>11. QED
    BY <1>2, <2>1, <2>2, <2>3, <2>4, <2>5, <2>6, <2>7, <2>8, <2>9, <2>10
       DEF Create, CreateCustomer
<1>3. ASSUME NEW k \in Keys, CleanUp(k) \/ Pay(k) \/ Cancel(k) \/ HandleEvent(k)
      PROVE  TypeOK'
  <2>1. CASE DeleteCustomer(k)
    BY <2>1 DEF DeleteCustomer
  <2>2. CASE DeleteCustomerLost(k)
    BY <2>2 DEF DeleteCustomerLost
  <2>3. CASE Pay(k)
    <3>1. CASE Confirmable(k) /\ Move(k, "open", "succeeded")
      BY <3>1 DEF Move, Confirmable
    <3>2. CASE Confirmable(k) /\ Move(k, "open", "processing")
      BY <3>2 DEF Move, Confirmable
    <3>3. CASE Move(k, "processing", "succeeded")
      BY <3>3 DEF Move
    <3>4. CASE Move(k, "processing", "open")
      BY <3>4 DEF Move
    <3>5. QED
      BY <2>3, <3>1, <3>2, <3>3, <3>4 DEF Pay
  <2>4. CASE CancelAtStripe(k)
    BY <2>4 DEF CancelAtStripe
  <2>5. CASE CancelInRow(k)
    BY <2>5 DEF CancelInRow
  <2>6. CASE CancelInRowLost(k)
    BY <2>6 DEF CancelInRowLost
  <2>7. CASE HandleEvent(k)
    <3>1. PICK state \in IntentStatus : UpdateStatus(k, state)
      BY <2>7 DEF HandleEvent
    <3>2. QED
      BY <3>1 DEF UpdateStatus
  <2>8. QED
    BY <1>3, <2>1, <2>2, <2>3, <2>4, <2>5, <2>6, <2>7 DEF CleanUp, Cancel
<1>4. QED
  BY <1>1, <1>2, <1>3 DEF Next

\* What a request has behind it stays there.
LEMMA StepReachedKept ==
  ASSUME TypeOK, StepReached, CancelHappened, NoPhantomRow, [Next]_vars
  PROVE  StepReached'
<1> USE ConstantsAssumption
    DEF TypeOK, StepReached, CancelHappened, NoPhantomRow, stripeVars,
        customerVars, afterVars, GoTo, User, IntentStatus, RequestStep
<1>1. CASE UNCHANGED vars
  BY <1>1 DEF vars
<1>2. ASSUME NEW r \in Requests, Create(r)
      PROVE  StepReached'
  <2>1. CASE \/ CustomerFound(r)
             \/ CustomerMissing(r)
             \/ CustomerByKey(r)
             \/ CustomerByEmail(r)
             \/ Fail(r)
    BY <2>1 DEF CustomerFound, CustomerMissing, CustomerByKey, CustomerByEmail,
           Fail
  <2>2. CASE Lookup(r)
    BY <2>2 DEF Lookup
  <2>3. CASE CustomerCreated(r)
    BY <2>3 DEF CustomerCreated
  <2>4. CASE CustomerInserted(r)
    BY <2>4 DEF CustomerInserted
  <2>5. CASE CustomerInsertFails(r)
    BY <2>5 DEF CustomerInsertFails
  <2>6. CASE CustomerInsertLost(r)
    BY <2>6 DEF CustomerInsertLost
  <2>7. CASE IntentCreated(r)
    BY <2>7 DEF IntentCreated, Answered, LiveCustomers
  <2>8. CASE SecretMissing(r)
    BY <2>8 DEF SecretMissing, Answered, LiveCustomers
  <2>9. CASE Insert(r)
    BY <2>9 DEF Insert
  <2>10. CASE InsertFails(r)
    BY <2>10 DEF InsertFails
  <2>11. CASE InsertLost(r)
    BY <2>11 DEF InsertLost
  <2>12. CASE Void(r)
    BY <2>12 DEF Void
  <2>13. QED
    BY <1>2, <2>1, <2>2, <2>3, <2>4, <2>5, <2>6, <2>7, <2>8, <2>9, <2>10,
       <2>11, <2>12 DEF Create, CreateCustomer
<1>3. ASSUME NEW k \in Keys, CleanUp(k) \/ Pay(k) \/ Cancel(k) \/ HandleEvent(k)
      PROVE  StepReached'
  <2>1. CASE \/ DeleteCustomerLost(k)
    BY <2>1 DEF DeleteCustomerLost
  <2>2. CASE DeleteCustomer(k)
    BY <2>2 DEF DeleteCustomer
  <2>3. CASE Pay(k)
    <3>1. CASE Confirmable(k) /\ Move(k, "open", "succeeded")
      BY <3>1 DEF Move, Confirmable
    <3>2. CASE Confirmable(k) /\ Move(k, "open", "processing")
      BY <3>2 DEF Move, Confirmable
    <3>3. CASE Move(k, "processing", "succeeded")
      BY <3>3 DEF Move
    <3>4. CASE Move(k, "processing", "open")
      BY <3>4 DEF Move
    <3>5. QED
      BY <2>3, <3>1, <3>2, <3>3, <3>4 DEF Pay
  <2>4. CASE CancelAtStripe(k)
    BY <2>4 DEF CancelAtStripe
  <2>5. CASE CancelInRow(k)
    BY <2>5 DEF CancelInRow
  <2>6. CASE CancelInRowLost(k)
    BY <2>6 DEF CancelInRowLost
  <2>7. CASE HandleEvent(k)
    <3>1. PICK state \in IntentStatus : UpdateStatus(k, state)
      BY <2>7 DEF HandleEvent
    <3>2. QED
      BY <3>1 DEF UpdateStatus
  <2>8. QED
    BY <1>3, <2>1, <2>2, <2>3, <2>4, <2>5, <2>6, <2>7 DEF CleanUp, Cancel
<1>4. QED
  BY <1>1, <1>2, <1>3 DEF Next

\* A cancelled PaymentIntent stays cancelled.
LEMMA StepCancel ==
  ASSUME TypeOK, CancelHappened, [Next]_vars
  PROVE  CancelHappened'
<1> USE ConstantsAssumption
    DEF TypeOK, CancelHappened, stripeVars, customerVars, afterVars, GoTo,
        User, IntentStatus, RequestStep
<1>1. CASE UNCHANGED vars
  BY <1>1 DEF vars
<1>2. ASSUME NEW r \in Requests, Create(r)
      PROVE  CancelHappened'
  <2>1. CASE \/ Lookup(r)
             \/ CustomerFound(r)
             \/ CustomerMissing(r)
             \/ CustomerByKey(r)
             \/ CustomerByEmail(r)
             \/ Fail(r)
             \/ CustomerInsertFails(r)
             \/ InsertFails(r)
             \/ CustomerCreated(r)
             \/ CustomerInserted(r)
             \/ CustomerInsertLost(r)
    BY <2>1 DEF Lookup, CustomerFound, CustomerMissing, CustomerByKey,
           CustomerByEmail, Fail, CustomerInsertFails, InsertFails,
           CustomerCreated, CustomerInserted, CustomerInsertLost
  <2>2. CASE IntentCreated(r)
    BY <2>2 DEF IntentCreated, Answered, LiveCustomers
  <2>3. CASE SecretMissing(r)
    BY <2>3 DEF SecretMissing, Answered, LiveCustomers
  <2>4. CASE Insert(r)
    BY <2>4 DEF Insert
  <2>5. CASE InsertLost(r)
    BY <2>5 DEF InsertLost
  <2>6. CASE Void(r)
    BY <2>6 DEF Void
  <2>7. QED
    BY <1>2, <2>1, <2>2, <2>3, <2>4, <2>5, <2>6 DEF Create, CreateCustomer
<1>3. ASSUME NEW k \in Keys, CleanUp(k) \/ Pay(k) \/ Cancel(k) \/ HandleEvent(k)
      PROVE  CancelHappened'
  <2>1. CASE \/ DeleteCustomer(k)
             \/ DeleteCustomerLost(k)
             \/ CancelInRowLost(k)
    BY <2>1 DEF DeleteCustomer, DeleteCustomerLost, CancelInRowLost
  <2>2. CASE Pay(k)
    <3>1. CASE Confirmable(k) /\ Move(k, "open", "succeeded")
      BY <3>1 DEF Move, Confirmable
    <3>2. CASE Confirmable(k) /\ Move(k, "open", "processing")
      BY <3>2 DEF Move, Confirmable
    <3>3. CASE Move(k, "processing", "succeeded")
      BY <3>3 DEF Move
    <3>4. CASE Move(k, "processing", "open")
      BY <3>4 DEF Move
    <3>5. QED
      BY <2>2, <3>1, <3>2, <3>3, <3>4 DEF Pay
  <2>3. CASE CancelAtStripe(k)
    BY <2>3 DEF CancelAtStripe
  <2>4. CASE CancelInRow(k)
    BY <2>4 DEF CancelInRow
  <2>5. CASE HandleEvent(k)
    <3>1. PICK state \in IntentStatus : UpdateStatus(k, state)
      BY <2>5 DEF HandleEvent
    <3>2. QED
      BY <3>1 DEF UpdateStatus
  <2>6. QED
    BY <1>3, <2>1, <2>2, <2>3, <2>4, <2>5 DEF CleanUp, Cancel
<1>4. QED
  BY <1>1, <1>2, <1>3 DEF Next

\* A PaymentIntent that has ended is not changed, and each event copies it.
LEMMA StepEvents ==
  ASSUME TypeOK, EventEndIsTrue, [Next]_vars
  PROVE  EventEndIsTrue'
<1> USE ConstantsAssumption
    DEF TypeOK, EventEndIsTrue, stripeVars, customerVars, afterVars, GoTo,
        User, IntentStatus, RequestStep
<1>1. CASE UNCHANGED vars
  BY <1>1 DEF vars
<1>2. ASSUME NEW r \in Requests, Create(r)
      PROVE  EventEndIsTrue'
  <2>1. CASE \/ Lookup(r)
             \/ CustomerFound(r)
             \/ CustomerMissing(r)
             \/ CustomerByKey(r)
             \/ CustomerByEmail(r)
             \/ Fail(r)
             \/ CustomerInsertFails(r)
             \/ InsertFails(r)
             \/ CustomerCreated(r)
             \/ CustomerInserted(r)
             \/ CustomerInsertLost(r)
             \/ Insert(r)
    BY <2>1 DEF Lookup, CustomerFound, CustomerMissing, CustomerByKey,
           CustomerByEmail, Fail, CustomerInsertFails, InsertFails,
           CustomerCreated, CustomerInserted, CustomerInsertLost, Insert
  <2>2. CASE IntentCreated(r)
    BY <2>2 DEF IntentCreated, Answered, LiveCustomers
  <2>3. CASE SecretMissing(r)
    BY <2>3 DEF SecretMissing, Answered, LiveCustomers
  <2>4. CASE InsertLost(r)
    BY <2>4 DEF InsertLost
  <2>5. CASE Void(r)
    BY <2>5 DEF Void
  <2>6. QED
    BY <1>2, <2>1, <2>2, <2>3, <2>4, <2>5 DEF Create, CreateCustomer
<1>3. ASSUME NEW k \in Keys, CleanUp(k) \/ Pay(k) \/ Cancel(k) \/ HandleEvent(k)
      PROVE  EventEndIsTrue'
  <2>1. CASE \/ DeleteCustomer(k)
             \/ DeleteCustomerLost(k)
             \/ CancelInRow(k)
             \/ CancelInRowLost(k)
    BY <2>1 DEF DeleteCustomer, DeleteCustomerLost, CancelInRow, CancelInRowLost
  <2>2. CASE Pay(k)
    <3>1. CASE Confirmable(k) /\ Move(k, "open", "succeeded")
      BY <3>1 DEF Move, Confirmable
    <3>2. CASE Confirmable(k) /\ Move(k, "open", "processing")
      BY <3>2 DEF Move, Confirmable
    <3>3. CASE Move(k, "processing", "succeeded")
      BY <3>3 DEF Move
    <3>4. CASE Move(k, "processing", "open")
      BY <3>4 DEF Move
    <3>5. QED
      BY <2>2, <3>1, <3>2, <3>3, <3>4 DEF Pay
  <2>3. CASE CancelAtStripe(k)
    BY <2>3 DEF CancelAtStripe
  <2>4. CASE HandleEvent(k)
    <3>1. PICK state \in IntentStatus : UpdateStatus(k, state)
      BY <2>4 DEF HandleEvent
    <3>2. QED
      BY <3>1 DEF UpdateStatus
  <2>5. QED
    BY <1>3, <2>1, <2>2, <2>3, <2>4 DEF CleanUp, Cancel
<1>4. QED
  BY <1>1, <1>2, <1>3 DEF Next

\* A row appears after its object at Stripe.
LEMMA StepPhantom ==
  ASSUME TypeOK, StepReached, CancelHappened, NoPhantomRow, [Next]_vars
  PROVE  NoPhantomRow'
<1> USE ConstantsAssumption
    DEF TypeOK, StepReached, CancelHappened, NoPhantomRow, stripeVars,
        customerVars, afterVars, GoTo, User, IntentStatus, RequestStep
<1>1. CASE UNCHANGED vars
  BY <1>1 DEF vars
<1>2. ASSUME NEW r \in Requests, Create(r)
      PROVE  NoPhantomRow'
  <2>1. CASE \/ Lookup(r)
             \/ CustomerFound(r)
             \/ CustomerMissing(r)
             \/ CustomerByKey(r)
             \/ CustomerByEmail(r)
             \/ Fail(r)
             \/ CustomerInsertFails(r)
             \/ InsertFails(r)
    BY <2>1 DEF Lookup, CustomerFound, CustomerMissing, CustomerByKey,
           CustomerByEmail, Fail, CustomerInsertFails, InsertFails
  <2>2. CASE CustomerCreated(r)
    BY <2>2 DEF CustomerCreated
  <2>3. CASE CustomerInserted(r)
    BY <2>3 DEF CustomerInserted
  <2>4. CASE CustomerInsertLost(r)
    BY <2>4 DEF CustomerInsertLost
  <2>5. CASE IntentCreated(r)
    BY <2>5 DEF IntentCreated, Answered, LiveCustomers
  <2>6. CASE SecretMissing(r)
    BY <2>6 DEF SecretMissing, Answered, LiveCustomers
  <2>7. CASE Insert(r)
    BY <2>7 DEF Insert
  <2>8. CASE InsertLost(r)
    BY <2>8 DEF InsertLost
  <2>9. CASE Void(r)
    BY <2>9 DEF Void
  <2>10. QED
    BY <1>2, <2>1, <2>2, <2>3, <2>4, <2>5, <2>6, <2>7, <2>8, <2>9 DEF Create, CreateCustomer
<1>3. ASSUME NEW k \in Keys, CleanUp(k) \/ Pay(k) \/ Cancel(k) \/ HandleEvent(k)
      PROVE  NoPhantomRow'
  <2>1. CASE \/ DeleteCustomerLost(k)
             \/ CancelInRowLost(k)
    BY <2>1 DEF DeleteCustomerLost, CancelInRowLost
  <2>2. CASE DeleteCustomer(k)
    BY <2>2 DEF DeleteCustomer
  <2>3. CASE Pay(k)
    <3>1. CASE Confirmable(k) /\ Move(k, "open", "succeeded")
      BY <3>1 DEF Move, Confirmable
    <3>2. CASE Confirmable(k) /\ Move(k, "open", "processing")
      BY <3>2 DEF Move, Confirmable
    <3>3. CASE Move(k, "processing", "succeeded")
      BY <3>3 DEF Move
    <3>4. CASE Move(k, "processing", "open")
      BY <3>4 DEF Move
    <3>5. QED
      BY <2>3, <3>1, <3>2, <3>3, <3>4 DEF Pay
  <2>4. CASE CancelAtStripe(k)
    BY <2>4 DEF CancelAtStripe
  <2>5. CASE CancelInRow(k)
    BY <2>5 DEF CancelInRow
  <2>6. CASE HandleEvent(k)
    <3>1. PICK state \in IntentStatus : UpdateStatus(k, state)
      BY <2>6 DEF HandleEvent
    <3>2. QED
      BY <3>1 DEF UpdateStatus
  <2>7. QED
    BY <1>3, <2>1, <2>2, <2>3, <2>4, <2>5, <2>6 DEF CleanUp, Cancel
<1>4. QED
  BY <1>1, <1>2, <1>3 DEF Next

\* Paying starts after the row appeared.
LEMMA StepProcessing ==
  ASSUME TypeOK, StepReached, CancelHappened, NoPhantomRow, ProcessingHasRow, [Next]_vars
  PROVE  ProcessingHasRow'
<1> USE ConstantsAssumption
    DEF TypeOK, StepReached, CancelHappened, NoPhantomRow, ProcessingHasRow,
        stripeVars, customerVars, afterVars, GoTo, User, IntentStatus,
        RequestStep
<1>1. CASE UNCHANGED vars
  BY <1>1 DEF vars
<1>2. ASSUME NEW r \in Requests, Create(r)
      PROVE  ProcessingHasRow'
  <2>1. CASE \/ Lookup(r)
             \/ CustomerFound(r)
             \/ CustomerMissing(r)
             \/ CustomerByKey(r)
             \/ CustomerByEmail(r)
             \/ Fail(r)
             \/ CustomerInsertFails(r)
             \/ InsertFails(r)
             \/ CustomerCreated(r)
             \/ CustomerInserted(r)
             \/ CustomerInsertLost(r)
    BY <2>1 DEF Lookup, CustomerFound, CustomerMissing, CustomerByKey,
           CustomerByEmail, Fail, CustomerInsertFails, InsertFails,
           CustomerCreated, CustomerInserted, CustomerInsertLost
  <2>2. CASE IntentCreated(r)
    BY <2>2 DEF IntentCreated, Answered, LiveCustomers
  <2>3. CASE SecretMissing(r)
    BY <2>3 DEF SecretMissing, Answered, LiveCustomers
  <2>4. CASE Insert(r)
    BY <2>4 DEF Insert
  <2>5. CASE InsertLost(r)
    BY <2>5 DEF InsertLost
  <2>6. CASE Void(r)
    BY <2>6 DEF Void
  <2>7. QED
    BY <1>2, <2>1, <2>2, <2>3, <2>4, <2>5, <2>6 DEF Create, CreateCustomer
<1>3. ASSUME NEW k \in Keys, CleanUp(k) \/ Pay(k) \/ Cancel(k) \/ HandleEvent(k)
      PROVE  ProcessingHasRow'
  <2>1. CASE \/ DeleteCustomer(k)
             \/ DeleteCustomerLost(k)
             \/ CancelInRowLost(k)
    BY <2>1 DEF DeleteCustomer, DeleteCustomerLost, CancelInRowLost
  <2>2. CASE Pay(k)
    <3>1. CASE Confirmable(k) /\ Move(k, "open", "succeeded")
      BY <3>1 DEF Move, Confirmable
    <3>2. CASE Confirmable(k) /\ Move(k, "open", "processing")
      BY <3>2 DEF Move, Confirmable
    <3>3. CASE Move(k, "processing", "succeeded")
      BY <3>3 DEF Move
    <3>4. CASE Move(k, "processing", "open")
      BY <3>4 DEF Move
    <3>5. QED
      BY <2>2, <3>1, <3>2, <3>3, <3>4 DEF Pay
  <2>3. CASE CancelAtStripe(k)
    BY <2>3 DEF CancelAtStripe
  <2>4. CASE CancelInRow(k)
    BY <2>4 DEF CancelInRow
  <2>5. CASE HandleEvent(k)
    <3>1. PICK state \in IntentStatus : UpdateStatus(k, state)
      BY <2>5 DEF HandleEvent
    <3>2. QED
      BY <3>1 DEF UpdateStatus
  <2>6. QED
    BY <1>3, <2>1, <2>2, <2>3, <2>4, <2>5 DEF CleanUp, Cancel
<1>4. QED
  BY <1>1, <1>2, <1>3 DEF Next

\* A PaymentIntent is paid after its row appeared.
LEMMA StepCharge ==
  ASSUME TypeOK, StepReached, CancelHappened, NoPhantomRow, ProcessingHasRow, ChargeHasRow,
         [Next]_vars
  PROVE  ChargeHasRow'
<1> USE ConstantsAssumption
    DEF TypeOK, StepReached, CancelHappened, NoPhantomRow, ProcessingHasRow,
        ChargeHasRow, stripeVars, customerVars, afterVars, GoTo, User,
        IntentStatus, RequestStep
<1>1. CASE UNCHANGED vars
  BY <1>1 DEF vars
<1>2. ASSUME NEW r \in Requests, Create(r)
      PROVE  ChargeHasRow'
  <2>1. CASE \/ Lookup(r)
             \/ CustomerFound(r)
             \/ CustomerMissing(r)
             \/ CustomerByKey(r)
             \/ CustomerByEmail(r)
             \/ Fail(r)
             \/ CustomerInsertFails(r)
             \/ InsertFails(r)
             \/ CustomerCreated(r)
             \/ CustomerInserted(r)
             \/ CustomerInsertLost(r)
    BY <2>1 DEF Lookup, CustomerFound, CustomerMissing, CustomerByKey,
           CustomerByEmail, Fail, CustomerInsertFails, InsertFails,
           CustomerCreated, CustomerInserted, CustomerInsertLost
  <2>2. CASE IntentCreated(r)
    BY <2>2 DEF IntentCreated, Answered, LiveCustomers
  <2>3. CASE SecretMissing(r)
    BY <2>3 DEF SecretMissing, Answered, LiveCustomers
  <2>4. CASE Insert(r)
    BY <2>4 DEF Insert
  <2>5. CASE InsertLost(r)
    BY <2>5 DEF InsertLost
  <2>6. CASE Void(r)
    BY <2>6 DEF Void
  <2>7. QED
    BY <1>2, <2>1, <2>2, <2>3, <2>4, <2>5, <2>6 DEF Create, CreateCustomer
<1>3. ASSUME NEW k \in Keys, CleanUp(k) \/ Pay(k) \/ Cancel(k) \/ HandleEvent(k)
      PROVE  ChargeHasRow'
  <2>1. CASE \/ DeleteCustomer(k)
             \/ DeleteCustomerLost(k)
             \/ CancelInRowLost(k)
    BY <2>1 DEF DeleteCustomer, DeleteCustomerLost, CancelInRowLost
  <2>2. CASE Pay(k)
    <3>1. CASE Confirmable(k) /\ Move(k, "open", "succeeded")
      BY <3>1 DEF Move, Confirmable
    <3>2. CASE Confirmable(k) /\ Move(k, "open", "processing")
      BY <3>2 DEF Move, Confirmable
    <3>3. CASE Move(k, "processing", "succeeded")
      BY <3>3 DEF Move
    <3>4. CASE Move(k, "processing", "open")
      BY <3>4 DEF Move
    <3>5. QED
      BY <2>2, <3>1, <3>2, <3>3, <3>4 DEF Pay
  <2>3. CASE CancelAtStripe(k)
    BY <2>3 DEF CancelAtStripe
  <2>4. CASE CancelInRow(k)
    BY <2>4 DEF CancelInRow
  <2>5. CASE HandleEvent(k)
    <3>1. PICK state \in IntentStatus : UpdateStatus(k, state)
      BY <2>5 DEF HandleEvent
    <3>2. QED
      BY <3>1 DEF UpdateStatus
  <2>6. QED
    BY <1>3, <2>1, <2>2, <2>3, <2>4, <2>5 DEF CleanUp, Cancel
<1>4. QED
  BY <1>1, <1>2, <1>3 DEF Next

\* The end of a PaymentIntent at Stripe is final, and rows copy it.
LEMMA StepRowEnd ==
  ASSUME TypeOK, CancelHappened, EventEndIsTrue, RowEndIsTrue, [Next]_vars
  PROVE  RowEndIsTrue'
<1> USE ConstantsAssumption
    DEF TypeOK, CancelHappened, EventEndIsTrue, RowEndIsTrue, stripeVars,
        customerVars, afterVars, GoTo, User, IntentStatus, RequestStep
<1>1. CASE UNCHANGED vars
  BY <1>1 DEF vars
<1>2. ASSUME NEW r \in Requests, Create(r)
      PROVE  RowEndIsTrue'
  <2>1. CASE \/ Lookup(r)
             \/ CustomerFound(r)
             \/ CustomerMissing(r)
             \/ CustomerByKey(r)
             \/ CustomerByEmail(r)
             \/ Fail(r)
             \/ CustomerInsertFails(r)
             \/ InsertFails(r)
             \/ CustomerCreated(r)
             \/ CustomerInserted(r)
             \/ CustomerInsertLost(r)
    BY <2>1 DEF Lookup, CustomerFound, CustomerMissing, CustomerByKey,
           CustomerByEmail, Fail, CustomerInsertFails, InsertFails,
           CustomerCreated, CustomerInserted, CustomerInsertLost
  <2>2. CASE IntentCreated(r)
    BY <2>2 DEF IntentCreated, Answered, LiveCustomers
  <2>3. CASE SecretMissing(r)
    BY <2>3 DEF SecretMissing, Answered, LiveCustomers
  <2>4. CASE Insert(r)
    BY <2>4 DEF Insert
  <2>5. CASE InsertLost(r)
    BY <2>5 DEF InsertLost
  <2>6. CASE Void(r)
    BY <2>6 DEF Void
  <2>7. QED
    BY <1>2, <2>1, <2>2, <2>3, <2>4, <2>5, <2>6 DEF Create, CreateCustomer
<1>3. ASSUME NEW k \in Keys, CleanUp(k) \/ Pay(k) \/ Cancel(k) \/ HandleEvent(k)
      PROVE  RowEndIsTrue'
  <2>1. CASE \/ DeleteCustomer(k)
             \/ DeleteCustomerLost(k)
             \/ CancelInRowLost(k)
    BY <2>1 DEF DeleteCustomer, DeleteCustomerLost, CancelInRowLost
  <2>2. CASE Pay(k)
    <3>1. CASE Confirmable(k) /\ Move(k, "open", "succeeded")
      BY <3>1 DEF Move, Confirmable
    <3>2. CASE Confirmable(k) /\ Move(k, "open", "processing")
      BY <3>2 DEF Move, Confirmable
    <3>3. CASE Move(k, "processing", "succeeded")
      BY <3>3 DEF Move
    <3>4. CASE Move(k, "processing", "open")
      BY <3>4 DEF Move
    <3>5. QED
      BY <2>2, <3>1, <3>2, <3>3, <3>4 DEF Pay
  <2>3. CASE CancelAtStripe(k)
    BY <2>3 DEF CancelAtStripe
  <2>4. CASE CancelInRow(k)
    BY <2>4 DEF CancelInRow
  <2>5. CASE HandleEvent(k)
    <3>1. PICK state \in IntentStatus : UpdateStatus(k, state)
      BY <2>5 DEF HandleEvent
    <3>2. QED
      BY <3>1 DEF UpdateStatus
  <2>6. QED
    BY <1>3, <2>1, <2>2, <2>3, <2>4, <2>5 DEF CleanUp, Cancel
<1>4. QED
  BY <1>1, <1>2, <1>3 DEF Next

-------------------------------------------------------------------------------
(* The theorems.                                                               *)

\* The inductive invariant holds of every behaviour.
THEOREM Invariance == Spec => []IInv
<1>1. Init => IInv
  BY ConstantsAssumption
  DEF Init, IInv, TypeOK, IntentStatus, RequestStep, StepReached, CancelHappened,
      EventEndIsTrue, ProcessingHasRow, NoPhantomRow, ChargeHasRow, RowEndIsTrue
<1>2. IInv /\ [Next]_vars => IInv'
  BY StepType, StepReachedKept, StepCancel, StepEvents, StepPhantom,
     StepProcessing, StepCharge, StepRowEnd
  DEF IInv
<1>3. QED
  BY <1>1, <1>2, PTL DEF Spec

\* Every variable keeps its type.
THEOREM TypeCorrect == Spec => []TypeOK
<1>1. IInv => TypeOK
  BY DEF IInv
<1>2. QED
  BY <1>1, Invariance, PTL

\* No record is a phantom: its object was made at Stripe first.
THEOREM NoPhantoms == Spec => []NoPhantomRow
<1>1. IInv => NoPhantomRow
  BY DEF IInv
<1>2. QED
  BY <1>1, Invariance, PTL

\* Nobody is charged without a local record.
THEOREM ChargesAreRecorded == Spec => []ChargeHasRow
<1>1. IInv => ChargeHasRow
  BY DEF IInv
<1>2. QED
  BY <1>1, Invariance, PTL

\* A row never claims an end of a payment that Stripe does not know of.
THEOREM RowEndsAreTrue == Spec => []RowEndIsTrue
<1>1. IInv => RowEndIsTrue
  BY DEF IInv
<1>2. QED
  BY <1>1, Invariance, PTL
===============================================================================
