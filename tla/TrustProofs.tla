------------------------------ MODULE TrustProofs ------------------------------
(***************************************************************************)
(* Proofs about trust tokens: TrustTokens, for any number of requests, and *)
(* TrustIdPipeline, for any number of callbacks, attempts and retries and  *)
(* both spellings of the codes.                                            *)
(*                                                                         *)
(* The invariant of the first relates what a request has read, and is      *)
(* about to cache or to show, to what the row has been, and the end that a *)
(* verdict has set to the row; that of the second relates what a job has   *)
(* retrieved to the status at TrustID, which is final once it is an end.   *)
(***************************************************************************)
EXTENDS TrustTokens, TrustIdPipeline, TLAPS


-------------------------------------------------------------------------------
(* TrustTokens: the inductive invariant.                                       *)

\* There is no row before the token is made, and no request before there is a row.
RowComesFirst ==
  /\ making = "done" <=> row # "none"
  /\ row # "none" => row \in written /\ "pending" \in written
  /\ \A r \in Requests : step[r] # "idle" => row # "none"

\* What a request carries from the row to the cache or to the page was in the row.
CarriedWasTrue ==
  \A r \in Requests :
    /\ step[r] = "store" => found[r] \in written \cap Final
    /\ step[r] = "publish" => VerdictOf(r) \in written
    /\ step[r] = "status" => kind[r] = "poll"
    /\ step[r] \in {"recheck", "write", "publish"} => kind[r] # "poll"
    /\ step[r] = "yes" /\ kind[r] = "poll" => found[r] \in written

\* After a verdict the row is at an end, and a request that began then has not come
\* past the second reading of it.
BarredStaysOut ==
  /\ settled => row \in Final
  /\ \A r \in Requests :
       /\ barred[r] => settled /\ step[r] # "idle"
       /\ barred[r] => step[r] \notin {"write", "publish"}
       /\ barred[r] /\ step[r] = "yes" => kind[r] = "poll"

IInv ==
  /\ TypeOK
  /\ RowComesFirst
  /\ CarriedWasTrue
  /\ BarredStaysOut
  /\ BelievedWasTrue

-------------------------------------------------------------------------------
(* Each part is kept by every step.                                            *)

\* The types.
LEMMA StepType ==
  ASSUME TypeOK, RowComesFirst, CarriedWasTrue, [Next]_vars
  PROVE  TypeOK'
<1> USE 
       DEF TypeOK, RequestStep, Containers, Validate, makingVars, requestVars, pageVars,
           ghostVars, UnchangedByMaking, GoTo, WhenValid, VerdictOf, SetRow, Status,
           Active, Final
<1>1. CASE UNCHANGED vars
  BY <1>1 DEF vars
<1>2. CASE FirstLink
  BY <1>2 DEF FirstLink
<1>3. CASE FirstLinkFails
  BY <1>3 DEF FirstLinkFails
<1>4. CASE SecondLink
  BY <1>4 DEF SecondLink
<1>5. CASE InsertToken
  BY <1>5 DEF InsertToken
<1>6. CASE InsertTokenFails
  BY <1>6 DEF InsertTokenFails
<1>7. CASE PassDeadline
  BY <1>7 DEF PassDeadline
<1>8. CASE CacheExpires
  BY <1>8 DEF CacheExpires
<1>9. CASE TrustIdWrites
  <2>1. PICK status \in Status : SetRow(status)
    BY <1>9 DEF TrustIdWrites
  <2>2. QED
    <3>1. row' \in Status /\ written' \subseteq Status
      BY <2>1
    <3>2. barred' \in [Requests -> BOOLEAN] /\ settled' \in BOOLEAN
      BY <1>9 DEF TrustIdWrites
    <3>3. UNCHANGED <<makingVars, cache, late, requestVars, pageVars>>
      BY <1>9 DEF TrustIdWrites
    <3>4. QED
      BY <3>1, <3>2, <3>3
<1>10. ASSUME NEW r \in Requests, Begin(r) \/ SessionCompleted(r) \/
              SessionRedelivered(r) \/ ReadCache(r) \/ ReadRow(r) \/ Expire(r) \/
              Store(r) \/ Recheck(r) \/ Write(r) \/ Publish(r) \/ ReadStatus(r) \/
              Fail(r) \/ Show(r)
      PROVE  TypeOK'
  <2>1. CASE Begin(r)
    BY <2>1 DEF Begin
  <2>2. CASE SessionCompleted(r)
    BY <2>2 DEF SessionCompleted
  <2>3. CASE SessionRedelivered(r)
    BY <2>3 DEF SessionRedelivered
  <2>4. CASE ReadCache(r)
    BY <2>4 DEF Get, ReadCache
  <2>5. CASE ReadRow(r)
    BY <2>5 DEF ReadRow
  <2>6. CASE Expire(r)
    BY <2>6 DEF Expire
  <2>7. CASE Store(r)
    BY <2>7 DEF Put, Store, CarriedWasTrue
  <2>8. CASE Recheck(r)
    BY <2>8 DEF Recheck
  <2>9. CASE Write(r)
    BY <2>9 DEF Write
  <2>10. CASE Publish(r)
    BY <2>10 DEF Publish, Put
  <2>11. CASE ReadStatus(r)
    BY <2>11 DEF ReadStatus, RowComesFirst
  <2>12. CASE Fail(r)
    BY <2>12 DEF Fail
  <2>13. CASE Show(r)
    BY <2>13 DEF Show, CarriedWasTrue
  <2>14. QED
    BY <1>10, <2>1, <2>2, <2>3, <2>4, <2>5, <2>6, <2>7, <2>8, <2>9, <2>10, <2>11, <2>12,
       <2>13
<1>11. QED
  BY <1>1, <1>2, <1>3, <1>4, <1>5, <1>6, <1>7, <1>8, <1>9, <1>10
     DEF Next, CreateToken, ValidateTrustToken, Decide

\* A row, once made, stays.
LEMMA StepRow ==
  ASSUME TypeOK, RowComesFirst, [Next]_vars
  PROVE  RowComesFirst'
<1> USE 
       DEF TypeOK, RowComesFirst, RequestStep, Validate, makingVars, requestVars,
           pageVars, ghostVars, UnchangedByMaking, GoTo, WhenValid, VerdictOf, SetRow,
           Status, Active, Final
<1>1. CASE UNCHANGED vars
  BY <1>1 DEF vars
<1>2. CASE FirstLink
  BY <1>2 DEF FirstLink
<1>3. CASE FirstLinkFails
  BY <1>3 DEF FirstLinkFails
<1>4. CASE SecondLink
  BY <1>4 DEF SecondLink
<1>5. CASE InsertToken
  BY <1>5 DEF InsertToken
<1>6. CASE InsertTokenFails
  BY <1>6 DEF InsertTokenFails
<1>7. CASE PassDeadline
  BY <1>7 DEF PassDeadline
<1>8. CASE CacheExpires
  BY <1>8 DEF CacheExpires
<1>9. CASE TrustIdWrites
  BY <1>9 DEF TrustIdWrites
<1>10. ASSUME NEW r \in Requests, Begin(r) \/ SessionCompleted(r) \/
              SessionRedelivered(r) \/ ReadCache(r) \/ ReadRow(r) \/ Expire(r) \/
              Store(r) \/ Recheck(r) \/ Write(r) \/ Publish(r) \/ ReadStatus(r) \/
              Fail(r) \/ Show(r)
      PROVE  RowComesFirst'
  <2>1. CASE Begin(r)
    BY <2>1 DEF Begin
  <2>2. CASE SessionCompleted(r)
    BY <2>2 DEF SessionCompleted
  <2>3. CASE SessionRedelivered(r)
    BY <2>3 DEF SessionRedelivered
  <2>4. CASE ReadCache(r)
    BY <2>4 DEF Get, ReadCache
  <2>5. CASE ReadRow(r)
    BY <2>5 DEF ReadRow
  <2>6. CASE Expire(r)
    BY <2>6 DEF Expire
  <2>7. CASE Store(r)
    BY <2>7 DEF Put, Store
  <2>8. CASE Recheck(r)
    BY <2>8 DEF Recheck
  <2>9. CASE Write(r)
    BY <2>9 DEF Write
  <2>10. CASE Publish(r)
    BY <2>10 DEF Publish, Put
  <2>11. CASE ReadStatus(r)
    BY <2>11 DEF ReadStatus
  <2>12. CASE Fail(r)
    BY <2>12 DEF Fail
  <2>13. CASE Show(r)
    BY <2>13 DEF Show
  <2>14. QED
    BY <1>10, <2>1, <2>2, <2>3, <2>4, <2>5, <2>6, <2>7, <2>8, <2>9, <2>10, <2>11, <2>12,
       <2>13
<1>11. QED
  BY <1>1, <1>2, <1>3, <1>4, <1>5, <1>6, <1>7, <1>8, <1>9, <1>10
     DEF Next, CreateToken, ValidateTrustToken, Decide

\* What is read or written is remembered until it is passed on.
LEMMA StepCarried ==
  ASSUME TypeOK, RowComesFirst, CarriedWasTrue, [Next]_vars
  PROVE  CarriedWasTrue'
<1> USE 
       DEF TypeOK, RowComesFirst, CarriedWasTrue, RequestStep, Validate, makingVars,
           requestVars, pageVars, ghostVars, UnchangedByMaking, GoTo, WhenValid,
           VerdictOf, SetRow, Status, Active, Final
<1>1. CASE UNCHANGED vars
  BY <1>1 DEF vars
<1>2. CASE FirstLink
  BY <1>2 DEF FirstLink
<1>3. CASE FirstLinkFails
  BY <1>3 DEF FirstLinkFails
<1>4. CASE SecondLink
  BY <1>4 DEF SecondLink
<1>5. CASE InsertToken
  BY <1>5 DEF InsertToken
<1>6. CASE InsertTokenFails
  BY <1>6 DEF InsertTokenFails
<1>7. CASE PassDeadline
  BY <1>7 DEF PassDeadline
<1>8. CASE CacheExpires
  BY <1>8 DEF CacheExpires
<1>9. CASE TrustIdWrites
  BY <1>9 DEF TrustIdWrites
<1>10. ASSUME NEW r \in Requests, Begin(r) \/ SessionCompleted(r) \/
              SessionRedelivered(r) \/ ReadCache(r) \/ ReadRow(r) \/ Expire(r) \/
              Store(r) \/ Recheck(r) \/ Write(r) \/ Publish(r) \/ ReadStatus(r) \/
              Fail(r) \/ Show(r)
      PROVE  CarriedWasTrue'
  <2>1. CASE Begin(r)
    BY <2>1 DEF Begin
  <2>2. CASE SessionCompleted(r)
    BY <2>2 DEF SessionCompleted
  <2>3. CASE SessionRedelivered(r)
    BY <2>3 DEF SessionRedelivered
  <2>4. CASE ReadCache(r)
    BY <2>4 DEF Get, ReadCache
  <2>5. CASE ReadRow(r)
    BY <2>5 DEF ReadRow
  <2>6. CASE Expire(r)
    BY <2>6 DEF Expire
  <2>7. CASE Store(r)
    BY <2>7 DEF Put, Store
  <2>8. CASE Recheck(r)
    BY <2>8 DEF Recheck
  <2>9. CASE Write(r)
    BY <2>9 DEF Write
  <2>10. CASE Publish(r)
    BY <2>10 DEF Publish, Put
  <2>11. CASE ReadStatus(r)
    BY <2>11 DEF ReadStatus
  <2>12. CASE Fail(r)
    BY <2>12 DEF Fail
  <2>13. CASE Show(r)
    BY <2>13 DEF Show
  <2>14. QED
    BY <1>10, <2>1, <2>2, <2>3, <2>4, <2>5, <2>6, <2>7, <2>8, <2>9, <2>10, <2>11, <2>12,
       <2>13
<1>11. QED
  BY <1>1, <1>2, <1>3, <1>4, <1>5, <1>6, <1>7, <1>8, <1>9, <1>10
     DEF Next, CreateToken, ValidateTrustToken, Decide

\* Nobody who comes after a verdict gets past the row.
LEMMA StepBarred ==
  ASSUME TypeOK, RowComesFirst, CarriedWasTrue, BarredStaysOut, [Next]_vars
  PROVE  BarredStaysOut'
<1> USE 
       DEF TypeOK, RowComesFirst, CarriedWasTrue, BarredStaysOut, RequestStep, Validate,
           makingVars, requestVars, pageVars, ghostVars, UnchangedByMaking, GoTo,
           WhenValid, VerdictOf, SetRow, Status, Active, Final
<1>1. CASE UNCHANGED vars
  BY <1>1 DEF vars
<1>2. CASE FirstLink
  BY <1>2 DEF FirstLink
<1>3. CASE FirstLinkFails
  BY <1>3 DEF FirstLinkFails
<1>4. CASE SecondLink
  BY <1>4 DEF SecondLink
<1>5. CASE InsertToken
  BY <1>5 DEF InsertToken
<1>6. CASE InsertTokenFails
  BY <1>6 DEF InsertTokenFails
<1>7. CASE PassDeadline
  BY <1>7 DEF PassDeadline
<1>8. CASE CacheExpires
  BY <1>8 DEF CacheExpires
<1>9. CASE TrustIdWrites
  BY <1>9 DEF TrustIdWrites
<1>10. ASSUME NEW r \in Requests, Begin(r) \/ SessionCompleted(r) \/
              SessionRedelivered(r) \/ ReadCache(r) \/ ReadRow(r) \/ Expire(r) \/
              Store(r) \/ Recheck(r) \/ Write(r) \/ Publish(r) \/ ReadStatus(r) \/
              Fail(r) \/ Show(r)
      PROVE  BarredStaysOut'
  <2>1. CASE Begin(r)
    BY <2>1 DEF Begin
  <2>2. CASE SessionCompleted(r)
    BY <2>2 DEF SessionCompleted
  <2>3. CASE SessionRedelivered(r)
    BY <2>3 DEF SessionRedelivered
  <2>4. CASE ReadCache(r)
    BY <2>4 DEF Get, ReadCache
  <2>5. CASE ReadRow(r)
    BY <2>5 DEF ReadRow
  <2>6. CASE Expire(r)
    BY <2>6 DEF Expire
  <2>7. CASE Store(r)
    BY <2>7 DEF Put, Store
  <2>8. CASE Recheck(r)
    BY <2>8 DEF Recheck
  <2>9. CASE Write(r)
    BY <2>9 DEF Write
  <2>10. CASE Publish(r)
    BY <2>10 DEF Publish, Put
  <2>11. CASE ReadStatus(r)
    BY <2>11 DEF ReadStatus
  <2>12. CASE Fail(r)
    BY <2>12 DEF Fail
  <2>13. CASE Show(r)
    BY <2>13 DEF Show
  <2>14. QED
    BY <1>10, <2>1, <2>2, <2>3, <2>4, <2>5, <2>6, <2>7, <2>8, <2>9, <2>10, <2>11, <2>12,
       <2>13
<1>11. QED
  BY <1>1, <1>2, <1>3, <1>4, <1>5, <1>6, <1>7, <1>8, <1>9, <1>10
     DEF Next, CreateToken, ValidateTrustToken, Decide

\* The cache and the page repeat what the row has said.
LEMMA StepBelieved ==
  ASSUME TypeOK, CarriedWasTrue, BelievedWasTrue, [Next]_vars
  PROVE  BelievedWasTrue'
<1> USE 
       DEF TypeOK, CarriedWasTrue, BelievedWasTrue, Screen, RequestStep, Validate,
           makingVars, requestVars, pageVars, ghostVars, UnchangedByMaking, GoTo,
           WhenValid, VerdictOf, SetRow, Status, Active, Final
<1>1. CASE UNCHANGED vars
  BY <1>1 DEF vars
<1>2. CASE FirstLink
  BY <1>2 DEF FirstLink
<1>3. CASE FirstLinkFails
  BY <1>3 DEF FirstLinkFails
<1>4. CASE SecondLink
  BY <1>4 DEF SecondLink
<1>5. CASE InsertToken
  BY <1>5 DEF InsertToken
<1>6. CASE InsertTokenFails
  BY <1>6 DEF InsertTokenFails
<1>7. CASE PassDeadline
  BY <1>7 DEF PassDeadline
<1>8. CASE CacheExpires
  BY <1>8 DEF CacheExpires
<1>9. CASE TrustIdWrites
  BY <1>9 DEF TrustIdWrites
<1>10. ASSUME NEW r \in Requests, Begin(r) \/ SessionCompleted(r) \/
              SessionRedelivered(r) \/ ReadCache(r) \/ ReadRow(r) \/ Expire(r) \/
              Store(r) \/ Recheck(r) \/ Write(r) \/ Publish(r) \/ ReadStatus(r) \/
              Fail(r) \/ Show(r)
      PROVE  BelievedWasTrue'
  <2>1. CASE Begin(r)
    BY <2>1 DEF Begin
  <2>2. CASE SessionCompleted(r)
    BY <2>2 DEF SessionCompleted
  <2>3. CASE SessionRedelivered(r)
    BY <2>3 DEF SessionRedelivered
  <2>4. CASE ReadCache(r)
    BY <2>4 DEF Get, ReadCache
  <2>5. CASE ReadRow(r)
    BY <2>5 DEF ReadRow
  <2>6. CASE Expire(r)
    BY <2>6 DEF Expire
  <2>7. CASE Store(r)
    BY <2>7 DEF Put, Store
  <2>8. CASE Recheck(r)
    BY <2>8 DEF Recheck
  <2>9. CASE Write(r)
    BY <2>9 DEF Write
  <2>10. CASE Publish(r)
    BY <2>10 DEF Publish, Put
  <2>11. CASE ReadStatus(r)
    BY <2>11 DEF ReadStatus
  <2>12. CASE Fail(r)
    BY <2>12 DEF Fail
  <2>13. CASE Show(r)
    BY <2>13 DEF Show
  <2>14. QED
    BY <1>10, <2>1, <2>2, <2>3, <2>4, <2>5, <2>6, <2>7, <2>8, <2>9, <2>10, <2>11, <2>12,
       <2>13
<1>11. QED
  BY <1>1, <1>2, <1>3, <1>4, <1>5, <1>6, <1>7, <1>8, <1>9, <1>10
     DEF Next, CreateToken, ValidateTrustToken, Decide

-------------------------------------------------------------------------------
(* The theorems.                                                               *)

\* What requests, cache and page hold of a token was once its row, in every reachable
\* state.
THEOREM Invariance == Spec => []IInv
<1>1. Init => IInv
  BY DEF Init, IInv, TypeOK, RequestStep, Containers, Status, Active, Final,
         RowComesFirst, CarriedWasTrue, BarredStaysOut, BelievedWasTrue, Screen
<1>2. IInv /\ [Next]_vars => IInv'
  BY StepType, StepRow, StepCarried, StepBarred, StepBelieved DEF IInv
<1>3. QED
  BY <1>1, <1>2, PTL DEF Spec

\* Every variable keeps its type.
THEOREM TypeCorrect == Spec => []TypeOK
<1>1. IInv => TypeOK
  BY DEF IInv
<1>2. QED
  BY <1>1, Invariance, PTL

\* The cache and the guest's page only ever repeat what the row has said.
THEOREM BeliefsWereTrue == Spec => []BelievedWasTrue
<1>1. IInv => BelievedWasTrue
  BY DEF IInv
<1>2. QED
  BY <1>1, Invariance, PTL

\* A settled token lets no further verdict through until TrustID changes it.
THEOREM SettledForGood == Spec => []SettledOnce
<1>1. IInv => SettledOnce
  BY DEF IInv, BarredStaysOut, SettledOnce
<1>2. QED
  BY <1>1, Invariance, PTL


-------------------------------------------------------------------------------
(* TrustIdPipeline: the inductive invariant.                                   *)

\* An end that a job has seen is final.
SeenIsTrue == \A m \in Messages : seen[m] \in {"complete", "rejected"} => dbs = seen[m]

\* A job that is about to write has retrieved the container; only the api's worker
\* goes on to mark the row.
JobHasSeen ==
  \A m \in Messages :
    /\ job[m] \in {"status", "mark"} => seen[m] # "none"
    /\ job[m] = "mark" => worker[m] = "api"

\* A job that is not over has an attempt left.
AttemptsLeft ==
  \A m \in Messages : job[m] \notin {"done", "dead"} => attempts[m] < MaxAttempts

PipelineIInv ==
  /\ PipelineTypeOK
  /\ SeenIsTrue
  /\ JobHasSeen
  /\ AttemptsLeft
  /\ VerdictHasReason
  /\ CollectedAfterStatus

-------------------------------------------------------------------------------
(* Each part is kept by every step.                                            *)

\* What the tables of the two apps say.
LEMMA Tables ==
  ASSUME NEW app, NEW s \in DbsStatus \cup {"blank"}
  PROVE  /\ TokenStatus(app, s) \in {"pending", "submitted", "approved", "denied"}
         /\ TokenStatus(app, s) = "denied" => s = "rejected"
         /\ TokenStatus(app, s) = "approved" => s = "complete" \/ Guesses(app, s)
BY DEF TokenStatus, Guesses, ApiTable, WebhooksTable, DbsStatus

\* The types.
LEMMA StepPipelineType ==
  ASSUME PipelineTypeOK, AttemptsLeft, JobHasSeen, [PipelineNext]_pipelineVars
  PROVE  PipelineTypeOK'
<1> USE PipelineAssumption
       DEF PipelineTypeOK, AttemptsLeft, JobHasSeen, jobVars, rowVars, JobTo, RowStatus,
           DbsStatus, JobStep, Running
<1>1. CASE UNCHANGED pipelineVars
  BY <1>1 DEF pipelineVars
<1>2. CASE DbsEnds
  BY <1>2 DEF DbsEnds
<1>3. CASE TokenInserted
  BY <1>3 DEF TokenInserted
<1>4. CASE GuestWrites
  BY <1>4 DEF GuestWrites
<1>5. ASSUME NEW m \in Messages, StartArrives(m) \/ StopArrives(m) \/ StrayArrives(m) \/
             DocumentArrives(m) \/ FindToken(m) \/ Submit(m) \/ StartFails(m) \/
             Take(m) \/ Find(m) \/ Retrieve(m) \/ UpdateStatus(m) \/ MarkCollected(m) \/
             CheckAlert(m) \/ ReadRetries(m) \/ MakeRetryLink(m) \/ RecordRetry(m) \/
             DocumentGivenUp(m) \/ JobFails(m) \/ Reenqueue(m)
      PROVE  PipelineTypeOK'
  <2>1. CASE StartArrives(m)
    BY <2>1 DEF StartArrives, Arrives
  <2>2. CASE StopArrives(m)
    BY <2>2 DEF StopArrives, Arrives
  <2>3. CASE StrayArrives(m)
    BY <2>3 DEF StrayArrives, Arrives
  <2>4. CASE DocumentArrives(m)
    BY <2>4 DEF DocumentArrives, Arrives
  <2>5. CASE FindToken(m)
    BY <2>5 DEF FindToken
  <2>6. CASE Submit(m)
    BY <2>6 DEF Submit
  <2>7. CASE StartFails(m)
    BY <2>7 DEF StartFails
  <2>8. CASE Take(m)
    BY <2>8 DEF Take, FirstStep
  <2>9. CASE Find(m)
    BY <2>9 DEF Find
  <2>10. CASE Retrieve(m)
    BY <2>10 DEF Retrieve, RetrieveDocumentContainer, SessionAccepted
  <2>11. CASE UpdateStatus(m)
    BY <2>11, Tables DEF UpdateStatus
  <2>12. CASE MarkCollected(m)
    BY <2>12 DEF MarkCollected
  <2>13. CASE CheckAlert(m)
    BY <2>13 DEF CheckAlert
  <2>14. CASE ReadRetries(m)
    BY <2>14 DEF ReadRetries
  <2>15. CASE MakeRetryLink(m)
    BY <2>15 DEF MakeRetryLink
  <2>16. CASE RecordRetry(m)
    BY <2>16 DEF RecordRetry
  <2>17. CASE DocumentGivenUp(m)
    BY <2>17 DEF DocumentGivenUp
  <2>18. CASE JobFails(m)
    BY <2>18 DEF Forgets, JobFails
  <2>19. CASE Reenqueue(m)
    BY <2>19 DEF Reenqueue
  <2>20. QED
    BY <1>5, <2>1, <2>2, <2>3, <2>4, <2>5, <2>6, <2>7, <2>8, <2>9, <2>10, <2>11, <2>12,
       <2>13, <2>14, <2>15, <2>16, <2>17, <2>18, <2>19
<1>6. QED
  BY <1>1, <1>2, <1>3, <1>4, <1>5
     DEF PipelineNext, Handle, ContainerHandler, Process, PullAndStore, DocumentFailed

\* TrustID does not take an end back.
LEMMA StepSeen ==
  ASSUME PipelineTypeOK, SeenIsTrue, [PipelineNext]_pipelineVars
  PROVE  SeenIsTrue'
<1> USE PipelineAssumption
       DEF PipelineTypeOK, SeenIsTrue, jobVars, rowVars, JobTo, RowStatus, DbsStatus,
           JobStep, Running
<1>1. CASE UNCHANGED pipelineVars
  BY <1>1 DEF pipelineVars
<1>2. CASE DbsEnds
  BY <1>2 DEF DbsEnds
<1>3. CASE TokenInserted
  BY <1>3 DEF TokenInserted
<1>4. CASE GuestWrites
  BY <1>4 DEF GuestWrites
<1>5. ASSUME NEW m \in Messages, StartArrives(m) \/ StopArrives(m) \/ StrayArrives(m) \/
             DocumentArrives(m) \/ FindToken(m) \/ Submit(m) \/ StartFails(m) \/
             Take(m) \/ Find(m) \/ Retrieve(m) \/ UpdateStatus(m) \/ MarkCollected(m) \/
             CheckAlert(m) \/ ReadRetries(m) \/ MakeRetryLink(m) \/ RecordRetry(m) \/
             DocumentGivenUp(m) \/ JobFails(m) \/ Reenqueue(m)
      PROVE  SeenIsTrue'
  <2>1. CASE StartArrives(m)
    BY <2>1 DEF StartArrives, Arrives
  <2>2. CASE StopArrives(m)
    BY <2>2 DEF StopArrives, Arrives
  <2>3. CASE StrayArrives(m)
    BY <2>3 DEF StrayArrives, Arrives
  <2>4. CASE DocumentArrives(m)
    BY <2>4 DEF DocumentArrives, Arrives
  <2>5. CASE FindToken(m)
    BY <2>5 DEF FindToken
  <2>6. CASE Submit(m)
    BY <2>6 DEF Submit
  <2>7. CASE StartFails(m)
    BY <2>7 DEF StartFails
  <2>8. CASE Take(m)
    BY <2>8 DEF Take, FirstStep
  <2>9. CASE Find(m)
    BY <2>9 DEF Find
  <2>10. CASE Retrieve(m)
    BY <2>10 DEF Retrieve, RetrieveDocumentContainer, SessionAccepted
  <2>11. CASE UpdateStatus(m)
    BY <2>11, Tables DEF UpdateStatus
  <2>12. CASE MarkCollected(m)
    BY <2>12 DEF MarkCollected
  <2>13. CASE CheckAlert(m)
    BY <2>13 DEF CheckAlert
  <2>14. CASE ReadRetries(m)
    BY <2>14 DEF ReadRetries
  <2>15. CASE MakeRetryLink(m)
    BY <2>15 DEF MakeRetryLink
  <2>16. CASE RecordRetry(m)
    BY <2>16 DEF RecordRetry
  <2>17. CASE DocumentGivenUp(m)
    BY <2>17 DEF DocumentGivenUp
  <2>18. CASE JobFails(m)
    BY <2>18 DEF Forgets, JobFails
  <2>19. CASE Reenqueue(m)
    BY <2>19 DEF Reenqueue
  <2>20. QED
    BY <1>5, <2>1, <2>2, <2>3, <2>4, <2>5, <2>6, <2>7, <2>8, <2>9, <2>10, <2>11, <2>12,
       <2>13, <2>14, <2>15, <2>16, <2>17, <2>18, <2>19
<1>6. QED
  BY <1>1, <1>2, <1>3, <1>4, <1>5
     DEF PipelineNext, Handle, ContainerHandler, Process, PullAndStore, DocumentFailed

\* A job retrieves before it writes.
LEMMA StepJob ==
  ASSUME PipelineTypeOK, JobHasSeen, [PipelineNext]_pipelineVars
  PROVE  JobHasSeen'
<1> USE PipelineAssumption
       DEF PipelineTypeOK, JobHasSeen, jobVars, rowVars, JobTo, RowStatus, DbsStatus,
           JobStep, Running
<1>1. CASE UNCHANGED pipelineVars
  BY <1>1 DEF pipelineVars
<1>2. CASE DbsEnds
  BY <1>2 DEF DbsEnds
<1>3. CASE TokenInserted
  BY <1>3 DEF TokenInserted
<1>4. CASE GuestWrites
  BY <1>4 DEF GuestWrites
<1>5. ASSUME NEW m \in Messages, StartArrives(m) \/ StopArrives(m) \/ StrayArrives(m) \/
             DocumentArrives(m) \/ FindToken(m) \/ Submit(m) \/ StartFails(m) \/
             Take(m) \/ Find(m) \/ Retrieve(m) \/ UpdateStatus(m) \/ MarkCollected(m) \/
             CheckAlert(m) \/ ReadRetries(m) \/ MakeRetryLink(m) \/ RecordRetry(m) \/
             DocumentGivenUp(m) \/ JobFails(m) \/ Reenqueue(m)
      PROVE  JobHasSeen'
  <2>1. CASE StartArrives(m)
    BY <2>1 DEF StartArrives, Arrives
  <2>2. CASE StopArrives(m)
    BY <2>2 DEF StopArrives, Arrives
  <2>3. CASE StrayArrives(m)
    BY <2>3 DEF StrayArrives, Arrives
  <2>4. CASE DocumentArrives(m)
    BY <2>4 DEF DocumentArrives, Arrives
  <2>5. CASE FindToken(m)
    BY <2>5 DEF FindToken
  <2>6. CASE Submit(m)
    BY <2>6 DEF Submit
  <2>7. CASE StartFails(m)
    BY <2>7 DEF StartFails
  <2>8. CASE Take(m)
    BY <2>8 DEF Take, FirstStep
  <2>9. CASE Find(m)
    BY <2>9 DEF Find
  <2>10. CASE Retrieve(m)
    BY <2>10 DEF Retrieve, RetrieveDocumentContainer, SessionAccepted
  <2>11. CASE UpdateStatus(m)
    BY <2>11, Tables DEF UpdateStatus
  <2>12. CASE MarkCollected(m)
    BY <2>12 DEF MarkCollected
  <2>13. CASE CheckAlert(m)
    BY <2>13 DEF CheckAlert
  <2>14. CASE ReadRetries(m)
    BY <2>14 DEF ReadRetries
  <2>15. CASE MakeRetryLink(m)
    BY <2>15 DEF MakeRetryLink
  <2>16. CASE RecordRetry(m)
    BY <2>16 DEF RecordRetry
  <2>17. CASE DocumentGivenUp(m)
    BY <2>17 DEF DocumentGivenUp
  <2>18. CASE JobFails(m)
    BY <2>18 DEF Forgets, JobFails
  <2>19. CASE Reenqueue(m)
    BY <2>19 DEF Reenqueue
  <2>20. QED
    BY <1>5, <2>1, <2>2, <2>3, <2>4, <2>5, <2>6, <2>7, <2>8, <2>9, <2>10, <2>11, <2>12,
       <2>13, <2>14, <2>15, <2>16, <2>17, <2>18, <2>19
<1>6. QED
  BY <1>1, <1>2, <1>3, <1>4, <1>5
     DEF PipelineNext, Handle, ContainerHandler, Process, PullAndStore, DocumentFailed

\* The last failure ends a job.
LEMMA StepAttempts ==
  ASSUME PipelineTypeOK, AttemptsLeft, [PipelineNext]_pipelineVars
  PROVE  AttemptsLeft'
<1> USE PipelineAssumption
       DEF PipelineTypeOK, AttemptsLeft, jobVars, rowVars, JobTo, RowStatus, DbsStatus,
           JobStep, Running
<1>1. CASE UNCHANGED pipelineVars
  BY <1>1 DEF pipelineVars
<1>2. CASE DbsEnds
  BY <1>2 DEF DbsEnds
<1>3. CASE TokenInserted
  BY <1>3 DEF TokenInserted
<1>4. CASE GuestWrites
  BY <1>4 DEF GuestWrites
<1>5. ASSUME NEW m \in Messages, StartArrives(m) \/ StopArrives(m) \/ StrayArrives(m) \/
             DocumentArrives(m) \/ FindToken(m) \/ Submit(m) \/ StartFails(m) \/
             Take(m) \/ Find(m) \/ Retrieve(m) \/ UpdateStatus(m) \/ MarkCollected(m) \/
             CheckAlert(m) \/ ReadRetries(m) \/ MakeRetryLink(m) \/ RecordRetry(m) \/
             DocumentGivenUp(m) \/ JobFails(m) \/ Reenqueue(m)
      PROVE  AttemptsLeft'
  <2>1. CASE StartArrives(m)
    BY <2>1 DEF StartArrives, Arrives
  <2>2. CASE StopArrives(m)
    BY <2>2 DEF StopArrives, Arrives
  <2>3. CASE StrayArrives(m)
    BY <2>3 DEF StrayArrives, Arrives
  <2>4. CASE DocumentArrives(m)
    BY <2>4 DEF DocumentArrives, Arrives
  <2>5. CASE FindToken(m)
    BY <2>5 DEF FindToken
  <2>6. CASE Submit(m)
    BY <2>6 DEF Submit
  <2>7. CASE StartFails(m)
    BY <2>7 DEF StartFails
  <2>8. CASE Take(m)
    BY <2>8 DEF Take, FirstStep
  <2>9. CASE Find(m)
    BY <2>9 DEF Find
  <2>10. CASE Retrieve(m)
    BY <2>10 DEF Retrieve, RetrieveDocumentContainer, SessionAccepted
  <2>11. CASE UpdateStatus(m)
    BY <2>11, Tables DEF UpdateStatus
  <2>12. CASE MarkCollected(m)
    BY <2>12 DEF MarkCollected
  <2>13. CASE CheckAlert(m)
    BY <2>13 DEF CheckAlert
  <2>14. CASE ReadRetries(m)
    BY <2>14 DEF ReadRetries
  <2>15. CASE MakeRetryLink(m)
    BY <2>15 DEF MakeRetryLink
  <2>16. CASE RecordRetry(m)
    BY <2>16 DEF RecordRetry
  <2>17. CASE DocumentGivenUp(m)
    BY <2>17 DEF DocumentGivenUp
  <2>18. CASE JobFails(m)
    BY <2>18 DEF Forgets, JobFails
  <2>19. CASE Reenqueue(m)
    BY <2>19 DEF Reenqueue
  <2>20. QED
    BY <1>5, <2>1, <2>2, <2>3, <2>4, <2>5, <2>6, <2>7, <2>8, <2>9, <2>10, <2>11, <2>12,
       <2>13, <2>14, <2>15, <2>16, <2>17, <2>18, <2>19
<1>6. QED
  BY <1>1, <1>2, <1>3, <1>4, <1>5
     DEF PipelineNext, Handle, ContainerHandler, Process, PullAndStore, DocumentFailed

\* Whoever writes a verdict has a reason.
LEMMA StepVerdict ==
  ASSUME PipelineTypeOK, SeenIsTrue, JobHasSeen, VerdictHasReason, [PipelineNext]_pipelineVars
  PROVE  VerdictHasReason'
<1> USE PipelineAssumption
       DEF PipelineTypeOK, SeenIsTrue, JobHasSeen, VerdictHasReason, jobVars, rowVars,
           JobTo, RowStatus, DbsStatus, JobStep, Running
<1>1. CASE UNCHANGED pipelineVars
  BY <1>1 DEF pipelineVars
<1>2. CASE DbsEnds
  BY <1>2 DEF DbsEnds
<1>3. CASE TokenInserted
  BY <1>3 DEF TokenInserted
<1>4. CASE GuestWrites
  BY <1>4 DEF GuestWrites
<1>5. ASSUME NEW m \in Messages, StartArrives(m) \/ StopArrives(m) \/ StrayArrives(m) \/
             DocumentArrives(m) \/ FindToken(m) \/ Submit(m) \/ StartFails(m) \/
             Take(m) \/ Find(m) \/ Retrieve(m) \/ UpdateStatus(m) \/ MarkCollected(m) \/
             CheckAlert(m) \/ ReadRetries(m) \/ MakeRetryLink(m) \/ RecordRetry(m) \/
             DocumentGivenUp(m) \/ JobFails(m) \/ Reenqueue(m)
      PROVE  VerdictHasReason'
  <2>1. CASE StartArrives(m)
    BY <2>1 DEF StartArrives, Arrives
  <2>2. CASE StopArrives(m)
    BY <2>2 DEF StopArrives, Arrives
  <2>3. CASE StrayArrives(m)
    BY <2>3 DEF StrayArrives, Arrives
  <2>4. CASE DocumentArrives(m)
    BY <2>4 DEF DocumentArrives, Arrives
  <2>5. CASE FindToken(m)
    BY <2>5 DEF FindToken
  <2>6. CASE Submit(m)
    BY <2>6 DEF Submit
  <2>7. CASE StartFails(m)
    BY <2>7 DEF StartFails
  <2>8. CASE Take(m)
    BY <2>8 DEF Take, FirstStep
  <2>9. CASE Find(m)
    BY <2>9 DEF Find
  <2>10. CASE Retrieve(m)
    BY <2>10 DEF Retrieve, RetrieveDocumentContainer, SessionAccepted
  <2>11. CASE UpdateStatus(m)
    BY <2>11, Tables DEF UpdateStatus
  <2>12. CASE MarkCollected(m)
    BY <2>12 DEF MarkCollected
  <2>13. CASE CheckAlert(m)
    BY <2>13 DEF CheckAlert
  <2>14. CASE ReadRetries(m)
    BY <2>14 DEF ReadRetries
  <2>15. CASE MakeRetryLink(m)
    BY <2>15 DEF MakeRetryLink
  <2>16. CASE RecordRetry(m)
    BY <2>16 DEF RecordRetry
  <2>17. CASE DocumentGivenUp(m)
    BY <2>17 DEF DocumentGivenUp
  <2>18. CASE JobFails(m)
    BY <2>18 DEF Forgets, JobFails
  <2>19. CASE Reenqueue(m)
    BY <2>19 DEF Reenqueue
  <2>20. QED
    BY <1>5, <2>1, <2>2, <2>3, <2>4, <2>5, <2>6, <2>7, <2>8, <2>9, <2>10, <2>11, <2>12,
       <2>13, <2>14, <2>15, <2>16, <2>17, <2>18, <2>19
<1>6. QED
  BY <1>1, <1>2, <1>3, <1>4, <1>5
     DEF PipelineNext, Handle, ContainerHandler, Process, PullAndStore, DocumentFailed

\* The mark comes last.
LEMMA StepCollected ==
  ASSUME PipelineTypeOK, JobHasSeen, CollectedAfterStatus, [PipelineNext]_pipelineVars
  PROVE  CollectedAfterStatus'
<1> USE PipelineAssumption
       DEF PipelineTypeOK, JobHasSeen, CollectedAfterStatus, jobVars, rowVars, JobTo,
           RowStatus, DbsStatus, JobStep, Running
<1>1. CASE UNCHANGED pipelineVars
  BY <1>1 DEF pipelineVars
<1>2. CASE DbsEnds
  BY <1>2 DEF DbsEnds
<1>3. CASE TokenInserted
  BY <1>3 DEF TokenInserted
<1>4. CASE GuestWrites
  BY <1>4 DEF GuestWrites
<1>5. ASSUME NEW m \in Messages, StartArrives(m) \/ StopArrives(m) \/ StrayArrives(m) \/
             DocumentArrives(m) \/ FindToken(m) \/ Submit(m) \/ StartFails(m) \/
             Take(m) \/ Find(m) \/ Retrieve(m) \/ UpdateStatus(m) \/ MarkCollected(m) \/
             CheckAlert(m) \/ ReadRetries(m) \/ MakeRetryLink(m) \/ RecordRetry(m) \/
             DocumentGivenUp(m) \/ JobFails(m) \/ Reenqueue(m)
      PROVE  CollectedAfterStatus'
  <2>1. CASE StartArrives(m)
    BY <2>1 DEF StartArrives, Arrives
  <2>2. CASE StopArrives(m)
    BY <2>2 DEF StopArrives, Arrives
  <2>3. CASE StrayArrives(m)
    BY <2>3 DEF StrayArrives, Arrives
  <2>4. CASE DocumentArrives(m)
    BY <2>4 DEF DocumentArrives, Arrives
  <2>5. CASE FindToken(m)
    BY <2>5 DEF FindToken
  <2>6. CASE Submit(m)
    BY <2>6 DEF Submit
  <2>7. CASE StartFails(m)
    BY <2>7 DEF StartFails
  <2>8. CASE Take(m)
    BY <2>8 DEF Take, FirstStep
  <2>9. CASE Find(m)
    BY <2>9 DEF Find
  <2>10. CASE Retrieve(m)
    BY <2>10 DEF Retrieve, RetrieveDocumentContainer, SessionAccepted
  <2>11. CASE UpdateStatus(m)
    BY <2>11, Tables DEF UpdateStatus
  <2>12. CASE MarkCollected(m)
    BY <2>12 DEF MarkCollected
  <2>13. CASE CheckAlert(m)
    BY <2>13 DEF CheckAlert
  <2>14. CASE ReadRetries(m)
    BY <2>14 DEF ReadRetries
  <2>15. CASE MakeRetryLink(m)
    BY <2>15 DEF MakeRetryLink
  <2>16. CASE RecordRetry(m)
    BY <2>16 DEF RecordRetry
  <2>17. CASE DocumentGivenUp(m)
    BY <2>17 DEF DocumentGivenUp
  <2>18. CASE JobFails(m)
    BY <2>18 DEF Forgets, JobFails
  <2>19. CASE Reenqueue(m)
    BY <2>19 DEF Reenqueue
  <2>20. QED
    BY <1>5, <2>1, <2>2, <2>3, <2>4, <2>5, <2>6, <2>7, <2>8, <2>9, <2>10, <2>11, <2>12,
       <2>13, <2>14, <2>15, <2>16, <2>17, <2>18, <2>19
<1>6. QED
  BY <1>1, <1>2, <1>3, <1>4, <1>5
     DEF PipelineNext, Handle, ContainerHandler, Process, PullAndStore, DocumentFailed

-------------------------------------------------------------------------------
(* The theorems.                                                               *)

\* What the jobs of the pipeline have seen is still true of TrustID, in every reachable
\* state.
THEOREM PipelineInvariance == PipelineSpec => []PipelineIInv
<1>1. PipelineInit => PipelineIInv
  <2>1. 0 \in 0..MaxAttempts /\ 0 < MaxAttempts
    BY PipelineAssumption
  <2>2. PipelineInit => PipelineTypeOK /\ AttemptsLeft
    <3>1. ASSUME PipelineInit
          PROVE  attempts \in [Messages -> 0..MaxAttempts]
      BY <3>1, <2>1 DEF PipelineInit
    <3>2. ASSUME PipelineInit
          PROVE  PipelineTypeOK
      BY <3>1, <3>2 DEF PipelineInit, PipelineTypeOK, JobStep, RowStatus, DbsStatus
    <3>3. PipelineInit => AttemptsLeft
      BY <2>1 DEF PipelineInit, AttemptsLeft
    <3>4. QED
      BY <3>2, <3>3
  <2>3. PipelineInit => SeenIsTrue /\ JobHasSeen /\ VerdictHasReason /\ CollectedAfterStatus
    BY DEF PipelineInit, SeenIsTrue, JobHasSeen, VerdictHasReason, CollectedAfterStatus
  <2>4. QED
    BY <2>2, <2>3 DEF PipelineIInv
<1>2. PipelineIInv /\ [PipelineNext]_pipelineVars => PipelineIInv'
  BY StepPipelineType, StepSeen, StepJob, StepAttempts, StepVerdict, StepCollected
     DEF PipelineIInv
<1>3. QED
  BY <1>1, <1>2, PTL DEF PipelineSpec

\* Every variable keeps its type; in particular no job is tried too often.
THEOREM PipelineTypeCorrect == PipelineSpec => []PipelineTypeOK
<1>1. PipelineIInv => PipelineTypeOK
  BY DEF PipelineIInv
<1>2. QED
  BY <1>1, PipelineInvariance, PTL

\* A token is denied or approved by a guest or by the end of its check, except that the
\* app that cannot read TrustID's codes approves whatever the end is.
THEOREM VerdictsHaveReasons == PipelineSpec => []VerdictHasReason
<1>1. PipelineIInv => VerdictHasReason
  BY DEF PipelineIInv
<1>2. QED
  BY <1>1, PipelineInvariance, PTL

\* The row is marked as collected by a finished job of the api's worker.
THEOREM MarkedByTheApi == PipelineSpec => []CollectedAfterStatus
<1>1. PipelineIInv => CollectedAfterStatus
  BY DEF PipelineIInv
<1>2. QED
  BY <1>1, PipelineInvariance, PTL
===============================================================================
