---------------------------- MODULE TrustIdPipeline ----------------------------
(***************************************************************************)
(* What TrustID sends about a trust token: the callbacks that the api and  *)
(* the webhooks app both receive (TrustIdWebhookController), the queue     *)
(* whose jobs workers of both apps take (TrustIdWebhookProcessor, which    *)
(* differ), the handler of documents that failed, and the cron that        *)
(* enqueues missed collections again.                                      *)
(*                                                                         *)
(* A callback names a container; only the one in RESOURCE_ID leads to the  *)
(* row.  AutoReferral Start says that the guest has submitted, Stop that   *)
(* TrustID is done, UpdateDocument Stop that a changed document is done.   *)
(* Guests' requests write the row meanwhile (TrustTokens says when).       *)
(*                                                                         *)
(* TrustID is external: the status it reports for the container moves from *)
(* "open" to an end.  It sends callbacks in any order and once more when   *)
(* the answer is not 200.  Abstracted: the names of the codes within a     *)
(* class, the files (a job never depends on what it could upload), METADATA *)
(* (only ever informative), the waiting times of retries.                  *)
(***************************************************************************)
EXTENDS Naturals

CONSTANTS
  Messages,    \* callbacks of TrustID, and runs of the safety net's cron
  MaxAttempts, \* attempts of a job (5)
  MaxRetries,  \* trustid.maxRetries (2): guest links after failed documents
  Spelling     \* how TrustID spells its codes: "names" or "numbers"

ASSUME PipelineAssumption ==
  /\ MaxAttempts \in Nat \ {0} /\ MaxRetries \in Nat
  /\ Spelling \in {"names", "numbers"}

VARIABLES
  tokenRow,   \* STATUS of the token's row, "none" before it is inserted
  grounds,    \* history: the verdicts that guests have given, and "guessed" once an
              \* app has written a verdict without a status that it knows
  event,      \* event[m]: "start", "stop", "document", "stray" or "net"
  job,        \* job[m]: the next step of its handler, or of the job it has become
  worker,     \* worker[m]: the app whose worker has, or has finished, job m
  attempts,   \* attempts[m]: failed attempts of job m
  seen,       \* seen[m]: the status of the container that job m has retrieved
  dbs,        \* the status of the container at TrustID
  collected,  \* S3_COLLECTED_AT is set
  retries     \* RETRY_COUNT: guest links that were made after failed documents

jobVars   == <<job, worker, attempts, seen>>
rowVars   == <<tokenRow, grounds>>
pipelineVars ==
  <<tokenRow, grounds, event, job, worker, attempts, seen, dbs, collected, retries>>

RowStatus == {"pending", "submitted", "approved", "denied", "expired"}

\* A check that is none of the DBS has no status of the tables and counts as complete.
DbsStatus == {"open", "complete", "rejected"}

JobStep ==
  {"due", "linking", "submitting", "queued", "find", "retrieve", "status",
   "mark", "check", "count", "link", "record", "done", "dead"}

Running == JobStep \ {"due", "linking", "submitting", "queued", "done", "dead"}

PipelineTypeOK ==
  /\ tokenRow \in RowStatus \cup {"none"}
  /\ grounds \subseteq {"approved", "denied", "guessed"}
  /\ event \in [Messages -> {"none", "start", "stop", "document", "stray", "net"}]
  /\ job \in [Messages -> JobStep]
  /\ worker \in [Messages -> {"none", "api", "webhooks"}]
  /\ attempts \in [Messages -> 0..MaxAttempts]
  /\ seen \in [Messages -> DbsStatus \cup {"blank", "none"}]
  /\ dbs \in DbsStatus
  /\ collected \in BOOLEAN
  /\ retries \in Nat

PipelineInit ==
  /\ tokenRow = "none" /\ grounds = {}
  /\ event = [m \in Messages |-> "none"]
  /\ job = [m \in Messages |-> "due"]
  /\ worker = [m \in Messages |-> "none"]
  /\ attempts = [m \in Messages |-> 0]
  /\ seen = [m \in Messages |-> "none"]
  /\ dbs = "open"
  /\ collected = FALSE
  /\ retries = 0

-------------------------------------------------------------------------------

JobTo(j, next) == job' = [job EXCEPT ![j] = next]

\* findByResourceId finds the token's row by the container that m names.
Named(m) == tokenRow # "none" /\ event[m] # "stray"

\* The tables of the two apps, each of which knows one spelling of the codes.
ApiTable ==
  [open |-> "submitted", complete |-> "approved", rejected |-> "denied"]
WebhooksTable ==
  [open |-> "pending", complete |-> "approved", rejected |-> "denied"]

Knows(app) == Spelling = IF app = "api" THEN "names" ELSE "numbers"

\* There is no status, or it is a code that is not in the table of the app.
Guesses(app, status) == status = "blank" \/ ~ Knows(app)

\* Faulty TokenStatus: a check that is still open counts as denied.
TokenStatusEager(app, status) ==
  IF status = "complete" THEN "approved" ELSE "denied"

\* What the app cannot tell means approved.
TokenStatus(app, status) ==
  CASE Guesses(app, status)                  -> "approved"
    [] ~ Guesses(app, status) /\ app = "api" -> ApiTable[status]
    [] OTHER                                 -> WebhooksTable[status]

\* ensureSession: a session is used as long as it is cached, whether TrustID still
\* accepts it or not.
SessionAccepted == BOOLEAN

\* retrieveDocumentContainer: the container as it is now.  An answer that has none, as
\* Success is never looked at, becomes an empty container, which has no status.
RetrieveDocumentContainer(accepted) == IF accepted THEN dbs ELSE "blank"

\* Which worker function runs the job: the webhooks app knows only one.
FirstStep(app, j) ==
  IF app = "api" /\ event[j] = "document" THEN "check" ELSE "find"

\* What a failed attempt has read is lost.
Forgets(j) ==
  /\ worker' = [worker EXCEPT ![j] = "none"]
  /\ seen' = [seen EXCEPT ![j] = "none"]

\* Faulty JobFails: the last failure leaves the job where it is.
JobFailsForEver(j) ==
  /\ job[j] \in Running
  /\ attempts' = [attempts EXCEPT ![j] = IF @ < MaxAttempts THEN @ + 1 ELSE @]
  /\ JobTo(j, "queued")
  /\ Forgets(j)
  /\ UNCHANGED <<rowVars, event, dbs, collected, retries>>

\* Faulty JobFails: the attempts are not compared with their limit.
JobFailsUnbounded(j) ==
  /\ job[j] \in Running
  /\ attempts' = [attempts EXCEPT ![j] = @ + 1]
  /\ JobTo(j, "queued")
  /\ Forgets(j)
  /\ UNCHANGED <<rowVars, event, dbs, collected, retries>>

-------------------------------------------------------------------------------
(* TrustID's side, external.                                                   *)

DbsEnds ==
  /\ dbs = "open"
  /\ dbs' \in {"complete", "rejected"}
  /\ UNCHANGED <<rowVars, event, jobVars, collected, retries>>

-------------------------------------------------------------------------------
(* The other writers of the row.                                               *)

TokenInserted ==
  /\ tokenRow = "none"
  /\ tokenRow' = "pending"
  /\ UNCHANGED <<grounds, event, jobVars, dbs, collected, retries>>

\* A guest approves or denies, or a validation finds the token too old.
GuestWrites ==
  /\ tokenRow # "none"
  /\ tokenRow' \in {"approved", "denied", "expired"}
  /\ grounds' = grounds \cup ({tokenRow'} \ {"expired"})
  /\ UNCHANGED <<event, jobVars, dbs, collected, retries>>

-------------------------------------------------------------------------------
(* handleTrustIdWebhook.                                                       *)

\* TrustID calls back.
Arrives(m, what, next) ==
  /\ job[m] = "due"
  /\ event' = [event EXCEPT ![m] = what]
  /\ \E n \in next : JobTo(m, n)
  /\ UNCHANGED <<rowVars, worker, attempts, seen, dbs, collected, retries>>

\* Start goes to the container handler.
StartArrives(m) == Arrives(m, "start", {"linking"})

\* Stop becomes a job, unless the queue is out of reach: the call is not awaited and
\* its failure is only logged.
StopArrives(m) == Arrives(m, "stop", {"queued", "done"})

\* The api makes a job of an updated document as well; the webhooks app logs it.
DocumentArrives(m) == Arrives(m, "document", {"queued", "done"})

\* Stop of the other guest link, whose container is in no row's RESOURCE_ID.
StrayArrives(m) == Arrives(m, "stray", {"queued", "done"})

\* TrustIdContainerHandler.handle: find the token ...
FindToken(m) ==
  /\ job[m] = "linking"
  /\ JobTo(m, IF Named(m) THEN "submitting" ELSE "done")
  /\ UNCHANGED <<rowVars, event, worker, attempts, seen, dbs, collected, retries>>

\* ... and mark it submitted, whatever has been decided since.
Submit(m) ==
  /\ job[m] = "submitting"
  /\ tokenRow' = "submitted"
  /\ JobTo(m, "done")
  /\ UNCHANGED <<grounds, event, worker, attempts, seen, dbs, collected, retries>>

\* A database error: the api has answered 200 and forgets it, the webhooks app answers
\* 500 and TrustID calls again.
StartFails(m) ==
  /\ job[m] \in {"linking", "submitting"}
  /\ \E next \in {"done", "linking"} : JobTo(m, next)
  /\ UNCHANGED <<rowVars, event, worker, attempts, seen, dbs, collected, retries>>

-------------------------------------------------------------------------------
(* TrustIdWebhookProcessor.                                                    *)

\* A worker of either app takes the job.
Take(j) ==
  /\ job[j] = "queued"
  /\ \E app \in {"api", "webhooks"} :
       /\ worker' = [worker EXCEPT ![j] = app]
       /\ JobTo(j, FirstStep(app, j))
  /\ UNCHANGED <<rowVars, event, attempts, seen, dbs, collected, retries>>

\* pullAndStore: without a token the job is over.
Find(j) ==
  /\ job[j] = "find"
  /\ JobTo(j, IF Named(j) THEN "retrieve" ELSE "done")
  /\ UNCHANGED <<rowVars, event, worker, attempts, seen, dbs, collected, retries>>

\* The container, and then its images, the report and the assessment, which go to S3;
\* an error in one of these uploads is logged and the job goes on.
Retrieve(j) ==
  /\ job[j] = "retrieve"
  /\ \E accepted \in SessionAccepted :
       seen' = [seen EXCEPT ![j] = RetrieveDocumentContainer(accepted)]
  /\ JobTo(j, "status")
  /\ UNCHANGED <<rowVars, event, worker, attempts, dbs, collected, retries>>

\* The status that was retrieved at the start, whatever the row says now.
UpdateStatus(j) ==
  /\ job[j] = "status"
  /\ tokenRow' = TokenStatus(worker[j], seen[j])
  /\ grounds' = grounds \cup (IF Guesses(worker[j], seen[j]) THEN {"guessed"} ELSE {})
  /\ JobTo(j, IF worker[j] = "api" THEN "mark" ELSE "done")
  /\ UNCHANGED <<event, worker, attempts, seen, dbs, collected, retries>>

\* markS3Collected, in the api only; it may fail, and the job is done all the same.
MarkCollected(j) ==
  /\ job[j] = "mark"
  /\ collected' \in {collected, TRUE}
  /\ JobTo(j, "done")
  /\ UNCHANGED <<rowVars, event, worker, attempts, seen, dbs, retries>>

\* The lookup, TrustID or the update of the row fails, or the worker dies at any step
\* (a stalled job, which counts as a failed attempt here): the job is tried again from
\* its start, or has failed for good and goes to the dead letter queue.
JobFails(j) ==
  /\ job[j] \in Running
  /\ attempts' = [attempts EXCEPT ![j] = @ + 1]
  /\ JobTo(j, IF attempts[j] + 1 < MaxAttempts THEN "queued" ELSE "dead")
  /\ Forgets(j)
  /\ UNCHANGED <<rowVars, event, dbs, collected, retries>>

-------------------------------------------------------------------------------
(* TrustIdDocumentFailedHandler.handle, in the api; every failure ends it.     *)

\* The container raises an alert, or there is nothing to do.
CheckAlert(j) ==
  /\ job[j] = "check"
  /\ \E next \in {"count", "done"} : JobTo(j, next)
  /\ UNCHANGED <<rowVars, event, worker, attempts, seen, dbs, collected, retries>>

ReadRetries(j) ==
  /\ job[j] = "count"
  /\ JobTo(j, IF Named(j) /\ retries < MaxRetries THEN "link" ELSE "done")
  /\ UNCHANGED <<rowVars, event, worker, attempts, seen, dbs, collected, retries>>

MakeRetryLink(j) ==
  /\ job[j] = "link"
  /\ JobTo(j, "record")
  /\ UNCHANGED <<rowVars, event, worker, attempts, seen, dbs, collected, retries>>

\* The database counts; when that fails the link is out all the same.
RecordRetry(j) ==
  /\ job[j] = "record"
  /\ retries' \in {retries, retries + 1}
  /\ JobTo(j, "done")
  /\ UNCHANGED <<rowVars, event, worker, attempts, seen, dbs, collected>>

\* TrustID or the database fails, or no retry branch is configured.
DocumentGivenUp(j) ==
  /\ job[j] \in {"check", "count", "link"}
  /\ JobTo(j, "done")
  /\ UNCHANGED <<rowVars, event, worker, attempts, seen, dbs, collected, retries>>

-------------------------------------------------------------------------------

\* reEnqueueMissedS3Collections, for a token whose last update is minutes old: the
\* container's name is taken from RESOURCE_ID.
Reenqueue(m) ==
  /\ job[m] = "due"
  /\ tokenRow = "approved" /\ ~collected
  /\ event' = [event EXCEPT ![m] = "net"]
  /\ JobTo(m, "queued")
  /\ UNCHANGED <<rowVars, worker, attempts, seen, dbs, collected, retries>>

-------------------------------------------------------------------------------

ContainerHandler(m) == FindToken(m) \/ Submit(m) \/ StartFails(m)

Handle(m) ==
  \/ StartArrives(m)
  \/ StopArrives(m)
  \/ StrayArrives(m)
  \/ DocumentArrives(m)
  \/ ContainerHandler(m)

PullAndStore(j) ==
  \/ Find(j)
  \/ Retrieve(j)
  \/ UpdateStatus(j)
  \/ MarkCollected(j)

DocumentFailed(j) ==
  \/ CheckAlert(j)
  \/ ReadRetries(j)
  \/ MakeRetryLink(j)
  \/ RecordRetry(j)
  \/ DocumentGivenUp(j)

Process(j) == Take(j) \/ PullAndStore(j) \/ DocumentFailed(j) \/ JobFails(j)

PipelineNext ==
  \/ DbsEnds
  \/ TokenInserted
  \/ GuestWrites
  \/ \E m \in Messages : Handle(m) \/ Process(m) \/ Reenqueue(m)

PipelineSpec == PipelineInit /\ [][PipelineNext]_pipelineVars

\* Workers poll the queue and every step of a job returns or throws in the end.
PipelineFairSpec == PipelineSpec /\ \A j \in Messages : WF_pipelineVars(Process(j))

-------------------------------------------------------------------------------
(* Properties.                                                                 *)

\* Nobody is denied or approved without a reason, whoever wrote the row last.  A denied
\* token was denied by a guest's request, or TrustID has rejected the check.  An approved
\* one was approved by a guest's request, or the check is complete, or a job had to guess:
\* its app cannot read TrustID's codes, or TrustID's answer had no container.  These are
\* the only ways in which a rejected check is written as approved.
VerdictHasReason ==
  /\ tokenRow = "denied" => dbs = "rejected" \/ "denied" \in grounds
  /\ tokenRow = "approved" => dbs = "complete" \/ {"approved", "guessed"} \cap grounds # {}

\* A token counts as collected only after TrustID was asked for its container and the
\* outcome was written to the row, by a job of the api's worker.
CollectedAfterStatus ==
  collected => \E j \in Messages :
                 worker[j] = "api" /\ job[j] = "done" /\ seen[j] # "none"

\* Every job comes to an end, failing calls and both kinds of workers included.
JobsSettle ==
  \A j \in Messages : job[j] = "queued" ~> job[j] \in {"done", "dead"}

===============================================================================
