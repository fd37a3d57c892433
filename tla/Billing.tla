-------------------------------- MODULE Billing --------------------------------
(***************************************************************************)
(* The billing cycle of apps/api: BILLING_RECORDS move from pending to     *)
(* locked (BillingService.lockBillingAmounts, a cron job that runs every   *)
(* day at 17:00) and from locked to charged or failed                      *)
(* (processMonthlyCharges, on the 5th at 03:00), each charge being a call  *)
(* of Stripe between two database statements.  The dev-only endpoints that *)
(* create a record and charge one at once are included; DevTriggers = {}   *)
(* is the production build, where DevOnlyGuard refuses them.               *)
(*                                                                         *)
(* Every await is a boundary between two actions.  A statement or a call   *)
(* of Stripe can fail, the answer of a charge that went through can be     *)
(* lost, and a process can die at any of them; a cron time that finds a    *)
(* process dead is skipped by it.                                          *)
(*                                                                         *)
(* Production runs one api process per CPU core (PM2's cluster mode), each *)
(* with a scheduler of its own: every cron job fires in every process.     *)
(* Nothing keeps two of them from the same records.                        *)
(*                                                                         *)
(* Abstracted: amounts, currencies, the text of errors and notifications,  *)
(* the hours at which nothing is due, and the status of the PaymentIntent  *)
(* that a charge returns (succeeded or still processing), which the code   *)
(* does not read.                                                          *)
(***************************************************************************)
EXTENDS Naturals

CONSTANTS
  Records,         \* identifiers of billing records
  SubscriptionOf,  \* SubscriptionOf[r]: the subscription that record r bills
  DevTriggers,     \* calls of the dev-only endpoint that charges at once
  Processes,       \* the api processes; each runs both cron jobs
  LastMonth,       \* bound on the calendar
  LastDay,         \* days of a month
  ChargeDay        \* day of the month on which locked records are charged

ASSUME ConstantsAssumption ==
  /\ Processes \cap DevTriggers = {}
  /\ LastMonth \in Nat \ {0}
  /\ LastDay \in Nat \ {0}
  /\ ChargeDay \in 1..LastDay

VARIABLES
  month, day, hour,  \* the last cron time that has passed, of any job
  due,      \* due[p]: the cron jobs of that time that p has not started
  status,   \* status[r]: STATUS of record r, "none" when there is no such record
  period,   \* period[r]: the month of PERIOD_DATE
  lockIds,  \* lockIds[p]: the ids that p's lock run has read and not written yet
  step,     \* step[c]: the next step of charge run c, a process or a dev trigger
  found,    \* found[c]: the records that the run set out to charge
  rest,     \* rest[c]: those it has not come to yet
  cur,      \* cur[c]: the record it is charging
  accepted  \* accepted[c][r]: PaymentIntents that Stripe accepted from c for r

clock      == <<month, day, hour>>
recordVars == <<status, period>>
runVars    == <<step, found, rest, cur>>
vars       == <<month, day, hour, due, status, period, lockIds, step, found, rest,
                cur, accepted>>

Chargers == DevTriggers \cup Processes

Status == {"none", "pending", "locked", "charged", "failed"}

Outcome == {"charged", "failed"}

\* "next" is the head of the loop over the records; from "charge" on a run works
\* on cur[c]; a dev trigger reads the locked and then the pending records first.
Step == {"idle", "readLocked", "readPending", "next", "charge", "mark", "catch",
         "notify", "done"}

TypeOK ==
  /\ month \in 1..LastMonth /\ day \in 1..LastDay /\ hour \in {3, 17}
  /\ due \in [Processes -> SUBSET {"lock", "charge"}]
  /\ status \in [Records -> Status]
  /\ period \in [Records -> 0..LastMonth]
  /\ lockIds \in [Processes -> SUBSET Records]
  /\ step \in [Chargers -> Step]
  /\ found \in [Chargers -> SUBSET Records]
  /\ rest \in [Chargers -> SUBSET Records]
  /\ cur \in [Chargers -> SUBSET Records]
  /\ accepted \in [Chargers -> [Records -> Nat]]

Init ==
  /\ month = 1 /\ day = 1 /\ hour = 3
  /\ due = [p \in Processes |-> {}]
  /\ status = [r \in Records |-> "none"]
  /\ period = [r \in Records |-> 0]
  /\ lockIds = [p \in Processes |-> {}]
  /\ step = [c \in Chargers |-> "idle"]
  /\ found = [c \in Chargers |-> {}]
  /\ rest = [c \in Chargers |-> {}]
  /\ cur = [c \in Chargers |-> {}]
  /\ accepted = [c \in Chargers |-> [r \in Records |-> 0]]

-------------------------------------------------------------------------------

ThisMonth(state) == {r \in Records : status[r] = state /\ period[r] = month}

GoTo(c, s) == step' = [step EXCEPT ![c] = s]

SetStatus(rs, s) == status' = [r \in Records |-> IF r \in rs THEN s ELSE status[r]]

Accept(c) ==
  accepted' = [accepted EXCEPT ![c] =
                 [r \in Records |-> IF r \in cur[c] THEN @[r] + 1 ELSE @[r]]]

\* Where a run goes when it is finished with cur[c]: a process on to the next
\* record of its loop, a dev trigger to its answer.
AfterRecord(c) == IF c \in Processes THEN "next" ELSE "done"

\* Faulty variants, for validating the properties.

\* Faulty FindLockedForCurrentMonth: the locked records of any month.
FindLockedForAnyMonth == {r \in Records : status[r] = "locked"}

\* Faulty FindPendingForCurrentMonth: every record of the month.
FindAllForCurrentMonth == {r \in Records : status[r] # "none" /\ period[r] = month}

\* Faulty ChargeDeclined: the error is logged and the loop goes on.
ChargeDeclinedSwallowed(c) ==
  /\ step[c] = "charge"
  /\ GoTo(c, AfterRecord(c))
  /\ UNCHANGED <<clock, due, recordVars, lockIds, found, rest, cur, accepted>>

\* Faulty Tick: the last day of the month is not noticed.
TickPastMonthEnd ==
  /\ \A p \in Processes : lockIds[p] = {}
  /\ \/ hour = 3 /\ hour' = 17 /\ UNCHANGED <<month, day>>
     \/ hour = 17 /\ hour' = 3 /\ day <= LastDay /\ day' = day + 1 /\ UNCHANGED month
  /\ UNCHANGED <<due, recordVars, lockIds, runVars, accepted>>

-------------------------------------------------------------------------------
(* The calendar.                                                               *)

\* The jobs that fire on day d at hour h.
DueAt(d, h) ==
  IF h = 17 THEN {"lock"} ELSE IF d = ChargeDay THEN {"charge"} ELSE {}

\* Jobs of the previous time that did not start by now were missed.  A lock run,
\* two statements, is over before the next cron time, and a charge run before the
\* next month's.
Tick ==
  /\ \A p \in Processes : lockIds[p] = {}
  /\ \/ hour = 3 /\ hour' = 17 /\ UNCHANGED <<month, day>>
     \/ hour = 17 /\ hour' = 3 /\ day < LastDay /\ day' = day + 1 /\ UNCHANGED month
     \/ /\ hour = 17 /\ hour' = 3 /\ day = LastDay /\ day' = 1
        /\ month < LastMonth /\ month' = month + 1
  /\ due' = [p \in Processes |-> DueAt(day', hour')]
  /\ "charge" \in DueAt(day', hour') => \A p \in Processes : step[p] = "idle"
  /\ UNCHANGED <<recordVars, lockIds, runVars, accepted>>

\* createBillingRecord: the period is the current month.
CreateRecord(r) ==
  /\ status[r] = "none"
  /\ SetStatus({r}, "pending")
  /\ period' = [period EXCEPT ![r] = month]
  /\ UNCHANGED <<clock, due, lockIds, runVars, accepted>>

-------------------------------------------------------------------------------
(* lockBillingAmounts.                                                         *)

FindPendingForCurrentMonth == ThisMonth("pending")

LockBegin(p) ==
  /\ "lock" \in due[p]
  /\ due' = [due EXCEPT ![p] = @ \ {"lock"}]
  /\ lockIds' = [lockIds EXCEPT ![p] = FindPendingForCurrentMonth]
  /\ UNCHANGED <<clock, recordVars, runVars, accepted>>

\* The update names the ids and looks at nothing else.
LockAll(p) ==
  /\ lockIds[p] # {}
  /\ SetStatus(lockIds[p], "locked")
  /\ lockIds' = [lockIds EXCEPT ![p] = {}]
  /\ UNCHANGED <<clock, due, period, runVars, accepted>>

LockFails(p) ==
  /\ lockIds[p] # {}
  /\ lockIds' = [lockIds EXCEPT ![p] = {}]
  /\ UNCHANGED <<clock, due, recordVars, runVars, accepted>>

-------------------------------------------------------------------------------
(* processMonthlyCharges: which records, in which order.                       *)

FindLockedForCurrentMonth == ThisMonth("locked")

ChargeBegin(p) ==
  /\ "charge" \in due[p]
  /\ step[p] = "idle"
  /\ due' = [due EXCEPT ![p] = @ \ {"charge"}]
  /\ found' = [found EXCEPT ![p] = FindLockedForCurrentMonth]
  /\ rest' = [rest EXCEPT ![p] = FindLockedForCurrentMonth]
  /\ GoTo(p, "next")
  /\ UNCHANGED <<clock, recordVars, lockIds, cur, accepted>>

\* The query has no ORDER BY, and the loop does not look at the record again.
NextRecord(p) ==
  /\ step[p] = "next"
  /\ \E r \in rest[p] :
       /\ rest' = [rest EXCEPT ![p] = @ \ {r}]
       /\ cur' = [cur EXCEPT ![p] = {r}]
  /\ GoTo(p, "charge")
  /\ UNCHANGED <<clock, due, recordVars, lockIds, found, accepted>>

ChargeEnd(p) ==
  /\ step[p] = "next"
  /\ rest[p] = {}
  /\ GoTo(p, "idle")
  /\ cur' = [cur EXCEPT ![p] = {}]
  /\ UNCHANGED <<clock, due, recordVars, lockIds, found, rest, accepted>>

-------------------------------------------------------------------------------
(* triggerChargeForSubscription: the same charge for one record.               *)

\* The latest record of a subscription; any of them when several are of the same
\* month.
LatestOf(s) ==
  {r \in Records :
     /\ SubscriptionOf[r] = s /\ status[r] # "none"
     /\ \A q \in Records :
          SubscriptionOf[q] = s /\ status[q] # "none" => period[q] <= period[r]}

DevFind(c) ==
  /\ step[c] = "idle"
  /\ \E s \in {SubscriptionOf[r] : r \in Records} : \E r \in LatestOf(s) :
       /\ cur' = [cur EXCEPT ![c] = {r}]
       /\ found' = [found EXCEPT ![c] = {r}]
  /\ GoTo(c, "readLocked")
  /\ UNCHANGED <<clock, due, recordVars, lockIds, rest, accepted>>

\* A record that is locked is charged whatever the second query returns.
DevReadLocked(c) ==
  /\ step[c] = "readLocked"
  /\ GoTo(c, IF cur[c] \subseteq FindLockedForCurrentMonth THEN "charge" ELSE "readPending")
  /\ UNCHANGED <<clock, due, recordVars, lockIds, found, rest, cur, accepted>>

DevReadPending(c) ==
  /\ step[c] = "readPending"
  /\ GoTo(c, IF cur[c] \subseteq FindPendingForCurrentMonth THEN "charge" ELSE "done")
  /\ UNCHANGED <<clock, due, recordVars, lockIds, found, rest, cur, accepted>>

-------------------------------------------------------------------------------
(* Charging one record.                                                        *)

\* No idempotency key is sent: every call that Stripe accepts is a charge of its
\* own.  The status of the PaymentIntent is not looked at, so one that is still
\* processing, whose money may never come, is marked like one that succeeded.
ChargeAccepted(c) ==
  /\ step[c] = "charge"
  /\ Accept(c)
  /\ GoTo(c, "mark")
  /\ UNCHANGED <<clock, due, recordVars, lockIds, found, rest, cur>>

ChargeDeclined(c) ==
  /\ step[c] = "charge"
  /\ GoTo(c, "catch")
  /\ UNCHANGED <<clock, due, recordVars, lockIds, found, rest, cur, accepted>>

\* The charge went through and the SDK, its retries used up, throws.
ChargeAnswerLost(c) ==
  /\ step[c] = "charge"
  /\ Accept(c)
  /\ GoTo(c, "catch")
  /\ UNCHANGED <<clock, due, recordVars, lockIds, found, rest, cur>>

MarkCharged(c) ==
  /\ step[c] = "mark"
  /\ SetStatus(cur[c], "charged")
  /\ GoTo(c, AfterRecord(c))
  /\ UNCHANGED <<clock, due, period, lockIds, found, rest, cur, accepted>>

\* The statement is in the try block of the charge: its error fails the record.
MarkChargedThrows(c) ==
  /\ step[c] = "mark"
  /\ GoTo(c, "catch")
  /\ UNCHANGED <<clock, due, recordVars, lockIds, found, rest, cur, accepted>>

MarkFailed(c) ==
  /\ step[c] = "catch"
  /\ SetStatus(cur[c], "failed")
  /\ GoTo(c, "notify")
  /\ UNCHANGED <<clock, due, period, lockIds, found, rest, cur, accepted>>

\* Nothing catches this error: it ends the run, with the records still to come.
MarkFailedThrows(c) ==
  /\ step[c] = "catch"
  /\ GoTo(c, IF c \in Processes THEN "idle" ELSE "done")
  /\ rest' = [rest EXCEPT ![c] = {}]
  /\ cur' = [cur EXCEPT ![c] = {}]
  /\ UNCHANGED <<clock, due, recordVars, lockIds, found, accepted>>

\* The notification of the customer is inserted, or fails to be, which is logged;
\* no code of the cycle reads it.
Notify(c) ==
  /\ step[c] = "notify"
  /\ GoTo(c, AfterRecord(c))
  /\ UNCHANGED <<clock, due, recordVars, lockIds, found, rest, cur, accepted>>

-------------------------------------------------------------------------------

\* Process p dies, with the dev triggers it serves, and is started again; no job
\* resumes.
Crash(p) ==
  /\ due' = [due EXCEPT ![p] = {}]
  /\ lockIds' = [lockIds EXCEPT ![p] = {}]
  /\ \E served \in SUBSET DevTriggers :
       /\ step' = [c \in Chargers |->
                     IF c = p THEN "idle"
                     ELSE IF c \in served /\ step[c] # "idle" THEN "done" ELSE step[c]]
       /\ rest' = [c \in Chargers |-> IF c = p \/ c \in served THEN {} ELSE rest[c]]
       /\ cur' = [c \in Chargers |-> IF c = p \/ c \in served THEN {} ELSE cur[c]]
  /\ UNCHANGED <<clock, recordVars, found, accepted>>

LockBillingAmounts(p) == LockBegin(p) \/ LockAll(p) \/ LockFails(p)

ChargeRecord(c) ==
  \/ ChargeAccepted(c)
  \/ ChargeDeclined(c)
  \/ ChargeAnswerLost(c)
  \/ MarkCharged(c)
  \/ MarkChargedThrows(c)
  \/ MarkFailed(c)
  \/ MarkFailedThrows(c)
  \/ Notify(c)

ProcessMonthlyCharges(p) == ChargeBegin(p) \/ NextRecord(p) \/ ChargeEnd(p)

TriggerCharge(c) == DevFind(c) \/ DevReadLocked(c) \/ DevReadPending(c)

Next ==
  \/ Tick
  \/ \E r \in Records : CreateRecord(r)
  \/ \E p \in Processes : LockBillingAmounts(p)
  \/ \E p \in Processes : ProcessMonthlyCharges(p)
  \/ \E c \in DevTriggers : TriggerCharge(c)
  \/ \E c \in Chargers : ChargeRecord(c)
  \/ \E p \in Processes : Crash(p)

Spec == Init /\ [][Next]_vars

-------------------------------------------------------------------------------
(* Properties.                                                                 *)

\* The records that a dev trigger was asked to charge: none in production.
Triggered == UNION {found[c] : c \in DevTriggers}

\* One process charges a billing record once at most, although a crash or a failed
\* statement can leave a charged record locked: the query on the current month
\* never finds it again.  Two processes may each charge it: the cron job fires in
\* both and nothing tells one of the other.
ChargedOncePerProcess ==
  \A p \in Processes : \A r \in Records \ Triggered : accepted[p][r] <= 1

\* Nobody else charges the record: with ChargedOncePerProcess, a record is charged
\* once.  The code promises it only where there is a single process.
ChargedByOneProcess ==
  \A p, q \in Processes : \A r \in Records \ Triggered :
    accepted[p][r] > 0 /\ accepted[q][r] > 0 => p = q

\* A record is marked charged only when Stripe has accepted a PaymentIntent for it.
ChargedWasAccepted ==
  \A r \in Records : status[r] = "charged" => \E c \in Chargers : accepted[c][r] > 0

\* A record that is charged or failed is never pending or locked again: lockAll,
\* which looks at no status, overtakes no outcome.  Only another process that had
\* found the record too, and came to it later, writes its own outcome over the
\* first; then the database may say failed of a record that was charged.
OutcomeChangesByPeersOnly ==
  [][\A r \in Records \ Triggered :
       status[r] \in Outcome /\ status'[r] # status[r] =>
         /\ status'[r] \in Outcome
         /\ \E p, q \in Processes :
              /\ p # q
              /\ r \in cur[p] /\ step[p] \in {"mark", "catch"}
              /\ r \in found[q] \ rest[q]]_vars

\* What a charge run has come to and left behind is charged or failed, as long as
\* the run goes on and so too where its loop ends.  A crash, and a markFailed that
\* throws, end the run itself: what it had not come to stays locked for good.
LeftBehindIsSettled ==
  \A p \in Processes : step[p] # "idle" =>
    \A r \in found[p] \ (rest[p] \cup Triggered) :
      \/ r \in cur[p] /\ step[p] \in {"charge", "mark", "catch"}
      \/ status[r] \in Outcome
===============================================================================
