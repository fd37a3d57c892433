----------------------------- MODULE BillingProofs -----------------------------
(***************************************************************************)
(* Proofs about Billing, for every set of records, processes and dev       *)
(* triggers and every calendar.  What keeps a process from charging a      *)
(* record twice is that its charge run of that month has begun by the time *)
(* it charges, so that no later run of its own finds the record: IInv says *)
(* so, says which statuses the records that the runs and the lock runs     *)
(* hold can have, and whose outcome a record carries that another run has  *)
(* still to come to.                                                       *)
(***************************************************************************)
EXTENDS Billing, TLAPS

-------------------------------------------------------------------------------
(* The inductive invariant.                                                    *)

\* The jobs fire at their times only, and the lock runs end before the next one.
Timely ==
  \A p \in Processes :
    /\ "charge" \in due[p] => day = ChargeDay /\ hour = 3
    /\ "lock" \in due[p] => hour = 17
    /\ lockIds[p] # {} => hour = 17

\* A dev trigger works on the record it was asked for, a process on what its run
\* found, never twice; one that is idle holds no record.
Holds ==
  /\ \A c \in Chargers : cur[c] \subseteq found[c]
  /\ \A c \in DevTriggers : step[c] = "idle" => found[c] = {}
  /\ \A p \in Processes :
       /\ step[p] = "idle" => rest[p] = {} /\ cur[p] = {}
       /\ rest[p] \cap cur[p] = {}
       /\ rest[p] \subseteq found[p]

Shape == TypeOK /\ Timely /\ Holds

\* p's charge run of month m has begun, or was missed.
ChargePassed(p, m) ==
  m < month \/ (m = month /\ day >= ChargeDay /\ "charge" \notin due[p])

\* p's run has yet to settle record r.
Open(p, r) == \/ r \in rest[p]
              \/ r \in cur[p] /\ step[p] \in {"charge", "mark", "catch"}

\* What a run has found exists, and is of a month whose run it has begun; it has
\* been locked.
FoundIsPast ==
  \A p \in Processes : \A r \in found[p] \ Triggered :
    /\ status[r] \in {"locked"} \cup Outcome
    /\ ChargePassed(p, period[r])

\* While a charge job waits to start, what the other runs hold is of this month.
OpenIsCurrent ==
  \A p, q \in Processes : \A r \in Records :
    "charge" \in due[q] /\ Open(p, r) => period[r] = month

\* What a lock run is about to lock is pending or has just been locked by another
\* process, and no charge run holds or has found it.
LockIsFresh ==
  \A p \in Processes : \A r \in lockIds[p] \ Triggered :
    /\ status[r] \in {"pending", "locked"}
    /\ \A q \in Processes : r \notin found[q]

\* A process that charged a record did so once, its run of that month is past and
\* no run of its own is to charge it.
ChargedOnce ==
  \A p \in Processes : \A r \in Records \ Triggered :
    accepted[p][r] > 0 =>
      /\ accepted[p][r] = 1 /\ status[r] # "none" /\ ChargePassed(p, period[r])
      /\ r \notin rest[p] /\ (r \in cur[p] => step[p] # "charge")

\* A record about to be marked charged is accepted.
MarkIsAccepted ==
  \A c \in Chargers : step[c] = "mark" => \A r \in cur[c] : accepted[c][r] > 0

\* An outcome that a run has still to come to was written by another process, whose
\* run has been there.
OutcomeHasAuthor ==
  \A p \in Processes : \A r \in Records \ Triggered :
    status[r] \in Outcome /\ Open(p, r) =>
      \E q \in Processes : q # p /\ r \in found[q] \ rest[q]

IInv ==
  /\ Shape /\ FoundIsPast /\ OpenIsCurrent /\ LockIsFresh /\ ChargedOnce
  /\ MarkIsAccepted /\ ChargedWasAccepted /\ OutcomeHasAuthor /\ LeftBehindIsSettled

-------------------------------------------------------------------------------
(* Each part is kept by every step.                                            *)

\* Types, the calendar and the bookkeeping of the runs.
LEMMA StepShape ==
  ASSUME Shape, [Next]_vars
  PROVE  Shape'
<1> USE ConstantsAssumption
    DEF Shape, TypeOK, Timely, Holds, Status, Outcome, Step, clock,
        recordVars, runVars, GoTo, SetStatus, Accept, AfterRecord, Chargers
<1>1. CASE UNCHANGED vars
  BY <1>1 DEF vars
<1>2. CASE Tick
  BY <1>2 DEF Tick, DueAt
<1>3. ASSUME NEW q \in Records, CreateRecord(q)
      PROVE  Shape'
  BY <1>3 DEF CreateRecord
<1>4. ASSUME NEW n \in Processes, LockBillingAmounts(n)
      PROVE  Shape'
  <2>1. CASE LockBegin(n)
    BY <2>1 DEF LockBegin, FindPendingForCurrentMonth, ThisMonth
  <2>2. CASE LockAll(n)
    BY <2>2 DEF LockAll
  <2>3. CASE LockFails(n)
    BY <2>3 DEF LockFails
  <2>4. QED
    BY <1>4, <2>1, <2>2, <2>3 DEF LockBillingAmounts
<1>5. ASSUME NEW n \in Processes, ProcessMonthlyCharges(n)
      PROVE  Shape'
  <2>1. CASE ChargeBegin(n)
    BY <2>1 DEF ChargeBegin, FindLockedForCurrentMonth, ThisMonth
  <2>2. CASE NextRecord(n)
    BY <2>2 DEF NextRecord
  <2>3. CASE ChargeEnd(n)
    BY <2>3 DEF ChargeEnd
  <2>4. QED
    BY <1>5, <2>1, <2>2, <2>3 DEF ProcessMonthlyCharges
<1>6. ASSUME NEW c \in DevTriggers, TriggerCharge(c)
      PROVE  Shape'
  <2>1. CASE DevFind(c)
    BY <2>1 DEF DevFind, LatestOf
  <2>2. CASE DevReadLocked(c)
    BY <2>2 DEF DevReadLocked
  <2>3. CASE DevReadPending(c)
    BY <2>3 DEF DevReadPending
  <2>4. QED
    BY <1>6, <2>1, <2>2, <2>3 DEF TriggerCharge
<1>7. ASSUME NEW c \in Chargers, ChargeRecord(c)
      PROVE  Shape'
  <2>1. CASE ChargeAccepted(c)
    BY <2>1 DEF ChargeAccepted
  <2>2. CASE ChargeDeclined(c)
    BY <2>2 DEF ChargeDeclined
  <2>3. CASE ChargeAnswerLost(c)
    BY <2>3 DEF ChargeAnswerLost
  <2>4. CASE MarkCharged(c)
    BY <2>4 DEF MarkCharged
  <2>5. CASE MarkChargedThrows(c)
    BY <2>5 DEF MarkChargedThrows
  <2>6. CASE MarkFailed(c)
    BY <2>6 DEF MarkFailed
  <2>7. CASE MarkFailedThrows(c)
    BY <2>7 DEF MarkFailedThrows
  <2>8. CASE Notify(c)
    BY <2>8 DEF Notify
  <2>9. QED
    BY <1>7, <2>1, <2>2, <2>3, <2>4, <2>5, <2>6, <2>7, <2>8 DEF ChargeRecord
<1>8. ASSUME NEW n \in Processes, Crash(n)
      PROVE  Shape'
  BY <1>8 DEF Crash
<1>9. QED
  BY <1>1, <1>2, <1>3, <1>4, <1>5, <1>6, <1>7, <1>8 DEF Next

\* A record stays a triggered one.
LEMMA StepTriggered ==
  ASSUME Shape, [Next]_vars
  PROVE  Triggered \subseteq Triggered'
<1> USE ConstantsAssumption
    DEF Shape, TypeOK, Timely, Holds, Triggered, clock, recordVars, runVars,
        GoTo, SetStatus, Accept, AfterRecord, Chargers
<1>1. CASE UNCHANGED vars
  BY <1>1 DEF vars
<1>2. CASE Tick
  BY <1>2 DEF Tick, DueAt
<1>3. ASSUME NEW q \in Records, CreateRecord(q)
      PROVE  Triggered \subseteq Triggered'
  BY <1>3 DEF CreateRecord
<1>4. ASSUME NEW n \in Processes, LockBillingAmounts(n)
      PROVE  Triggered \subseteq Triggered'
  <2>1. CASE LockBegin(n)
    BY <2>1 DEF LockBegin, FindPendingForCurrentMonth, ThisMonth
  <2>2. CASE LockAll(n)
    BY <2>2 DEF LockAll
  <2>3. CASE LockFails(n)
    BY <2>3 DEF LockFails
  <2>4. QED
    BY <1>4, <2>1, <2>2, <2>3 DEF LockBillingAmounts
<1>5. ASSUME NEW n \in Processes, ProcessMonthlyCharges(n)
      PROVE  Triggered \subseteq Triggered'
  <2>1. CASE ChargeBegin(n)
    BY <2>1 DEF ChargeBegin, FindLockedForCurrentMonth, ThisMonth
  <2>2. CASE NextRecord(n)
    BY <2>2 DEF NextRecord
  <2>3. CASE ChargeEnd(n)
    BY <2>3 DEF ChargeEnd
  <2>4. QED
    BY <1>5, <2>1, <2>2, <2>3 DEF ProcessMonthlyCharges
<1>6. ASSUME NEW c \in DevTriggers, TriggerCharge(c)
      PROVE  Triggered \subseteq Triggered'
  <2>1. CASE DevFind(c)
    BY <2>1 DEF DevFind, LatestOf
  <2>2. CASE DevReadLocked(c)
    BY <2>2 DEF DevReadLocked
  <2>3. CASE DevReadPending(c)
    BY <2>3 DEF DevReadPending
  <2>4. QED
    BY <1>6, <2>1, <2>2, <2>3 DEF TriggerCharge
<1>7. ASSUME NEW c \in Chargers, ChargeRecord(c)
      PROVE  Triggered \subseteq Triggered'
  <2>1. CASE ChargeAccepted(c)
    BY <2>1 DEF ChargeAccepted
  <2>2. CASE ChargeDeclined(c)
    BY <2>2 DEF ChargeDeclined
  <2>3. CASE ChargeAnswerLost(c)
    BY <2>3 DEF ChargeAnswerLost
  <2>4. CASE MarkCharged(c)
    BY <2>4 DEF MarkCharged
  <2>5. CASE MarkChargedThrows(c)
    BY <2>5 DEF MarkChargedThrows
  <2>6. CASE MarkFailed(c)
    BY <2>6 DEF MarkFailed
  <2>7. CASE MarkFailedThrows(c)
    BY <2>7 DEF MarkFailedThrows
  <2>8. CASE Notify(c)
    BY <2>8 DEF Notify
  <2>9. QED
    BY <1>7, <2>1, <2>2, <2>3, <2>4, <2>5, <2>6, <2>7, <2>8 DEF ChargeRecord
<1>8. ASSUME NEW n \in Processes, Crash(n)
      PROVE  Triggered \subseteq Triggered'
  BY <1>8 DEF Crash
<1>9. QED
  BY <1>1, <1>2, <1>3, <1>4, <1>5, <1>6, <1>7, <1>8 DEF Next

\* What the runs have found.
LEMMA StepFound ==
  ASSUME Shape, Shape', Triggered \subseteq Triggered', FoundIsPast,
         LockIsFresh, [Next]_vars
  PROVE  FoundIsPast'
<1> USE ConstantsAssumption
    DEF Shape, TypeOK, Timely, Holds, Status, Outcome, FoundIsPast,
        LockIsFresh, ChargePassed, clock, recordVars, runVars, GoTo,
        SetStatus, Accept, AfterRecord, Chargers
<1>1. CASE UNCHANGED vars
  BY <1>1 DEF vars
<1>2. CASE Tick
  BY <1>2 DEF Tick, DueAt
<1>3. ASSUME NEW q \in Records, CreateRecord(q)
      PROVE  FoundIsPast'
  BY <1>3 DEF CreateRecord
<1>4. ASSUME NEW n \in Processes, LockBillingAmounts(n)
      PROVE  FoundIsPast'
  <2>1. CASE LockBegin(n)
    BY <2>1 DEF LockBegin, FindPendingForCurrentMonth, ThisMonth
  <2>2. CASE LockAll(n)
    BY <2>2 DEF LockAll
  <2>3. CASE LockFails(n)
    BY <2>3 DEF LockFails
  <2>4. QED
    BY <1>4, <2>1, <2>2, <2>3 DEF LockBillingAmounts
<1>5. ASSUME NEW n \in Processes, ProcessMonthlyCharges(n)
      PROVE  FoundIsPast'
  <2>1. CASE ChargeBegin(n)
    BY <2>1 DEF ChargeBegin, FindLockedForCurrentMonth, ThisMonth
  <2>2. CASE NextRecord(n)
    BY <2>2 DEF NextRecord
  <2>3. CASE ChargeEnd(n)
    BY <2>3 DEF ChargeEnd
  <2>4. QED
    BY <1>5, <2>1, <2>2, <2>3 DEF ProcessMonthlyCharges
<1>6. ASSUME NEW c \in DevTriggers, TriggerCharge(c)
      PROVE  FoundIsPast'
  <2>1. CASE DevFind(c)
    BY <2>1 DEF DevFind, LatestOf
  <2>2. CASE DevReadLocked(c)
    BY <2>2 DEF DevReadLocked
  <2>3. CASE DevReadPending(c)
    BY <2>3 DEF DevReadPending
  <2>4. QED
    BY <1>6, <2>1, <2>2, <2>3 DEF TriggerCharge
<1>7. ASSUME NEW c \in Chargers, ChargeRecord(c)
      PROVE  FoundIsPast'
  <2>1. CASE ChargeAccepted(c)
    BY <2>1 DEF ChargeAccepted
  <2>2. CASE ChargeDeclined(c)
    BY <2>2 DEF ChargeDeclined
  <2>3. CASE ChargeAnswerLost(c)
    BY <2>3 DEF ChargeAnswerLost
  <2>4. CASE MarkCharged(c)
    BY <2>4 DEF MarkCharged
  <2>5. CASE MarkChargedThrows(c)
    BY <2>5 DEF MarkChargedThrows
  <2>6. CASE MarkFailed(c)
    BY <2>6 DEF MarkFailed
  <2>7. CASE MarkFailedThrows(c)
    BY <2>7 DEF MarkFailedThrows
  <2>8. CASE Notify(c)
    BY <2>8 DEF Notify
  <2>9. QED
    BY <1>7, <2>1, <2>2, <2>3, <2>4, <2>5, <2>6, <2>7, <2>8 DEF ChargeRecord
<1>8. ASSUME NEW n \in Processes, Crash(n)
      PROVE  FoundIsPast'
  BY <1>8 DEF Crash
<1>9. QED
  BY <1>1, <1>2, <1>3, <1>4, <1>5, <1>6, <1>7, <1>8 DEF Next

\* What the runs hold while a charge job waits.
LEMMA StepCurrent ==
  ASSUME Shape, Shape', OpenIsCurrent, [Next]_vars
  PROVE  OpenIsCurrent'
<1> USE ConstantsAssumption
    DEF Shape, TypeOK, Timely, Holds, OpenIsCurrent, Open, clock, recordVars,
        runVars, GoTo, SetStatus, Accept, AfterRecord, Chargers
<1>1. CASE UNCHANGED vars
  BY <1>1 DEF vars
<1>2. CASE Tick
  BY <1>2 DEF Tick, DueAt
<1>3. ASSUME NEW q \in Records, CreateRecord(q)
      PROVE  OpenIsCurrent'
  BY <1>3 DEF CreateRecord
<1>4. ASSUME NEW n \in Processes, LockBillingAmounts(n)
      PROVE  OpenIsCurrent'
  <2>1. CASE LockBegin(n)
    BY <2>1 DEF LockBegin, FindPendingForCurrentMonth, ThisMonth
  <2>2. CASE LockAll(n)
    BY <2>2 DEF LockAll
  <2>3. CASE LockFails(n)
    BY <2>3 DEF LockFails
  <2>4. QED
    BY <1>4, <2>1, <2>2, <2>3 DEF LockBillingAmounts
<1>5. ASSUME NEW n \in Processes, ProcessMonthlyCharges(n)
      PROVE  OpenIsCurrent'
  <2>1. CASE ChargeBegin(n)
    BY <2>1 DEF ChargeBegin, FindLockedForCurrentMonth, ThisMonth
  <2>2. CASE NextRecord(n)
    BY <2>2 DEF NextRecord
  <2>3. CASE ChargeEnd(n)
    BY <2>3 DEF ChargeEnd
  <2>4. QED
    BY <1>5, <2>1, <2>2, <2>3 DEF ProcessMonthlyCharges
<1>6. ASSUME NEW c \in DevTriggers, TriggerCharge(c)
      PROVE  OpenIsCurrent'
  <2>1. CASE DevFind(c)
    BY <2>1 DEF DevFind, LatestOf
  <2>2. CASE DevReadLocked(c)
    BY <2>2 DEF DevReadLocked
  <2>3. CASE DevReadPending(c)
    BY <2>3 DEF DevReadPending
  <2>4. QED
    BY <1>6, <2>1, <2>2, <2>3 DEF TriggerCharge
<1>7. ASSUME NEW c \in Chargers, ChargeRecord(c)
      PROVE  OpenIsCurrent'
  <2>1. CASE ChargeAccepted(c)
    BY <2>1 DEF ChargeAccepted
  <2>2. CASE ChargeDeclined(c)
    BY <2>2 DEF ChargeDeclined
  <2>3. CASE ChargeAnswerLost(c)
    BY <2>3 DEF ChargeAnswerLost
  <2>4. CASE MarkCharged(c)
    BY <2>4 DEF MarkCharged
  <2>5. CASE MarkChargedThrows(c)
    BY <2>5 DEF MarkChargedThrows
  <2>6. CASE MarkFailed(c)
    BY <2>6 DEF MarkFailed
  <2>7. CASE MarkFailedThrows(c)
    BY <2>7 DEF MarkFailedThrows
  <2>8. CASE Notify(c)
    BY <2>8 DEF Notify
  <2>9. QED
    BY <1>7, <2>1, <2>2, <2>3, <2>4, <2>5, <2>6, <2>7, <2>8 DEF ChargeRecord
<1>8. ASSUME NEW n \in Processes, Crash(n)
      PROVE  OpenIsCurrent'
  BY <1>8 DEF Crash
<1>9. QED
  BY <1>1, <1>2, <1>3, <1>4, <1>5, <1>6, <1>7, <1>8 DEF Next

\* What the lock runs are about to lock.
LEMMA StepLock ==
  ASSUME Shape, Shape', Triggered \subseteq Triggered', FoundIsPast,
         LockIsFresh, [Next]_vars
  PROVE  LockIsFresh'
<1> USE ConstantsAssumption
    DEF Shape, TypeOK, Timely, Holds, Status, Outcome, FoundIsPast,
        LockIsFresh, clock, recordVars, runVars, GoTo, SetStatus, Accept,
        AfterRecord, Chargers
<1>1. CASE UNCHANGED vars
  BY <1>1 DEF vars
<1>2. CASE Tick
  BY <1>2 DEF Tick, DueAt
<1>3. ASSUME NEW q \in Records, CreateRecord(q)
      PROVE  LockIsFresh'
  BY <1>3 DEF CreateRecord
<1>4. ASSUME NEW n \in Processes, LockBillingAmounts(n)
      PROVE  LockIsFresh'
  <2>1. CASE LockBegin(n)
    <3> SUFFICES ASSUME NEW p \in Processes, NEW r \in lockIds'[p], r \notin Triggered'
                 PROVE  /\ status'[r] \in {"pending", "locked"}
                        /\ \A q \in Processes : r \notin found'[q]
      OBVIOUS
    <3>1. r \notin Triggered /\ status' = status /\ found' = found
      BY <2>1 DEF LockBegin
    <3>2. CASE p = n
      <4>1. r \in Records /\ status[r] = "pending"
        BY <2>1, <3>2 DEF LockBegin, FindPendingForCurrentMonth, ThisMonth
      <4>2. QED
        BY <3>1, <4>1
    <3>3. CASE p # n
      BY <2>1, <3>1, <3>3 DEF LockBegin
    <3>4. QED
      BY <3>2, <3>3
  <2>2. CASE LockAll(n)
    BY <2>2 DEF LockAll
  <2>3. CASE LockFails(n)
    BY <2>3 DEF LockFails
  <2>4. QED
    BY <1>4, <2>1, <2>2, <2>3 DEF LockBillingAmounts
<1>5. ASSUME NEW n \in Processes, ProcessMonthlyCharges(n)
      PROVE  LockIsFresh'
  <2>1. CASE ChargeBegin(n)
    BY <2>1 DEF ChargeBegin, FindLockedForCurrentMonth, ThisMonth
  <2>2. CASE NextRecord(n)
    BY <2>2 DEF NextRecord
  <2>3. CASE ChargeEnd(n)
    BY <2>3 DEF ChargeEnd
  <2>4. QED
    BY <1>5, <2>1, <2>2, <2>3 DEF ProcessMonthlyCharges
<1>6. ASSUME NEW c \in DevTriggers, TriggerCharge(c)
      PROVE  LockIsFresh'
  <2>1. CASE DevFind(c)
    BY <2>1 DEF DevFind, LatestOf
  <2>2. CASE DevReadLocked(c)
    BY <2>2 DEF DevReadLocked
  <2>3. CASE DevReadPending(c)
    BY <2>3 DEF DevReadPending
  <2>4. QED
    BY <1>6, <2>1, <2>2, <2>3 DEF TriggerCharge
<1>7. ASSUME NEW c \in Chargers, ChargeRecord(c)
      PROVE  LockIsFresh'
  <2>1. CASE ChargeAccepted(c)
    BY <2>1 DEF ChargeAccepted
  <2>2. CASE ChargeDeclined(c)
    BY <2>2 DEF ChargeDeclined
  <2>3. CASE ChargeAnswerLost(c)
    BY <2>3 DEF ChargeAnswerLost
  <2>4. CASE MarkCharged(c)
    <3>1. \A r \in cur[c] : r \in Triggered \/ \E q \in Processes : r \in found[q]
      BY DEF Triggered
    <3>2. \A p \in Processes : \A r \in lockIds[p] \ Triggered : r \notin cur[c]
      BY <3>1
    <3>3. QED
      BY <2>4, <3>2 DEF MarkCharged
  <2>5. CASE MarkChargedThrows(c)
    BY <2>5 DEF MarkChargedThrows
  <2>6. CASE MarkFailed(c)
    <3>1. \A r \in cur[c] : r \in Triggered \/ \E q \in Processes : r \in found[q]
      BY DEF Triggered
    <3>2. \A p \in Processes : \A r \in lockIds[p] \ Triggered : r \notin cur[c]
      BY <3>1
    <3>3. QED
      BY <2>6, <3>2 DEF MarkFailed
  <2>7. CASE MarkFailedThrows(c)
    BY <2>7 DEF MarkFailedThrows
  <2>8. CASE Notify(c)
    BY <2>8 DEF Notify
  <2>9. QED
    BY <1>7, <2>1, <2>2, <2>3, <2>4, <2>5, <2>6, <2>7, <2>8 DEF ChargeRecord
<1>8. ASSUME NEW n \in Processes, Crash(n)
      PROVE  LockIsFresh'
  BY <1>8 DEF Crash
<1>9. QED
  BY <1>1, <1>2, <1>3, <1>4, <1>5, <1>6, <1>7, <1>8 DEF Next

\* A process charges a record once.
LEMMA StepOnce ==
  ASSUME Shape, Shape', Triggered \subseteq Triggered', FoundIsPast,
         ChargedOnce, [Next]_vars
  PROVE  ChargedOnce'
<1> USE ConstantsAssumption
    DEF Shape, TypeOK, Timely, Holds, Status, Outcome, FoundIsPast,
        ChargedOnce, ChargePassed, clock, recordVars, runVars, GoTo,
        SetStatus, Accept, AfterRecord, Chargers
<1>1. CASE UNCHANGED vars
  BY <1>1 DEF vars
<1>2. CASE Tick
  BY <1>2 DEF Tick, DueAt
<1>3. ASSUME NEW q \in Records, CreateRecord(q)
      PROVE  ChargedOnce'
  BY <1>3 DEF CreateRecord
<1>4. ASSUME NEW n \in Processes, LockBillingAmounts(n)
      PROVE  ChargedOnce'
  <2>1. CASE LockBegin(n)
    BY <2>1 DEF LockBegin, FindPendingForCurrentMonth, ThisMonth
  <2>2. CASE LockAll(n)
    BY <2>2 DEF LockAll
  <2>3. CASE LockFails(n)
    BY <2>3 DEF LockFails
  <2>4. QED
    BY <1>4, <2>1, <2>2, <2>3 DEF LockBillingAmounts
<1>5. ASSUME NEW n \in Processes, ProcessMonthlyCharges(n)
      PROVE  ChargedOnce'
  <2>1. CASE ChargeBegin(n)
    BY <2>1 DEF ChargeBegin, FindLockedForCurrentMonth, ThisMonth
  <2>2. CASE NextRecord(n)
    BY <2>2 DEF NextRecord
  <2>3. CASE ChargeEnd(n)
    BY <2>3 DEF ChargeEnd
  <2>4. QED
    BY <1>5, <2>1, <2>2, <2>3 DEF ProcessMonthlyCharges
<1>6. ASSUME NEW c \in DevTriggers, TriggerCharge(c)
      PROVE  ChargedOnce'
  <2>1. CASE DevFind(c)
    BY <2>1 DEF DevFind, LatestOf
  <2>2. CASE DevReadLocked(c)
    BY <2>2 DEF DevReadLocked
  <2>3. CASE DevReadPending(c)
    BY <2>3 DEF DevReadPending
  <2>4. QED
    BY <1>6, <2>1, <2>2, <2>3 DEF TriggerCharge
<1>7. ASSUME NEW c \in Chargers, ChargeRecord(c)
      PROVE  ChargedOnce'
  <2>1. CASE ChargeAccepted(c)
    <3> SUFFICES ASSUME NEW p \in Processes, NEW r \in Records, r \notin Triggered',
                        accepted'[p][r] > 0
                 PROVE  /\ accepted'[p][r] = 1 /\ status'[r] # "none"
                        /\ ChargePassed(p, period[r])'
                        /\ r \notin rest'[p] /\ (r \in cur'[p] => step'[p] # "charge")
      OBVIOUS
    <3>1. /\ r \notin Triggered /\ UNCHANGED <<month, day, due, status, period, rest, cur>>
          /\ \A q \in Chargers : q # c => accepted'[q] = accepted[q] /\ step'[q] = step[q]
      BY <2>1 DEF ChargeAccepted
    <3>2. CASE p # c
      BY <3>1, <3>2
    <3>3. CASE p = c /\ r \in cur[p]
      <4>1. accepted[p][r] = 0
        BY <2>1, <3>1, <3>3 DEF ChargeAccepted
      <4>2. accepted'[p][r] = 1 /\ step'[p] # "charge"
        BY <2>1, <3>3, <4>1 DEF ChargeAccepted
      <4>3. r \in found[p] \ Triggered /\ r \notin rest[p]
        BY <3>1, <3>3
      <4>4. status[r] \in {"locked"} \cup Outcome /\ ChargePassed(p, period[r])
        BY <3>3, <4>3
      <4>5. QED
        BY <3>1, <4>2, <4>3, <4>4
    <3>4. CASE p = c /\ r \notin cur[p]
      <4>1. accepted'[p][r] = accepted[p][r]
        BY <2>1, <3>4 DEF ChargeAccepted
      <4>2. QED
        BY <3>1, <3>4, <4>1
    <3>5. QED
      BY <3>2, <3>3, <3>4
  <2>2. CASE ChargeDeclined(c)
    BY <2>2 DEF ChargeDeclined
  <2>3. CASE ChargeAnswerLost(c)
    <3> SUFFICES ASSUME NEW p \in Processes, NEW r \in Records, r \notin Triggered',
                        accepted'[p][r] > 0
                 PROVE  /\ accepted'[p][r] = 1 /\ status'[r] # "none"
                        /\ ChargePassed(p, period[r])'
                        /\ r \notin rest'[p] /\ (r \in cur'[p] => step'[p] # "charge")
      OBVIOUS
    <3>1. /\ r \notin Triggered /\ UNCHANGED <<month, day, due, status, period, rest, cur>>
          /\ \A q \in Chargers : q # c => accepted'[q] = accepted[q] /\ step'[q] = step[q]
      BY <2>3 DEF ChargeAnswerLost
    <3>2. CASE p # c
      BY <3>1, <3>2
    <3>3. CASE p = c /\ r \in cur[p]
      <4>1. accepted[p][r] = 0
        BY <2>3, <3>1, <3>3 DEF ChargeAnswerLost
      <4>2. accepted'[p][r] = 1 /\ step'[p] # "charge"
        BY <2>3, <3>3, <4>1 DEF ChargeAnswerLost
      <4>3. r \in found[p] \ Triggered /\ r \notin rest[p]
        BY <3>1, <3>3
      <4>4. status[r] \in {"locked"} \cup Outcome /\ ChargePassed(p, period[r])
        BY <3>3, <4>3
      <4>5. QED
        BY <3>1, <4>2, <4>3, <4>4
    <3>4. CASE p = c /\ r \notin cur[p]
      <4>1. accepted'[p][r] = accepted[p][r]
        BY <2>3, <3>4 DEF ChargeAnswerLost
      <4>2. QED
        BY <3>1, <3>4, <4>1
    <3>5. QED
      BY <3>2, <3>3, <3>4
  <2>4. CASE MarkCharged(c)
    BY <2>4 DEF MarkCharged
  <2>5. CASE MarkChargedThrows(c)
    BY <2>5 DEF MarkChargedThrows
  <2>6. CASE MarkFailed(c)
    BY <2>6 DEF MarkFailed
  <2>7. CASE MarkFailedThrows(c)
    BY <2>7 DEF MarkFailedThrows
  <2>8. CASE Notify(c)
    BY <2>8 DEF Notify
  <2>9. QED
    BY <1>7, <2>1, <2>2, <2>3, <2>4, <2>5, <2>6, <2>7, <2>8 DEF ChargeRecord
<1>8. ASSUME NEW n \in Processes, Crash(n)
      PROVE  ChargedOnce'
  BY <1>8 DEF Crash
<1>9. QED
  BY <1>1, <1>2, <1>3, <1>4, <1>5, <1>6, <1>7, <1>8 DEF Next

\* The record that a run is about to mark charged is accepted.
LEMMA StepMark ==
  ASSUME Shape, Shape', MarkIsAccepted, [Next]_vars
  PROVE  MarkIsAccepted'
<1> USE ConstantsAssumption
    DEF Shape, TypeOK, Timely, Holds, MarkIsAccepted, clock, recordVars,
        runVars, GoTo, SetStatus, Accept, AfterRecord, Chargers
<1>1. CASE UNCHANGED vars
  BY <1>1 DEF vars
<1>2. CASE Tick
  BY <1>2 DEF Tick, DueAt
<1>3. ASSUME NEW q \in Records, CreateRecord(q)
      PROVE  MarkIsAccepted'
  BY <1>3 DEF CreateRecord
<1>4. ASSUME NEW n \in Processes, LockBillingAmounts(n)
      PROVE  MarkIsAccepted'
  <2>1. CASE LockBegin(n)
    BY <2>1 DEF LockBegin, FindPendingForCurrentMonth, ThisMonth
  <2>2. CASE LockAll(n)
    BY <2>2 DEF LockAll
  <2>3. CASE LockFails(n)
    BY <2>3 DEF LockFails
  <2>4. QED
    BY <1>4, <2>1, <2>2, <2>3 DEF LockBillingAmounts
<1>5. ASSUME NEW n \in Processes, ProcessMonthlyCharges(n)
      PROVE  MarkIsAccepted'
  <2>1. CASE ChargeBegin(n)
    BY <2>1 DEF ChargeBegin, FindLockedForCurrentMonth, ThisMonth
  <2>2. CASE NextRecord(n)
    BY <2>2 DEF NextRecord
  <2>3. CASE ChargeEnd(n)
    BY <2>3 DEF ChargeEnd
  <2>4. QED
    BY <1>5, <2>1, <2>2, <2>3 DEF ProcessMonthlyCharges
<1>6. ASSUME NEW c \in DevTriggers, TriggerCharge(c)
      PROVE  MarkIsAccepted'
  <2>1. CASE DevFind(c)
    BY <2>1 DEF DevFind, LatestOf
  <2>2. CASE DevReadLocked(c)
    BY <2>2 DEF DevReadLocked
  <2>3. CASE DevReadPending(c)
    BY <2>3 DEF DevReadPending
  <2>4. QED
    BY <1>6, <2>1, <2>2, <2>3 DEF TriggerCharge
<1>7. ASSUME NEW c \in Chargers, ChargeRecord(c)
      PROVE  MarkIsAccepted'
  <2>1. CASE ChargeAccepted(c)
    BY <2>1 DEF ChargeAccepted
  <2>2. CASE ChargeDeclined(c)
    BY <2>2 DEF ChargeDeclined
  <2>3. CASE ChargeAnswerLost(c)
    BY <2>3 DEF ChargeAnswerLost
  <2>4. CASE MarkCharged(c)
    BY <2>4 DEF MarkCharged
  <2>5. CASE MarkChargedThrows(c)
    BY <2>5 DEF MarkChargedThrows
  <2>6. CASE MarkFailed(c)
    BY <2>6 DEF MarkFailed
  <2>7. CASE MarkFailedThrows(c)
    BY <2>7 DEF MarkFailedThrows
  <2>8. CASE Notify(c)
    BY <2>8 DEF Notify
  <2>9. QED
    BY <1>7, <2>1, <2>2, <2>3, <2>4, <2>5, <2>6, <2>7, <2>8 DEF ChargeRecord
<1>8. ASSUME NEW n \in Processes, Crash(n)
      PROVE  MarkIsAccepted'
  BY <1>8 DEF Crash
<1>9. QED
  BY <1>1, <1>2, <1>3, <1>4, <1>5, <1>6, <1>7, <1>8 DEF Next

\* A charged record is accepted.
LEMMA StepCharged ==
  ASSUME Shape, MarkIsAccepted, ChargedWasAccepted, [Next]_vars
  PROVE  ChargedWasAccepted'
<1> USE ConstantsAssumption
    DEF Shape, TypeOK, Timely, Holds, MarkIsAccepted, ChargedWasAccepted,
        clock, recordVars, runVars, GoTo, SetStatus, Accept, AfterRecord,
        Chargers
<1>1. CASE UNCHANGED vars
  BY <1>1 DEF vars
<1>2. CASE Tick
  BY <1>2 DEF Tick, DueAt
<1>3. ASSUME NEW q \in Records, CreateRecord(q)
      PROVE  ChargedWasAccepted'
  BY <1>3 DEF CreateRecord
<1>4. ASSUME NEW n \in Processes, LockBillingAmounts(n)
      PROVE  ChargedWasAccepted'
  <2>1. CASE LockBegin(n)
    BY <2>1 DEF LockBegin, FindPendingForCurrentMonth, ThisMonth
  <2>2. CASE LockAll(n)
    BY <2>2 DEF LockAll
  <2>3. CASE LockFails(n)
    BY <2>3 DEF LockFails
  <2>4. QED
    BY <1>4, <2>1, <2>2, <2>3 DEF LockBillingAmounts
<1>5. ASSUME NEW n \in Processes, ProcessMonthlyCharges(n)
      PROVE  ChargedWasAccepted'
  <2>1. CASE ChargeBegin(n)
    BY <2>1 DEF ChargeBegin, FindLockedForCurrentMonth, ThisMonth
  <2>2. CASE NextRecord(n)
    BY <2>2 DEF NextRecord
  <2>3. CASE ChargeEnd(n)
    BY <2>3 DEF ChargeEnd
  <2>4. QED
    BY <1>5, <2>1, <2>2, <2>3 DEF ProcessMonthlyCharges
<1>6. ASSUME NEW c \in DevTriggers, TriggerCharge(c)
      PROVE  ChargedWasAccepted'
  <2>1. CASE DevFind(c)
    BY <2>1 DEF DevFind, LatestOf
  <2>2. CASE DevReadLocked(c)
    BY <2>2 DEF DevReadLocked
  <2>3. CASE DevReadPending(c)
    BY <2>3 DEF DevReadPending
  <2>4. QED
    BY <1>6, <2>1, <2>2, <2>3 DEF TriggerCharge
<1>7. ASSUME NEW c \in Chargers, ChargeRecord(c)
      PROVE  ChargedWasAccepted'
  <2>1. CASE ChargeAccepted(c)
    BY <2>1 DEF ChargeAccepted
  <2>2. CASE ChargeDeclined(c)
    BY <2>2 DEF ChargeDeclined
  <2>3. CASE ChargeAnswerLost(c)
    BY <2>3 DEF ChargeAnswerLost
  <2>4. CASE MarkCharged(c)
    BY <2>4 DEF MarkCharged
  <2>5. CASE MarkChargedThrows(c)
    BY <2>5 DEF MarkChargedThrows
  <2>6. CASE MarkFailed(c)
    BY <2>6 DEF MarkFailed
  <2>7. CASE MarkFailedThrows(c)
    BY <2>7 DEF MarkFailedThrows
  <2>8. CASE Notify(c)
    BY <2>8 DEF Notify
  <2>9. QED
    BY <1>7, <2>1, <2>2, <2>3, <2>4, <2>5, <2>6, <2>7, <2>8 DEF ChargeRecord
<1>8. ASSUME NEW n \in Processes, Crash(n)
      PROVE  ChargedWasAccepted'
  BY <1>8 DEF Crash
<1>9. QED
  BY <1>1, <1>2, <1>3, <1>4, <1>5, <1>6, <1>7, <1>8 DEF Next

\* Whose outcome it is.
LEMMA StepAuthor ==
  ASSUME Shape, Shape', Triggered \subseteq Triggered', FoundIsPast,
         OpenIsCurrent, OutcomeHasAuthor, [Next]_vars
  PROVE  OutcomeHasAuthor'
<1> USE ConstantsAssumption
    DEF Shape, TypeOK, Timely, Holds, Outcome, FoundIsPast, OpenIsCurrent,
        OutcomeHasAuthor, Open, ChargePassed, clock, recordVars, runVars,
        GoTo, SetStatus, Accept, AfterRecord, Chargers
<1>1. CASE UNCHANGED vars
  BY <1>1 DEF vars
<1>2. CASE Tick
  BY <1>2 DEF Tick, DueAt
<1>3. ASSUME NEW q \in Records, CreateRecord(q)
      PROVE  OutcomeHasAuthor'
  BY <1>3 DEF CreateRecord
<1>4. ASSUME NEW n \in Processes, LockBillingAmounts(n)
      PROVE  OutcomeHasAuthor'
  <2>1. CASE LockBegin(n)
    BY <2>1 DEF LockBegin, FindPendingForCurrentMonth, ThisMonth
  <2>2. CASE LockAll(n)
    BY <2>2 DEF LockAll
  <2>3. CASE LockFails(n)
    BY <2>3 DEF LockFails
  <2>4. QED
    BY <1>4, <2>1, <2>2, <2>3 DEF LockBillingAmounts
<1>5. ASSUME NEW n \in Processes, ProcessMonthlyCharges(n)
      PROVE  OutcomeHasAuthor'
  <2>1. CASE ChargeBegin(n)
    BY <2>1 DEF ChargeBegin, FindLockedForCurrentMonth, ThisMonth
  <2>2. CASE NextRecord(n)
    BY <2>2 DEF NextRecord
  <2>3. CASE ChargeEnd(n)
    BY <2>3 DEF ChargeEnd
  <2>4. QED
    BY <1>5, <2>1, <2>2, <2>3 DEF ProcessMonthlyCharges
<1>6. ASSUME NEW c \in DevTriggers, TriggerCharge(c)
      PROVE  OutcomeHasAuthor'
  <2>1. CASE DevFind(c)
    BY <2>1 DEF DevFind, LatestOf
  <2>2. CASE DevReadLocked(c)
    BY <2>2 DEF DevReadLocked
  <2>3. CASE DevReadPending(c)
    BY <2>3 DEF DevReadPending
  <2>4. QED
    BY <1>6, <2>1, <2>2, <2>3 DEF TriggerCharge
<1>7. ASSUME NEW c \in Chargers, ChargeRecord(c)
      PROVE  OutcomeHasAuthor'
  <2>1. CASE ChargeAccepted(c)
    BY <2>1 DEF ChargeAccepted
  <2>2. CASE ChargeDeclined(c)
    BY <2>2 DEF ChargeDeclined
  <2>3. CASE ChargeAnswerLost(c)
    BY <2>3 DEF ChargeAnswerLost
  <2>4. CASE MarkCharged(c)
    <3> SUFFICES ASSUME NEW p \in Processes, NEW r \in Records, r \notin Triggered',
                        status'[r] \in {"charged", "failed"}, Open(p, r)'
                 PROVE  \E q \in Processes : q # p /\ r \in found'[q] \ rest'[q]
      OBVIOUS
    <3>1. r \notin Triggered /\ UNCHANGED <<cur, found, rest>>
      BY <2>4 DEF MarkCharged
    <3>2. step'[c] \notin {"charge", "mark", "catch"} /\ (p # c => step'[p] = step[p])
      BY <2>4 DEF MarkCharged
    <3>3. Open(p, r) /\ (p = c => r \in rest[p])
      BY <2>4, <3>1, <3>2 DEF MarkCharged
    <3>4. CASE r \in cur[c]
      <4>1. c \in Processes
        BY <3>1, <3>4 DEF Triggered
      <4>2. p # c /\ r \in found[c] \ rest[c]
        BY <3>1, <3>3, <3>4, <4>1
      <4>3. QED
        BY <3>1, <4>1, <4>2
    <3>5. CASE r \notin cur[c]
      <4>1. status[r] \in {"charged", "failed"}
        BY <2>4, <3>5 DEF MarkCharged
      <4>2. QED
        BY <3>1, <3>3, <4>1
    <3>6. QED
      BY <3>4, <3>5
  <2>5. CASE MarkChargedThrows(c)
    BY <2>5 DEF MarkChargedThrows
  <2>6. CASE MarkFailed(c)
    <3> SUFFICES ASSUME NEW p \in Processes, NEW r \in Records, r \notin Triggered',
                        status'[r] \in {"charged", "failed"}, Open(p, r)'
                 PROVE  \E q \in Processes : q # p /\ r \in found'[q] \ rest'[q]
      OBVIOUS
    <3>1. r \notin Triggered /\ UNCHANGED <<cur, found, rest>>
      BY <2>6 DEF MarkFailed
    <3>2. step'[c] \notin {"charge", "mark", "catch"} /\ (p # c => step'[p] = step[p])
      BY <2>6 DEF MarkFailed
    <3>3. Open(p, r) /\ (p = c => r \in rest[p])
      BY <2>6, <3>1, <3>2 DEF MarkFailed
    <3>4. CASE r \in cur[c]
      <4>1. c \in Processes
        BY <3>1, <3>4 DEF Triggered
      <4>2. p # c /\ r \in found[c] \ rest[c]
        BY <3>1, <3>3, <3>4, <4>1
      <4>3. QED
        BY <3>1, <4>1, <4>2
    <3>5. CASE r \notin cur[c]
      <4>1. status[r] \in {"charged", "failed"}
        BY <2>6, <3>5 DEF MarkFailed
      <4>2. QED
        BY <3>1, <3>3, <4>1
    <3>6. QED
      BY <3>4, <3>5
  <2>7. CASE MarkFailedThrows(c)
    BY <2>7 DEF MarkFailedThrows
  <2>8. CASE Notify(c)
    BY <2>8 DEF Notify
  <2>9. QED
    BY <1>7, <2>1, <2>2, <2>3, <2>4, <2>5, <2>6, <2>7, <2>8 DEF ChargeRecord
<1>8. ASSUME NEW n \in Processes, Crash(n)
      PROVE  OutcomeHasAuthor'
  BY <1>8 DEF Crash
<1>9. QED
  BY <1>1, <1>2, <1>3, <1>4, <1>5, <1>6, <1>7, <1>8 DEF Next

\* What a run has left behind.
LEMMA StepLeft ==
  ASSUME Shape, Shape', Triggered \subseteq Triggered', LockIsFresh,
         LeftBehindIsSettled, [Next]_vars
  PROVE  LeftBehindIsSettled'
<1> USE ConstantsAssumption
    DEF Shape, TypeOK, Timely, Holds, Outcome, LockIsFresh,
        LeftBehindIsSettled, clock, recordVars, runVars, GoTo, SetStatus,
        Accept, AfterRecord, Chargers
<1>1. CASE UNCHANGED vars
  BY <1>1 DEF vars
<1>2. CASE Tick
  BY <1>2 DEF Tick, DueAt
<1>3. ASSUME NEW q \in Records, CreateRecord(q)
      PROVE  LeftBehindIsSettled'
  BY <1>3 DEF CreateRecord
<1>4. ASSUME NEW n \in Processes, LockBillingAmounts(n)
      PROVE  LeftBehindIsSettled'
  <2>1. CASE LockBegin(n)
    BY <2>1 DEF LockBegin, FindPendingForCurrentMonth, ThisMonth
  <2>2. CASE LockAll(n)
    BY <2>2 DEF LockAll
  <2>3. CASE LockFails(n)
    BY <2>3 DEF LockFails
  <2>4. QED
    BY <1>4, <2>1, <2>2, <2>3 DEF LockBillingAmounts
<1>5. ASSUME NEW n \in Processes, ProcessMonthlyCharges(n)
      PROVE  LeftBehindIsSettled'
  <2>1. CASE ChargeBegin(n)
    BY <2>1 DEF ChargeBegin, FindLockedForCurrentMonth, ThisMonth
  <2>2. CASE NextRecord(n)
    BY <2>2 DEF NextRecord
  <2>3. CASE ChargeEnd(n)
    BY <2>3 DEF ChargeEnd
  <2>4. QED
    BY <1>5, <2>1, <2>2, <2>3 DEF ProcessMonthlyCharges
<1>6. ASSUME NEW c \in DevTriggers, TriggerCharge(c)
      PROVE  LeftBehindIsSettled'
  <2>1. CASE DevFind(c)
    BY <2>1 DEF DevFind, LatestOf
  <2>2. CASE DevReadLocked(c)
    BY <2>2 DEF DevReadLocked
  <2>3. CASE DevReadPending(c)
    BY <2>3 DEF DevReadPending
  <2>4. QED
    BY <1>6, <2>1, <2>2, <2>3 DEF TriggerCharge
<1>7. ASSUME NEW c \in Chargers, ChargeRecord(c)
      PROVE  LeftBehindIsSettled'
  <2>1. CASE ChargeAccepted(c)
    BY <2>1 DEF ChargeAccepted
  <2>2. CASE ChargeDeclined(c)
    BY <2>2 DEF ChargeDeclined
  <2>3. CASE ChargeAnswerLost(c)
    BY <2>3 DEF ChargeAnswerLost
  <2>4. CASE MarkCharged(c)
    BY <2>4 DEF MarkCharged
  <2>5. CASE MarkChargedThrows(c)
    BY <2>5 DEF MarkChargedThrows
  <2>6. CASE MarkFailed(c)
    BY <2>6 DEF MarkFailed
  <2>7. CASE MarkFailedThrows(c)
    BY <2>7 DEF MarkFailedThrows
  <2>8. CASE Notify(c)
    BY <2>8 DEF Notify
  <2>9. QED
    BY <1>7, <2>1, <2>2, <2>3, <2>4, <2>5, <2>6, <2>7, <2>8 DEF ChargeRecord
<1>8. ASSUME NEW n \in Processes, Crash(n)
      PROVE  LeftBehindIsSettled'
  BY <1>8 DEF Crash
<1>9. QED
  BY <1>1, <1>2, <1>3, <1>4, <1>5, <1>6, <1>7, <1>8 DEF Next

-------------------------------------------------------------------------------
(* The theorems.                                                               *)

LEMMA InitInvariant == Init => IInv
  BY ConstantsAssumption
  DEF Init, IInv, Shape, TypeOK, Timely, Holds, Status, Outcome, Step, Chargers,
      Triggered, FoundIsPast, OpenIsCurrent, Open, ChargePassed, LockIsFresh, ChargedOnce,
      MarkIsAccepted, ChargedWasAccepted, OutcomeHasAuthor, LeftBehindIsSettled

LEMMA StepInvariant == IInv /\ [Next]_vars => IInv'
<1> SUFFICES ASSUME IInv, [Next]_vars
             PROVE  IInv'
  OBVIOUS
<1> USE DEF IInv
<1>1. Shape' /\ Triggered \subseteq Triggered'
  BY StepShape, StepTriggered
<1>2. FoundIsPast' /\ OpenIsCurrent' /\ LockIsFresh'
  BY <1>1, StepFound, StepCurrent, StepLock
<1>3. ChargedOnce' /\ MarkIsAccepted' /\ ChargedWasAccepted'
  BY <1>1, StepOnce, StepMark, StepCharged
<1>4. OutcomeHasAuthor' /\ LeftBehindIsSettled'
  BY <1>1, StepAuthor, StepLeft
<1>5. QED
  BY <1>1, <1>2, <1>3, <1>4

\* The inductive invariant holds of every behaviour.
THEOREM Invariance == Spec => []IInv
  BY InitInvariant, StepInvariant, PTL DEF Spec

\* Every variable keeps its type.
THEOREM TypeCorrect == Spec => []TypeOK
<1>1. IInv => TypeOK
  BY DEF IInv, Shape
<1>2. QED
  BY <1>1, Invariance, PTL

\* However many processes run processMonthlyCharges, each of them charges a record
\* once at most, whatever crashes, failures and lost answers there are.
THEOREM ChargedOnceEach == Spec => []ChargedOncePerProcess
<1>1. IInv => ChargedOncePerProcess
  <2> SUFFICES ASSUME IInv, NEW p \in Processes, NEW r \in Records \ Triggered
               PROVE  accepted[p][r] <= 1
    BY DEF ChargedOncePerProcess
  <2>1. accepted[p][r] \in Nat
    BY DEF IInv, Shape, TypeOK, Chargers
  <2>2. accepted[p][r] > 0 => accepted[p][r] = 1
    BY DEF IInv, ChargedOnce
  <2>3. QED
    BY <2>1, <2>2
<1>2. QED
  BY <1>1, Invariance, PTL

\* Where there is one process, processMonthlyCharges charges a record once at most.
\* The assumption is needed: two processes may both charge it.
THEOREM ChargedOnceByOneProcess ==
  ASSUME NEW p, Processes = {p}
  PROVE  Spec => [](ChargedOncePerProcess /\ ChargedByOneProcess)
<1>1. ChargedByOneProcess
  BY DEF ChargedByOneProcess
<1>2. QED
  BY <1>1, ChargedOnceEach, PTL

\* A record is marked charged only after Stripe accepted a PaymentIntent for it.
THEOREM ChargedMeansAccepted == Spec => []ChargedWasAccepted
<1>1. IInv => ChargedWasAccepted
  BY DEF IInv
<1>2. QED
  BY <1>1, Invariance, PTL

\* What a charge run has come to and left behind is charged or failed.
THEOREM RunsSettle == Spec => []LeftBehindIsSettled
<1>1. IInv => LeftBehindIsSettled
  BY DEF IInv
<1>2. QED
  BY <1>1, Invariance, PTL

-------------------------------------------------------------------------------
(* The action property.                                                        *)

\* The action of OutcomeChangesByPeersOnly, by name.
OutcomeKept ==
  \A r \in Records \ Triggered :
    status[r] \in Outcome /\ status'[r] # status[r] =>
      /\ status'[r] \in Outcome
      /\ \E p, q \in Processes :
           /\ p # q
           /\ r \in cur[p] /\ step[p] \in {"mark", "catch"}
           /\ r \in found[q] \ rest[q]

\* Every step obeys it.
LEMMA StepOutcome ==
  ASSUME Shape, LockIsFresh, OutcomeHasAuthor, [Next]_vars
  PROVE  OutcomeKept
<1> USE ConstantsAssumption
    DEF Shape, TypeOK, Timely, Holds, Triggered, Outcome, LockIsFresh,
        OutcomeHasAuthor, Open, OutcomeKept, clock, recordVars, runVars, GoTo,
        SetStatus, Accept, AfterRecord, Chargers
<1>1. CASE UNCHANGED vars
  BY <1>1 DEF vars
<1>2. CASE Tick
  BY <1>2 DEF Tick, DueAt
<1>3. ASSUME NEW q \in Records, CreateRecord(q)
      PROVE  OutcomeKept
  BY <1>3 DEF CreateRecord
<1>4. ASSUME NEW n \in Processes, LockBillingAmounts(n)
      PROVE  OutcomeKept
  <2>1. CASE LockBegin(n)
    BY <2>1 DEF LockBegin, FindPendingForCurrentMonth, ThisMonth
  <2>2. CASE LockAll(n)
    BY <2>2 DEF LockAll
  <2>3. CASE LockFails(n)
    BY <2>3 DEF LockFails
  <2>4. QED
    BY <1>4, <2>1, <2>2, <2>3 DEF LockBillingAmounts
<1>5. ASSUME NEW n \in Processes, ProcessMonthlyCharges(n)
      PROVE  OutcomeKept
  <2>1. CASE ChargeBegin(n)
    BY <2>1 DEF ChargeBegin, FindLockedForCurrentMonth, ThisMonth
  <2>2. CASE NextRecord(n)
    BY <2>2 DEF NextRecord
  <2>3. CASE ChargeEnd(n)
    BY <2>3 DEF ChargeEnd
  <2>4. QED
    BY <1>5, <2>1, <2>2, <2>3 DEF ProcessMonthlyCharges
<1>6. ASSUME NEW c \in DevTriggers, TriggerCharge(c)
      PROVE  OutcomeKept
  <2>1. CASE DevFind(c)
    BY <2>1 DEF DevFind, LatestOf
  <2>2. CASE DevReadLocked(c)
    BY <2>2 DEF DevReadLocked
  <2>3. CASE DevReadPending(c)
    BY <2>3 DEF DevReadPending
  <2>4. QED
    BY <1>6, <2>1, <2>2, <2>3 DEF TriggerCharge
<1>7. ASSUME NEW c \in Chargers, ChargeRecord(c)
      PROVE  OutcomeKept
  <2>1. CASE ChargeAccepted(c)
    BY <2>1 DEF ChargeAccepted
  <2>2. CASE ChargeDeclined(c)
    BY <2>2 DEF ChargeDeclined
  <2>3. CASE ChargeAnswerLost(c)
    BY <2>3 DEF ChargeAnswerLost
  <2>4. CASE MarkCharged(c)
    BY <2>4 DEF MarkCharged
  <2>5. CASE MarkChargedThrows(c)
    BY <2>5 DEF MarkChargedThrows
  <2>6. CASE MarkFailed(c)
    BY <2>6 DEF MarkFailed
  <2>7. CASE MarkFailedThrows(c)
    BY <2>7 DEF MarkFailedThrows
  <2>8. CASE Notify(c)
    BY <2>8 DEF Notify
  <2>9. QED
    BY <1>7, <2>1, <2>2, <2>3, <2>4, <2>5, <2>6, <2>7, <2>8 DEF ChargeRecord
<1>8. ASSUME NEW n \in Processes, Crash(n)
      PROVE  OutcomeKept
  BY <1>8 DEF Crash
<1>9. QED
  BY <1>1, <1>2, <1>3, <1>4, <1>5, <1>6, <1>7, <1>8 DEF Next

\* An outcome changes by another process's run only, however many there are.
THEOREM OutcomeChangedByPeers == Spec => OutcomeChangesByPeersOnly
<1>1. IInv /\ [Next]_vars => [OutcomeKept]_vars
  BY StepOutcome DEF IInv
<1>2. OutcomeChangesByPeersOnly <=> [][OutcomeKept]_vars
  BY PTL DEF OutcomeChangesByPeersOnly, OutcomeKept
<1>3. QED
  BY <1>1, <1>2, Invariance, PTL DEF Spec

\* The action of an outcome that is never changed, by name.
OutcomeFinal ==
  \A r \in Records \ Triggered : status[r] \in Outcome => status'[r] = status[r]

\* Where there is one process, an outcome is final.
THEOREM OutcomeFinalInOneProcess ==
  ASSUME NEW p, Processes = {p}
  PROVE  Spec => [][OutcomeFinal]_vars
<1>1. OutcomeKept => OutcomeFinal
  BY DEF OutcomeKept, OutcomeFinal
<1>2. OutcomeChangesByPeersOnly <=> [][OutcomeKept]_vars
  BY PTL DEF OutcomeChangesByPeersOnly, OutcomeKept
<1>3. QED
  BY <1>1, <1>2, OutcomeChangedByPeers, PTL
===============================================================================
