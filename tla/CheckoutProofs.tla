----------------------------- MODULE CheckoutProofs -----------------------------
(***************************************************************************)
(* Proofs about Checkout, for any workers, amounts and bounds.             *)
(*                                                                         *)
(* What the user has to know of an intent is decided at Stripe and told    *)
(* on the page, some steps later.  IInv says of every intent that may cost *)
(* money whether the user was told, cannot know, or is still waiting.      *)
(***************************************************************************)
EXTENDS Checkout, TLAPS

--------------------------------------------------------------------------------
(* The inductive invariant.                                                   *)

\* Everywhere but at the start the page holds an intent, and only the page that waits for
\* one has the api make it.
PageHoldsIntent ==
  /\ view # "start" => current # 0
  /\ api # "idle" => view = "creating"

\* Only the open form tells what its last confirmation came to.  The page tells it as
\* long as the form is there, also while it confirms again; before, and once the browser
\* has left, it says nothing, and at the start nothing of an intent.
SaysItsPlace ==
  /\ view # "form" => inForm = "nothing"
  /\ view \in {"creating", "away", "returned"} => shown = "nothing"
  /\ view = "start" => shown \in {"nothing", "not created", "invalid"}

\* The statuses in which an intent was charged, or may be without another confirmation.
Costly == Charged \cup {"requires_action"}

\* The page still has to tell what became of intent i.
Awaited(i) ==
  /\ i = current
  /\ \/ view \in {"away", "returned"}
     \/ view = "confirming" /\ reply[i] \in Costly

\* Of every intent that may cost money the user was told, cannot know, or will be told.
CostIsKnown ==
  \A i \in Intents : intent[i] \in Costly => i \in told \cup doubt \/ Awaited(i)

\* A confirmation under way is one that the page waits for, or one the user has left.
SentIsKnown ==
  \A i \in Intents : reply[i] = "sent" =>
    i \in told \cup doubt \/ (i = current /\ view = "confirming")

\* In the row of a SetupIntent that succeeded is the payment method.
SavedIsNamed ==
  mode = "setup" => \A i \in Intents : row[i] = "succeeded" => method[i]

IInv ==
  /\ TypeOK
  /\ PageHoldsIntent
  /\ SaysItsPlace
  /\ CostIsKnown
  /\ SentIsKnown
  /\ SavedIsNamed

--------------------------------------------------------------------------------
(* Types.                                                                     *)

\* The members of the sets of statuses, replies and messages.
LEMMA Members ==
  /\ Charged \subseteq Status /\ Open \subseteq Status /\ "canceled" \in Status
  /\ Status \subseteq Replies /\ Declines \subseteq Replies
  /\ {"unexpected", "unreachable"} \subseteq Replies
  /\ Declines \subseteq Messages
BY DEF Status, Open, Charged, Replies, Declines, Messages

\* What the page says.
LEMMA Said ==
  {"nothing", "invalid", "not created", "success", "processing", "received", "failed",
   "action required", "no charge", "connection"} \subseteq Messages
BY DEF Messages

\* A fault is counted.
LEMMA FaultTyped ==
  ASSUME TypeOK, Fault
  PROVE  faults' \in 0..MaxFaults
BY BoundsAssumption DEF TypeOK, Fault

\* A new intent has the next number.
LEMMA AskTyped ==
  ASSUME TypeOK, Ask
  PROVE  /\ made' \in 0..MaxIntents /\ errors' \in 0..3
         /\ current' \in Intents /\ current' # 0
BY BoundsAssumption DEF TypeOK, Ask, Intents

\* The page without an intent.
LEMMA StartsAgainTyped ==
  ASSUME NEW m \in Messages, StartsAgain(m)
  PROVE  /\ view' \in Views /\ current' \in Intents \cup {0}
         /\ shown' \in Messages /\ inForm' \in Messages /\ errors' \in 0..3
<1>1. errors' \in 0..3
  BY DEF StartsAgain
<1>2. QED
  BY <1>1, Said DEF StartsAgain, Views

\* An intent moves at Stripe.
LEMMA MovesTyped ==
  ASSUME TypeOK, NEW i \in Intents, NEW s \in Status, Moves(i, s)
  PROVE  /\ intent' \in [Intents -> Status \cup {"none"}]
         /\ events' \subseteq Intents \X Status
BY DEF TypeOK, Moves

\* What the form says of an answer, which the user may understand as a charge.
LEMMA FailsTyped ==
  ASSUME TypeOK, PageHoldsIntent, NEW m \in {"action required", "processing"}, Fails(m)
  PROVE  /\ view' \in Views /\ shown' \in Messages /\ inForm' \in Messages
         /\ reply' \in [Intents -> Replies \cup {"none", "sent"}]
         /\ told' \subseteq Intents /\ doubt' \subseteq Intents
<1>1. current \in Intents /\ reply[current] \in Replies
  BY DEF TypeOK, PageHoldsIntent, Fails
<1>2. shown' \in Messages
  <2>1. CASE reply[current] \in Status
    BY <2>1 DEF Fails, Messages
  <2>2. CASE reply[current] \notin Status
    BY <1>1, <2>2 DEF Fails, ErrorMessage, Replies, Messages
  <2>3. QED
    BY <2>1, <2>2
<1>3. QED
  BY <1>1, <1>2 DEF TypeOK, Fails, Views, Heard, Tells

\* A worker takes an event.
LEMMA ReadTyped ==
  ASSUME TypeOK, NEW w \in Workers, NEW e \in events, ReadRow(w, e)
  PROVE  job' \in [Workers -> Jobs \cup {Idle}]
<1>1. [i |-> e[1], status |-> e[2], method |-> method[e[1]]] \in Jobs
  BY DEF TypeOK, Jobs
<1>2. QED
  BY <1>1 DEF TypeOK, ReadRow

\* The types are kept.
LEMMA StepTyped ==
  ASSUME TypeOK, PageHoldsIntent, [Next]_vars
  PROVE  TypeOK'
<1> USE DEF TypeOK, pageVars, stripeVars, rowVars, ghostVars, boundVars
<1>1. ASSUME NEW a \in Amounts, TooSmall(a)
      PROVE  TypeOK'
  BY <1>1, Said DEF TooSmall
<1>2. ASSUME NEW a \in Amounts, PayAmount(a)
      PROVE  TypeOK'
  BY <1>2, AskTyped, Said DEF PayAmount, Ask, Views
<1>3. CASE AddNew
  BY <1>3, AskTyped, Said DEF AddNew, Ask, Views
<1>4. CASE CreatedAtStripe
  BY <1>4, FaultTyped, Members DEF CreatedAtStripe, Open
<1>5. CASE NotCreated
  BY <1>5, StartsAgainTyped, FaultTyped, Said DEF NotCreated
<1>6. CASE Insert
  BY <1>6, StartsAgainTyped, FaultTyped, Members, Said DEF Insert, Open, Views
<1>7. CASE InsertFails
  BY <1>7, FaultTyped DEF InsertFails
<1>8. CASE Void
  <2>1. current \in Intents
    BY <1>8 DEF Void, PageHoldsIntent
  <2>2. QED
    BY <1>8, <2>1, StartsAgainTyped, FaultTyped, MovesTyped, Members, Said DEF Void
<1>9. CASE Submit
  <2>1. confirms' \in 0..MaxConfirms
    BY <1>9, BoundsAssumption DEF Submit
  <2>2. QED
    BY <1>9, <2>1, Said DEF Submit, Views
<1>10. CASE PaymentSucceeds
  BY <1>10, Said DEF PaymentSucceeds, Tells, Heard, Views, PageHoldsIntent
<1>11. CASE SetupSucceeds
  BY <1>11, StartsAgainTyped, Said DEF SetupSucceeds, Heard, PageHoldsIntent
<1>12. CASE PaymentFails
  <2>1. PaymentMessage(reply[current]) \in {"action required", "processing"}
    BY DEF PaymentMessage
  <2>2. errors' \in 0..3
    BY <1>12 DEF PaymentFails
  <2>3. QED
    BY <1>12, <2>1, <2>2, FailsTyped DEF PaymentFails, Fails
<1>13. CASE SetupFails
  <2>1. SetupMessage(reply[current]) \in {"action required", "processing"}
    BY DEF SetupMessage
  <2>2. QED
    BY <1>13, <2>1, FailsTyped DEF SetupFails, Fails
<1>14. CASE Redirected
  BY <1>14, Said DEF Redirected, Views
<1>15. CASE TryAgain
  BY <1>15, Said DEF TryAgain, ClearsMessage
<1>16. CASE TrySetupAgain
  BY <1>16, Said DEF TrySetupAgain, ClearsMessage
<1>17. CASE Back
  BY <1>17, StartsAgainTyped, Said DEF Back, Forgets, PageHoldsIntent
<1>18. CASE CloseForm
  BY <1>18, StartsAgainTyped, Said DEF CloseForm, Forgets, PageHoldsIntent
<1>19. CASE Returns
  BY <1>19 DEF Returns, Views
<1>20. CASE LeavesBank
  BY <1>20, StartsAgainTyped, Said DEF LeavesBank, PageHoldsIntent
<1>21. CASE Verify
  <2>1. shown' \in Messages /\ current \in Intents
    BY <1>21, Said DEF Verify, Verdict, Fallback, PageHoldsIntent
  <2>2. faults' \in 0..MaxFaults
    BY <1>21, FaultTyped DEF Verify
  <2>3. QED
    BY <1>21, <2>1, <2>2 DEF Verify, Tells, Views
<1>22. CASE ReturnToList
  BY <1>22, StartsAgainTyped, Said DEF ReturnToList, PageHoldsIntent
<1>23. CASE Leave
  BY <1>23, StartsAgainTyped, Said DEF Leave
<1>24. ASSUME NEW i \in Intents, ConfirmAtStripe(i)
      PROVE  TypeOK'
  <2>1. ASSUME NEW s \in Status, Moves(i, s), NEW r \in Replies,
               reply' = [reply EXCEPT ![i] = r]
        PROVE  TypeOK'
    BY <1>24, <2>1, MovesTyped DEF ConfirmAtStripe
  <2>2. CASE UNCHANGED <<intent, events>> /\ reply' = [reply EXCEPT ![i] = "unexpected"]
    BY <1>24, <2>2, Members DEF ConfirmAtStripe
  <2>3. QED
    BY <1>24, <2>1, <2>2, Members DEF ConfirmAtStripe, Open
<1>25. ASSUME NEW i \in Intents, ConfirmLost(i)
      PROVE  TypeOK'
  BY <1>25, FaultTyped, Members DEF ConfirmLost
<1>26. ASSUME NEW i \in Intents, Unheard(i)
      PROVE  TypeOK'
  BY <1>26 DEF Unheard
<1>27. ASSUME NEW i \in Intents, Settles(i)
      PROVE  TypeOK'
  BY <1>27, MovesTyped, Members DEF Settles, Open
<1>28. ASSUME NEW i \in Intents, Cancel(i)
      PROVE  TypeOK'
  BY <1>28, MovesTyped, FaultTyped, Members DEF Cancel
<1>29. ASSUME NEW i \in Intents, CancelInRow(i)
      PROVE  TypeOK'
  BY <1>29, Members DEF CancelInRow
<1>30. ASSUME NEW w \in Workers, HandleSetup(w)
      PROVE  TypeOK'
  BY <1>30, ReadTyped DEF HandleSetup, ReadRow
<1>31. ASSUME NEW w \in Workers, HandlePayment(w)
      PROVE  TypeOK'
  BY <1>31, ReadTyped DEF HandlePayment, ReadRow
<1>32. ASSUME NEW w \in Workers, WriteRow(w)
      PROVE  TypeOK'
  <2>1. job[w].status \in Status /\ Kept(job[w].status, job[w].method) \in BOOLEAN
    BY <1>32 DEF WriteRow, Jobs, Kept, Brings
  <2>2. QED
    BY <1>32, <2>1 DEF WriteRow
<1>33. ASSUME NEW w \in Workers, WriteFails(w)
      PROVE  TypeOK'
  BY <1>33, FaultTyped DEF WriteFails
<1>34. CASE Edit
  BY <1>34, Said DEF Edit
<1>35. CASE UNCHANGED vars
  BY <1>35 DEF vars
<1>36. QED
  BY <1>1, <1>2, <1>3, <1>4, <1>5, <1>6, <1>7, <1>8, <1>9, <1>10, <1>11, <1>12, <1>13,
     <1>14, <1>15, <1>16, <1>17, <1>18, <1>19, <1>20, <1>21, <1>22, <1>23, <1>24, <1>25,
     <1>26, <1>27, <1>28, <1>29, <1>30, <1>31, <1>32, <1>33, <1>34, <1>35 DEF Next

\* The page goes from view to view with its intent, and is silent while it waits.
LEMMA StepPage ==
  ASSUME TypeOK, PageHoldsIntent, SaysItsPlace, [Next]_vars
  PROVE  PageHoldsIntent' /\ SaysItsPlace'
<1> USE DEF PageHoldsIntent, SaysItsPlace, pageVars
<1>1. ASSUME NEW a \in Amounts, TooSmall(a)
      PROVE  PageHoldsIntent' /\ SaysItsPlace'
  BY <1>1 DEF TooSmall
<1>2. ASSUME NEW a \in Amounts, PayAmount(a)
      PROVE  PageHoldsIntent' /\ SaysItsPlace'
  BY <1>2, AskTyped DEF PayAmount, Ask
<1>3. CASE AddNew
  BY <1>3, AskTyped DEF AddNew, Ask
<1>4. CASE CreatedAtStripe
  BY <1>4 DEF CreatedAtStripe, Fault
<1>5. CASE NotCreated
  BY <1>5 DEF NotCreated, StartsAgain, Fault
<1>6. CASE Insert
  BY <1>6 DEF Insert, StartsAgain, Fault
<1>7. CASE InsertFails
  BY <1>7 DEF InsertFails, Fault
<1>8. CASE Void
  BY <1>8 DEF Void, Moves, StartsAgain, Fault
<1>9. CASE Submit
  BY <1>9 DEF Submit
<1>10. CASE PaymentSucceeds
  BY <1>10 DEF PaymentSucceeds, Tells, Heard
<1>11. CASE SetupSucceeds
  BY <1>11 DEF SetupSucceeds, StartsAgain, Heard
<1>12. CASE PaymentFails
  BY <1>12 DEF PaymentFails, Fails, Tells, Heard, PaymentMessage, ErrorMessage
<1>13. CASE SetupFails
  BY <1>13 DEF SetupFails, Fails, Tells, Heard, SetupMessage, ErrorMessage
<1>14. CASE Redirected
  BY <1>14 DEF Redirected
<1>15. CASE TryAgain
  BY <1>15 DEF TryAgain, ClearsMessage
<1>16. CASE TrySetupAgain
  BY <1>16 DEF TrySetupAgain, ClearsMessage
<1>17. CASE Back
  BY <1>17 DEF Back, Forgets, StartsAgain
<1>18. CASE CloseForm
  BY <1>18 DEF CloseForm, Forgets, StartsAgain
<1>19. CASE Returns
  BY <1>19 DEF Returns
<1>20. CASE LeavesBank
  BY <1>20 DEF LeavesBank, StartsAgain
<1>21. CASE Verify
  BY <1>21 DEF Verify, Verdict, Fallback, Tells, Fault
<1>22. CASE ReturnToList
  BY <1>22 DEF ReturnToList, StartsAgain
<1>23. CASE Leave
  BY <1>23 DEF Leave, StartsAgain
<1>24. ASSUME NEW i \in Intents, ConfirmAtStripe(i)
      PROVE  PageHoldsIntent' /\ SaysItsPlace'
  BY <1>24 DEF ConfirmAtStripe, Moves
<1>25. ASSUME NEW i \in Intents, ConfirmLost(i)
      PROVE  PageHoldsIntent' /\ SaysItsPlace'
  BY <1>25 DEF ConfirmLost, Fault
<1>26. ASSUME NEW i \in Intents, Unheard(i)
      PROVE  PageHoldsIntent' /\ SaysItsPlace'
  BY <1>26 DEF Unheard
<1>27. ASSUME NEW i \in Intents, Settles(i)
      PROVE  PageHoldsIntent' /\ SaysItsPlace'
  BY <1>27 DEF Settles, Moves
<1>28. ASSUME NEW i \in Intents, Cancel(i)
      PROVE  PageHoldsIntent' /\ SaysItsPlace'
  BY <1>28 DEF Cancel, Moves, Fault
<1>29. ASSUME NEW i \in Intents, CancelInRow(i)
      PROVE  PageHoldsIntent' /\ SaysItsPlace'
  BY <1>29 DEF CancelInRow
<1>30. ASSUME NEW w \in Workers, HandleSetup(w)
      PROVE  PageHoldsIntent' /\ SaysItsPlace'
  BY <1>30 DEF HandleSetup, ReadRow
<1>31. ASSUME NEW w \in Workers, HandlePayment(w)
      PROVE  PageHoldsIntent' /\ SaysItsPlace'
  BY <1>31 DEF HandlePayment, ReadRow
<1>32. ASSUME NEW w \in Workers, WriteRow(w)
      PROVE  PageHoldsIntent' /\ SaysItsPlace'
  BY <1>32 DEF WriteRow, Kept, Brings
<1>33. ASSUME NEW w \in Workers, WriteFails(w)
      PROVE  PageHoldsIntent' /\ SaysItsPlace'
  BY <1>33 DEF WriteFails, Fault
<1>34. CASE Edit
  BY <1>34 DEF Edit
<1>35. CASE UNCHANGED vars
  BY <1>35 DEF vars
<1>36. QED
  BY <1>1, <1>2, <1>3, <1>4, <1>5, <1>6, <1>7, <1>8, <1>9, <1>10, <1>11, <1>12, <1>13,
     <1>14, <1>15, <1>16, <1>17, <1>18, <1>19, <1>20, <1>21, <1>22, <1>23, <1>24, <1>25,
     <1>26, <1>27, <1>28, <1>29, <1>30, <1>31, <1>32, <1>33, <1>34, <1>35 DEF Next

\* An intent becomes costly while the page waits for it, or when it is
\* known or in doubt already; and the page does not stop waiting without a word.
LEMMA StepKnown ==
  ASSUME TypeOK, PageHoldsIntent, CostIsKnown, SentIsKnown, [Next]_vars
  PROVE  CostIsKnown' /\ SentIsKnown'
<1> USE DEF PageHoldsIntent, CostIsKnown, SentIsKnown, Awaited, Costly, Charged, Open,
             pageVars, stripeVars, ghostVars
<1>0. /\ intent \in [Intents -> Status \cup {"none"}]
      /\ reply \in [Intents -> Replies \cup {"none", "sent"}]
  BY DEF TypeOK
<1>1. ASSUME NEW a \in Amounts, TooSmall(a)
      PROVE  CostIsKnown' /\ SentIsKnown'
  BY <1>0, <1>1 DEF TooSmall
<1>2. ASSUME NEW a \in Amounts, PayAmount(a)
      PROVE  CostIsKnown' /\ SentIsKnown'
  BY <1>0, <1>2 DEF PayAmount, Ask
<1>3. CASE AddNew
  BY <1>0, <1>3 DEF AddNew, Ask
<1>4. CASE CreatedAtStripe
  BY <1>0, <1>4 DEF CreatedAtStripe, Fault
<1>5. CASE NotCreated
  BY <1>0, <1>5 DEF NotCreated, StartsAgain, Fault
<1>6. CASE Insert
  BY <1>0, <1>6 DEF Insert, StartsAgain, Fault
<1>7. CASE InsertFails
  BY <1>0, <1>7 DEF InsertFails, Fault
<1>8. CASE Void
  BY <1>0, <1>8 DEF Void, Moves, StartsAgain, Fault
<1>9. CASE Submit
  BY <1>0, <1>9 DEF Submit
<1>10. CASE PaymentSucceeds
  BY <1>0, <1>10 DEF PaymentSucceeds, Tells, Heard
<1>11. CASE SetupSucceeds
  BY <1>0, <1>11 DEF SetupSucceeds, StartsAgain, Heard
<1>12. CASE PaymentFails
  <2>1. reply[current] \in Costly => current \in told' \cup doubt'
    BY <1>12 DEF PaymentFails, Fails, Tells, PaymentMessage, Status, Open
  <2>2. QED
    BY <1>0, <1>12, <2>1 DEF PaymentFails, Fails, Tells, Heard
<1>13. CASE SetupFails
  <2>1. reply[current] \in Costly => current \in told' \cup doubt'
    BY <1>13 DEF SetupFails, Fails, Tells, SetupMessage, Status, Open
  <2>2. QED
    BY <1>0, <1>13, <2>1 DEF SetupFails, Fails, Tells, Heard
<1>14. CASE Redirected
  BY <1>0, <1>14 DEF Redirected
<1>15. CASE TryAgain
  BY <1>0, <1>15 DEF TryAgain, ClearsMessage
<1>16. CASE TrySetupAgain
  BY <1>0, <1>16 DEF TrySetupAgain, ClearsMessage
<1>17. CASE Back
  BY <1>0, <1>17 DEF Back, Forgets, StartsAgain
<1>18. CASE CloseForm
  BY <1>0, <1>18 DEF CloseForm, Forgets, StartsAgain
<1>19. CASE Returns
  BY <1>0, <1>19 DEF Returns
<1>20. CASE LeavesBank
  BY <1>0, <1>20 DEF LeavesBank, StartsAgain
<1>21. CASE Verify
  BY <1>0, <1>21 DEF Verify, Verdict, Fallback, Tells, Fault
<1>22. CASE ReturnToList
  BY <1>0, <1>22 DEF ReturnToList, StartsAgain
<1>23. CASE Leave
  BY <1>0, <1>23 DEF Leave, StartsAgain
<1>24. ASSUME NEW i \in Intents, ConfirmAtStripe(i)
      PROVE  CostIsKnown' /\ SentIsKnown'
  BY <1>0, <1>24 DEF ConfirmAtStripe, Moves
<1>25. ASSUME NEW i \in Intents, ConfirmLost(i)
      PROVE  CostIsKnown' /\ SentIsKnown'
  BY <1>0, <1>25 DEF ConfirmLost, Fault
<1>26. ASSUME NEW i \in Intents, Unheard(i)
      PROVE  CostIsKnown' /\ SentIsKnown'
  BY <1>0, <1>26 DEF Unheard
<1>27. ASSUME NEW i \in Intents, Settles(i)
      PROVE  CostIsKnown' /\ SentIsKnown'
  BY <1>0, <1>27 DEF Settles, Moves
<1>28. ASSUME NEW i \in Intents, Cancel(i)
      PROVE  CostIsKnown' /\ SentIsKnown'
  BY <1>0, <1>28 DEF Cancel, Moves, Fault
<1>29. ASSUME NEW i \in Intents, CancelInRow(i)
      PROVE  CostIsKnown' /\ SentIsKnown'
  BY <1>0, <1>29 DEF CancelInRow
<1>30. ASSUME NEW w \in Workers, HandleSetup(w)
      PROVE  CostIsKnown' /\ SentIsKnown'
  BY <1>0, <1>30 DEF HandleSetup, ReadRow
<1>31. ASSUME NEW w \in Workers, HandlePayment(w)
      PROVE  CostIsKnown' /\ SentIsKnown'
  BY <1>0, <1>31 DEF HandlePayment, ReadRow
<1>32. ASSUME NEW w \in Workers, WriteRow(w)
      PROVE  CostIsKnown' /\ SentIsKnown'
  BY <1>0, <1>32 DEF WriteRow, Kept, Brings
<1>33. ASSUME NEW w \in Workers, WriteFails(w)
      PROVE  CostIsKnown' /\ SentIsKnown'
  BY <1>0, <1>33 DEF WriteFails, Fault
<1>34. CASE Edit
  BY <1>0, <1>34 DEF Edit
<1>35. CASE UNCHANGED vars
  BY <1>0, <1>35 DEF vars
<1>36. QED
  BY <1>1, <1>2, <1>3, <1>4, <1>5, <1>6, <1>7, <1>8, <1>9, <1>10, <1>11, <1>12, <1>13,
     <1>14, <1>15, <1>16, <1>17, <1>18, <1>19, <1>20, <1>21, <1>22, <1>23, <1>24, <1>25,
     <1>26, <1>27, <1>28, <1>29, <1>30, <1>31, <1>32, <1>33, <1>34, <1>35 DEF Next

\* The rows change when one is inserted, when an event is written, and when a request has
\* cancelled an intent.
LEMMA RowsChange ==
  ASSUME [Next]_vars
  PROVE  /\ mode' = mode
         /\ \/ UNCHANGED rowVars
            \/ Insert
            \/ \E w \in Workers : WriteRow(w)
            \/ \E i \in Intents : CancelInRow(i)
BY DEF Next, vars, rowVars, TooSmall, PayAmount, AddNew, Ask, CreatedAtStripe, NotCreated,
       Insert, InsertFails, Void, Submit, Edit, ConfirmAtStripe, ConfirmLost, PaymentSucceeds,
       SetupSucceeds, PaymentFails, SetupFails, Fails, Redirected, TryAgain, TrySetupAgain,
       ClearsMessage, Back, CloseForm, Forgets, Unheard, Settles, Returns, LeavesBank,
       Verify, ReturnToList, Leave, HandleSetup, HandlePayment, ReadRow, WriteRow,
       WriteFails, Cancel, CancelInRow

\* Only a SetupIntent that succeeded brings its payment method, and what is written with
\* another status keeps the one that was read.
LEMMA StepSaved ==
  ASSUME TypeOK, SavedIsNamed, [Next]_vars
  PROVE  SavedIsNamed'
<1> USE DEF SavedIsNamed
<1>0. /\ row \in [Intents -> Status \cup {"none"}]
      /\ method \in [Intents -> BOOLEAN]
      /\ mode' = mode
  BY RowsChange DEF TypeOK
<1>1. CASE UNCHANGED rowVars
  BY <1>0, <1>1 DEF rowVars
<1>2. CASE Insert
  BY <1>0, <1>2 DEF Insert
<1>3. ASSUME NEW w \in Workers, WriteRow(w)
      PROVE  SavedIsNamed'
  BY <1>0, <1>3 DEF WriteRow, Kept, Brings
<1>4. ASSUME NEW i \in Intents, CancelInRow(i)
      PROVE  SavedIsNamed'
  BY <1>0, <1>4 DEF CancelInRow
<1>5. QED
  BY <1>1, <1>2, <1>3, <1>4, RowsChange

--------------------------------------------------------------------------------
(* The theorems.                                                              *)

\* The inductive invariant holds in every reachable state.
THEOREM Invariance == Spec => []IInv
<1>1. Init => IInv
  <2> SUFFICES ASSUME Init PROVE IInv
    OBVIOUS
  <2>1. TypeOK
    <3>1. errors \in 0..3 /\ made \in 0..MaxIntents
          /\ confirms \in 0..MaxConfirms /\ faults \in 0..MaxFaults
      BY BoundsAssumption DEF Init
    <3>2. QED
      BY <3>1 DEF Init, TypeOK, Views, Messages
  <2>2. PageHoldsIntent /\ SaysItsPlace /\ CostIsKnown /\ SentIsKnown /\ SavedIsNamed
    BY DEF Init, PageHoldsIntent, SaysItsPlace, CostIsKnown, Costly, Charged, SentIsKnown,
           SavedIsNamed
  <2>3. QED
    BY <2>1, <2>2 DEF IInv
<1>2. IInv /\ [Next]_vars => IInv'
  BY StepTyped, StepPage, StepKnown, StepSaved DEF IInv
<1>3. QED
  BY <1>1, <1>2, PTL DEF Spec

\* Every reachable state is well typed.
THEOREM TypeCorrect == Spec => []TypeOK
<1>1. IInv => TypeOK
  BY DEF IInv
<1>2. QED
  BY <1>1, Invariance, PTL

\* Nobody pays twice without knowing: the page waits for its own intent only, so that every
\* other one that was charged was told of or left in doubt.
THEOREM NobodyChargedSilently == Spec => []NoSilentCharge
<1>1. IInv => NoSilentCharge
  BY DEF IInv, CostIsKnown, Awaited, Costly, NoSilentCharge
<1>2. QED
  BY <1>1, Invariance, PTL

\* A charge is denied only where the user cannot know better or was told: the form forgets
\* its error when it confirms again, and the page may go on showing it only until the
\* answer is there.
THEOREM PagesTellTheTruth == Spec => []ToldTheTruth
<1>1. ASSUME IInv, current \in Intents, view \notin {"confirming", "away", "returned"}
      PROVE  NotChargedOrInDoubt
  BY <1>1 DEF IInv, CostIsKnown, Awaited, Costly, NotChargedOrInDoubt
<1>2. IInv => ToldTheTruth
  <2> SUFFICES ASSUME IInv
               PROVE  /\ inForm \in Denials => NotChargedOrInDoubt
                      /\ shown \in Denials => NotChargedOrInDoubt \/ view = "confirming"
    BY DEF ToldTheTruth
  <2>1. ASSUME inForm \in Denials
        PROVE  NotChargedOrInDoubt
    <3>1. view = "form"
      BY <2>1 DEF IInv, SaysItsPlace, Denials, Declines
    <3>2. current \in Intents
      BY <3>1 DEF IInv, TypeOK, PageHoldsIntent
    <3>3. QED
      BY <1>1, <3>1, <3>2
  <2>2. ASSUME shown \in Denials, view # "confirming"
        PROVE  NotChargedOrInDoubt
    <3>1. view \notin {"start", "creating", "confirming", "away", "returned"}
      BY <2>2 DEF IInv, SaysItsPlace, Denials, Declines
    <3>2. current \in Intents
      BY <3>1 DEF IInv, TypeOK, PageHoldsIntent
    <3>3. QED
      BY <1>1, <3>1, <3>2
  <2>3. QED
    BY <2>1, <2>2
<1>3. QED
  BY <1>2, Invariance, PTL

\* A saved payment method leaves the row of its intent only by a handler that had read the
\* row before, and a row that says "succeeded" names it.
THEOREM MethodsAreKept == Spec => MethodIsKept
<1> DEFINE KeptHere(i) ==
      /\ method[i] /\ ~method'[i] =>
           \E w \in Workers : job[w] # Idle /\ job[w].i = i /\ ~job[w].method
      /\ mode = "setup" /\ row'[i] = "succeeded" => method'[i]
<1>1. ASSUME IInv, IInv', [Next]_vars, NEW i \in Intents
      PROVE  KeptHere(i)
  <2>1. method \in [Intents -> BOOLEAN] /\ mode' = mode
    BY <1>1, RowsChange DEF IInv, TypeOK
  <2>2. mode = "setup" /\ row'[i] = "succeeded" => method'[i]
    BY <1>1, <2>1 DEF IInv, SavedIsNamed
  <2>3. ASSUME method[i], ~method'[i]
        PROVE  \E w \in Workers : job[w] # Idle /\ job[w].i = i /\ ~job[w].method
    <3>1. PICK w \in Workers : WriteRow(w)
      BY <1>1, <2>1, <2>3, RowsChange DEF rowVars, Insert, CancelInRow
    <3>2. job[w] # Idle /\ job[w].i = i /\ ~ Kept(job[w].status, job[w].method)
      BY <2>1, <2>3, <3>1 DEF WriteRow
    <3>3. QED
      BY <3>2 DEF Kept
  <2>4. QED
    BY <2>2, <2>3
<1>2. IInv /\ IInv' /\ [Next]_vars => [\A i \in Intents : KeptHere(i)]_vars
  BY <1>1
<1>3. QED
  BY <1>2, Invariance, PTL DEF Spec, MethodIsKept
================================================================================
