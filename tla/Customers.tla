------------------------------- MODULE Customers -------------------------------
(***************************************************************************)
(* One customer who has a row, and its life after that (its creation is in *)
(* PaymentIntents): the requests of the api, the customer events that the  *)
(* workers of both apps handle, the account page of the web client, and    *)
(* the cache in front of the row, with three keys for one customer.        *)
(* CustomersService is the same code in both apps.                         *)
(*                                                                         *)
(* Every call of the service is a route through single steps: a command to *)
(* Redis, a statement, or a call of Stripe.  A call goes to its next step  *)
(* or ends; between two of its steps any other call may take some.         *)
(***************************************************************************)
EXTENDS Naturals, Sequences, FiniteSets

CONSTANTS
  Calls,      \* requests and jobs; each has one operation
  Plans,      \* which operations the calls may have together
  MaxEdits    \* bound: changes made in the Dashboard of Stripe

ASSUME CallsAssumption == IsFiniteSet(Calls)
ASSUME EditsAssumption == MaxEdits \in Nat

VARIABLES
  stripe,   \* the customer at Stripe
  customer, \* its row in STRIPE_CUSTOMERS
  cache,    \* the three keys of Redis
  op,       \* op[c]: the operation of call c
  call,     \* call[c]: how far call c is on its route (at), the copy that its last
            \* lookup has returned (got), and what customers.retrieve has returned to
            \* it or its form shows (saw)
  edits,    \* changes made in the Dashboard so far
  held      \* ghost: every value a field has had at Stripe

customerVars == <<stripe, customer, cache, op, call, edits, held>>

--------------------------------------------------------------------------------
(* Data.  A field holds the value of the call that has set it, "first" from   *)
(* the creation, "dashboard", or, at Stripe, nothing.                         *)

Fields == {"email", "name"}
Values == {"first", "dashboard"} \cup Calls
Copy     == [Fields -> Values]
AtStripe == [Fields -> Values \cup {"nothing"}]
None     == [empty |-> TRUE]
Keys     == {"id", "stripe", "user"}

Find     == <<"get", "read", "fill">>
ByStripe == <<"getByStripe", "readByStripe">> \o Find \o <<"fillByStripe">>
ByUser   == <<"getByUser", "readByUser">> \o Find \o <<"fillByUser">>
\* Faulty Update: the row is written before Stripe is asked.
UpdateRowFirst == Find \o <<"write", "send", "evict">> \o Find

Update   == Find \o <<"send", "write", "evict">> \o Find
Delete   == Find \o <<"destroy", "softDelete", "evict">>
Sync     == <<"retrieve">> \o ByStripe \o <<"syncWrite", "evict">> \o Find
Session  == Find \o <<"openSession">>
\* The account page is filled with the customer of the user, and then saved.
AccountPage == ByUser \o <<"edit">>

SyncDel  == ByStripe \o <<"readAny", "softDelete", "evict">>

Jobs     == {"customer.updated", "customer.deleted"}
RequestOps == {"session", "delete", "sync", "form", "patch"}
Ops      == RequestOps \cup Jobs

\* assertOwnership looks the customer up before every operation that names it.  A request
\* that only shows the customer is one that ends after its first lookup.
Route == [o \in Ops |-> CASE o = "session"          -> Find \o Session
                         [] o = "form"             -> AccountPage \o Find \o Update
                         [] o = "patch"            -> Find \o Update
                         [] o = "delete"           -> Find \o Delete
                         [] o = "sync"             -> Find \o Sync
                         [] o = "customer.updated" -> Sync
                         [] o = "customer.deleted" -> SyncDel]

ASSUME PlansAssumption == Plans \subseteq [Calls -> Ops]

CustomerTypeOK ==
  /\ stripe \in [fields : AtStripe, gone : BOOLEAN]
  /\ customer \in [fields : Copy, deleted : BOOLEAN]
  /\ cache \in [Keys -> Copy \cup {None}]
  /\ op \in [Calls -> Ops]
  /\ call \in [Calls -> [at : Nat, got : Copy \cup {None}, saw : AtStripe \cup {None}]]
  /\ \A c \in Calls : call[c].at <= Len(Route[op[c]])
  /\ edits \in 0..MaxEdits
  /\ held \in [Fields -> SUBSET (Values \cup {"nothing"})]

CustomerInit ==
  /\ stripe = [fields |-> [f \in Fields |-> "first"], gone |-> FALSE]
  /\ customer = [fields |-> [f \in Fields |-> "first"], deleted |-> FALSE]
  /\ cache = [k \in Keys |-> None]
  /\ op \in Plans
  /\ call = [c \in Calls |-> [at |-> 1, got |-> None, saw |-> None]]
  /\ edits = 0
  /\ held = [f \in Fields |-> {"first"}]

--------------------------------------------------------------------------------
(* Steps of a call.                                                           *)

\* Call c is about to take step s.
Before(c, s) == call[c].at # 0 /\ Route[op[c]][call[c].at] = s

\* A call has ended; its locals are forgotten.
Ended == [at |-> 0, got |-> None, saw |-> None]

End(c) == call' = [call EXCEPT ![c] = Ended]

\* Steps that a lookup or a change begins with, and steps that use no copy: what was
\* looked up before them is not used any more.
Forgetting ==
  {"get", "getByStripe", "getByUser", "retrieve", "openSession", "destroy",
   "softDelete", "readAny", "evict"}

\* Call c is done with n steps of its route, or with all of it, and holds copies.
Go(c, n, got, saw) ==
  LET route == Route[op[c]]
      next  == call[c].at + n
  IN  IF next > Len(route)
      THEN End(c)
      ELSE call' = [call EXCEPT ![c] =
             [at  |-> next,
              got |-> IF route[next] \in Forgetting THEN None ELSE got,
              saw |-> IF route[next] = "evict" THEN None ELSE saw]]

Got(c) == call[c].got
Saw(c) == call[c].saw

GoWith(c, n, got) == Go(c, n, got, Saw(c))
Advance(c)        == Go(c, 1, Got(c), Saw(c))

Holds(fields) == held' = [f \in Fields |-> held[f] \cup {fields[f]}]

\* redis.get: a hit answers the lookup and skips its n - 1 other steps; a miss, or a
\* Redis that does not answer, goes on to the row.
Get(c, k, n) ==
  \/ cache[k] # None /\ GoWith(c, n, cache[k])
  \/ Advance(c)

\* redis.set with the time to live of a customer; a failure is swallowed.
Put(c, k) ==
  /\ Advance(c)
  /\ \/ cache' = [cache EXCEPT ![k] = Got(c)]
     \/ UNCHANGED cache

\* findById: the row must not be deleted; payment methods and subscriptions are read
\* with it.
FindById(c) ==
  \/ /\ Before(c, "get")
     /\ Get(c, "id", 3)
     /\ UNCHANGED cache
  \/ /\ Before(c, "read")
     /\ IF customer.deleted THEN End(c) ELSE GoWith(c, 1, customer.fields)
     /\ UNCHANGED cache
  \/ Before(c, "fill") /\ Put(c, "id")

\* A lookup by another key: the row tells the id, findById the copy, and the copy is
\* stored under this key as well.
FindBy(c, k, get, read, fill) ==
  \/ /\ Before(c, get)
     /\ Get(c, k, 6)
     /\ UNCHANGED cache
  \/ /\ Before(c, read)
     /\ IF customer.deleted THEN End(c) ELSE Advance(c)
     /\ UNCHANGED cache
  \/ Before(c, fill) /\ Put(c, k)

FindCustomerByStripeId(c) ==
  FindBy(c, "stripe", "getByStripe", "readByStripe", "fillByStripe")

FindByUserId(c) ==
  FindBy(c, "user", "getByUser", "readByUser", "fillByUser")

\* EditCustomerForm: the owner may replace the name or clear it; the e-mail address is
\* read-only.  The form is saved as a whole, with the fields that were not edited.
Edit(c) ==
  /\ Before(c, "edit")
  /\ \E name \in {Got(c).name, c, "nothing"} :
       Go(c, 1, Got(c), [Got(c) EXCEPT !.name = name])
  /\ UNCHANGED <<stripe, customer, cache, op, edits, held>>

Lookup(c) ==
  /\ FindById(c) \/ FindCustomerByStripeId(c) \/ FindByUserId(c)
  /\ UNCHANGED <<stripe, customer, op, edits, held>>

\* The fields that call c names: a request made by hand the e-mail address, the form
\* the name, unless it is empty.
Named(c) ==
  CASE op[c] = "patch" -> [email |-> c]
    [] op[c] = "form"  -> [f \in {g \in {"name"} : Saw(c)[g] # "nothing"} |-> Saw(c)[f]]

\* The fields, with those that are named replaced.
Patched(fields, named) ==
  [f \in Fields |-> IF f \in DOMAIN named THEN named[f] ELSE fields[f]]

\* The columns that update writes.
Written(c) == Patched(Got(c), Named(c))

\* update: Stripe gets the named fields only; a deleted customer is refused.
Send(c) ==
  /\ Before(c, "send")
  /\ ~stripe.gone
  /\ stripe' = [stripe EXCEPT !.fields = Patched(stripe.fields, Named(c))]
  /\ Holds(stripe'.fields)
  /\ Advance(c)
  /\ UNCHANGED <<customer, cache, op, edits>>

\* repo.update: every column, those that are not named from the copy in hand.
Write(c) ==
  /\ Before(c, "write")
  /\ customer' = [customer EXCEPT !.fields = Written(c)]
  /\ Advance(c)
  /\ UNCHANGED <<stripe, cache, op, edits, held>>

\* redis.del of the three keys; a failure is swallowed.
Evict(c) ==
  /\ Before(c, "evict")
  /\ \/ cache' = [k \in Keys |-> None]
     \/ UNCHANGED cache
  /\ Advance(c)
  /\ UNCHANGED <<stripe, customer, op, edits, held>>

\* softDelete: the customer is deleted at Stripe first.
Destroy(c) ==
  /\ Before(c, "destroy")
  /\ ~stripe.gone
  /\ stripe' = [stripe EXCEPT !.gone = TRUE]
  /\ Advance(c)
  /\ UNCHANGED <<customer, cache, op, edits, held>>

SoftDelete(c) ==
  /\ Before(c, "softDelete")
  /\ customer' = [customer EXCEPT !.deleted = TRUE]
  /\ Advance(c)
  /\ UNCHANGED <<stripe, cache, op, edits, held>>

\* syncSoftDelete reads the row again, whether or not it is deleted.
ReadAny(c) ==
  /\ Before(c, "readAny")
  /\ Advance(c)
  /\ UNCHANGED <<stripe, customer, cache, op, edits, held>>

\* syncFromStripe: a deleted customer ends the call.
RetrieveFromStripe(c) ==
  /\ Before(c, "retrieve")
  /\ IF stripe.gone THEN End(c) ELSE Go(c, 1, Got(c), stripe.fields)
  /\ UNCHANGED <<stripe, customer, cache, op, edits, held>>

\* Faulty Merged: a field that Stripe does not have is cleared in the row.
MergedNulls(c) == Saw(c)

\* What Stripe has; where it has nothing, the copy in hand.
Merged(c) ==
  [f \in Fields |-> IF Saw(c)[f] = "nothing" THEN Got(c)[f] ELSE Saw(c)[f]]

\* syncUpdate.
SyncWrite(c) ==
  /\ Before(c, "syncWrite")
  /\ customer' = [customer EXCEPT !.fields = Merged(c)]
  /\ Advance(c)
  /\ UNCHANGED <<stripe, cache, op, edits, held>>

\* createCustomerSession and createBillingPortalSession: nothing of ours changes.
OpenSession(c) ==
  /\ Before(c, "openSession")
  /\ ~stripe.gone
  /\ Advance(c)
  /\ UNCHANGED <<stripe, customer, cache, op, edits, held>>

\* A statement or a call of Stripe fails, before or after it took effect, or the
\* process dies.  The workers swallow the error: the event counts as handled.
Fails(c) ==
  /\ call[c].at # 0
  /\ End(c)
  /\ UNCHANGED <<stripe, customer, cache, op, edits, held>>

\* customer.deleted is sent when the customer is deleted.
Arrived(c) == op[c] = "customer.deleted" => stripe.gone

Step(c) ==
  /\ Arrived(c)
  /\ \/ Lookup(c)      \/ Send(c)     \/ Write(c)       \/ Evict(c)   \/ Destroy(c)
     \/ SoftDelete(c)  \/ ReadAny(c)  \/ SyncWrite(c)   \/ Edit(c)    \/ Fails(c)
     \/ OpenSession(c) \/ RetrieveFromStripe(c)

--------------------------------------------------------------------------------
(* The world around.                                                          *)

\* Faulty Expiring: the copy under the user's key is stored without one.
ExpiringTwo == {"id", "stripe"}

\* The keys that are stored with a time to live: all of them.
Expiring == Keys

\* A key reaches its time to live, or Redis drops it.
Expire(k) ==
  /\ cache[k] # None
  /\ k \in Expiring
  /\ cache' = [cache EXCEPT ![k] = None]
  /\ UNCHANGED <<stripe, customer, op, call, edits, held>>

\* Somebody edits a field in the Dashboard, clears it, or deletes the customer.
EditInDashboard(f, v) ==
  /\ edits < MaxEdits /\ ~stripe.gone
  /\ stripe' = [stripe EXCEPT !.fields[f] = v]
  /\ Holds(stripe'.fields)
  /\ edits' = edits + 1
  /\ UNCHANGED <<customer, cache, op, call>>

DeleteInDashboard ==
  /\ edits < MaxEdits /\ ~stripe.gone
  /\ stripe' = [stripe EXCEPT !.gone = TRUE]
  /\ edits' = edits + 1
  /\ UNCHANGED <<customer, cache, op, call, held>>

CustomerNext ==
  \/ \E c \in Calls : Step(c)
  \/ \E k \in Keys : Expire(k)
  \/ \E f \in Fields, v \in {"dashboard", "nothing"} : EditInDashboard(f, v)
  \/ DeleteInDashboard

CustomerSpec == CustomerInit /\ [][CustomerNext]_customerVars

\* A call goes on, and a key that expires is gone one day.
CustomerFairSpec ==
  /\ CustomerSpec
  /\ \A c \in Calls : WF_customerVars(Step(c))
  /\ \A k \in Keys : WF_customerVars(Expire(k))

--------------------------------------------------------------------------------
(* Properties.                                                                *)

\* The row never runs ahead of Stripe: every value in it was once a value at Stripe,
\* also when an update merges a stale copy or a sync fills a gap, and it is deleted
\* only after the customer was deleted at Stripe.
RowFollowsStripe ==
  /\ \A f \in Fields : customer.fields[f] \in held[f]
  /\ customer.deleted => stripe.gone

\* No copy of a deleted customer is served for ever: lookups that were under way, a
\* del that failed and copies taken from copies notwithstanding, the cache ends empty.
DeletionTakesHold == customer.deleted ~> [](\A k \in Keys : cache[k] = None)
================================================================================
