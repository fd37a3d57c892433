---------------------------- MODULE SessionsProofs ----------------------------
(***************************************************************************)
(* Proofs about Sessions, for any number of tabs and servers, any limits   *)
(* and any number of requests and faults.  The invariant says where the    *)
(* refresh tokens are: which are known to whom, and who is about to delete *)
(* or to replace one that still counts.                                    *)
(***************************************************************************)
EXTENDS Sessions, FiniteSetTheorems, TLAPS

-------------------------------------------------------------------------------
(* The inductive invariant.                                                    *)

\* The callers whose step is among P.
In(f, P) == {c \in Callers : f[c] \in P}

\* Requests that have still to be counted, and those that may still get a token.
Uncounted == {"rejected", "count"}
Unserved  == (Serving \cup {"rejected"}) \ {"answer"}

\* Every request is counted once, and gets one token.
OncePerRequest ==
  /\ \A k \in Counters : hits[k] + Cardinality(In(pc, Uncounted)) <= requests
  /\ issued + Cardinality(In(pc, Unserved)) <= requests + 1
  /\ \A c \in Callers : count[c] <= requests

\* What a caller does, and with which token, fits the route it has called.
RoleFits(c) ==
  /\ pc[c] = "idle" => sent[c] = NoToken
  /\ pc[c] \in {"idle", "rejected"} => doing[c] = "refresh"
  /\ c \in Tabs => doing[c] # "logout"
  /\ c \notin Tabs => doing[c] \in {"refresh", "logout"}
  /\ doing[c] = "logout" <=> pc[c] \in {"sign out", "clear"}
  /\ doing[c] \in {"login", "register"} => sent[c] = NoToken
  /\ pc[c] \in {"password", "find email", "insert"} => doing[c] \in {"login", "register"}
  /\ pc[c] \in {"validate", "revoke", "find user", "sign out"} => sent[c] # NoToken

RolesFit == \A c \in Callers : RoleFits(c)

\* Nobody knows a token that was not issued yet.
IssuedFirst ==
  /\ jar.refresh <= issued
  /\ \A t \in stored : t <= issued
  /\ \A c \in Callers : sent[c] <= issued /\ fresh[c] <= issued
  /\ \A t \in Tokens : t > issued => uses[t] = 0

\* A token on its way to the browser is known to nobody else, and is in Redis, or its
\* SET has failed.
FreshIsOwn ==
  \A c \in Callers :
    pc[c] = "answer" =>
      /\ fresh[c] # NoToken
      /\ fresh[c] \in stored \cup dropped
      /\ fresh[c] # jar.refresh
      /\ \A o \in Callers : sent[o] # fresh[c]
      /\ \A o \in Callers : pc[o] = "answer" /\ fresh[o] = fresh[c] => o = c

\* Where a refresh has looked its token up and has not replaced it yet.
Holding == {"revoke", "find user", "ping", "store"}

\* A token that is not excused has one holder, which deletes it before it is used; used, it
\* is gone.
OneHolderOf(t) ==
  /\ uses[t] <= 1
  /\ t \in stored => uses[t] = 0
  /\ \A c \in Callers :
       sent[c] = t /\ pc[c] \in Holding => uses[t] = 0 /\ (pc[c] = "revoke" <=> t \in stored)
  /\ \A c, o \in Callers :
       sent[c] = t /\ sent[o] = t /\ pc[c] \in Holding /\ pc[o] \in Holding => c = o

OneHolder == \A t \in Tokens \ excused : OneHolderOf(t)

IInv ==
  /\ TypeOK
  /\ OncePerRequest
  /\ RolesFit
  /\ IssuedFirst
  /\ FreshIsOwn
  /\ OneHolder
  /\ SessionSurvives
  /\ CounterEnds

-------------------------------------------------------------------------------
(* Counting callers.                                                           *)

\* Whoever moves leaves or joins a set of callers, and nobody else does.
LEMMA MovedPc ==
  ASSUME TypeOK, NEW c \in Callers, NEW s \in Steps, NEW P, pc' = [pc EXCEPT ![c] = s]
  PROVE  /\ Cardinality(In(pc, P)) \in Nat
         /\ Cardinality(In(pc', P)) \in Nat
         /\ s \notin P \/ pc[c] \in P => Cardinality(In(pc', P)) <= Cardinality(In(pc, P))
         /\ s \notin P /\ pc[c] \in P => Cardinality(In(pc', P)) + 1 = Cardinality(In(pc, P))
<1> USE DEF In
<1>0. pc \in [Callers -> Steps]
  BY DEF TypeOK
<1>1. IsFiniteSet(In(pc, P)) /\ IsFiniteSet(In(pc', P))
  BY CallersAssumption, FS_Subset
<1>2. Cardinality(In(pc, P)) \in Nat /\ Cardinality(In(pc', P)) \in Nat
  BY <1>1, FS_CardinalityType
<1>3. CASE s \in P <=> pc[c] \in P
  <2>1. In(pc', P) = In(pc, P)
    BY <1>0, <1>3
  <2>2. QED
    BY <1>2, <1>3, <2>1 DEF In
<1>4. CASE s \in P /\ pc[c] \notin P
  <2>1. In(pc', P) = In(pc, P) \cup {c} /\ c \notin In(pc, P)
    BY <1>0, <1>4
  <2>2. Cardinality(In(pc', P)) = Cardinality(In(pc, P)) + 1
    BY <1>1, <2>1, FS_AddElement
  <2>3. QED
    BY <1>2, <1>4, <2>2
<1>5. CASE s \notin P /\ pc[c] \in P
  <2>1. In(pc', P) = In(pc, P) \ {c} /\ c \in In(pc, P)
    BY <1>0, <1>5
  <2>2. Cardinality(In(pc', P)) = Cardinality(In(pc, P)) - 1
    BY <1>1, <2>1, FS_RemoveElement
  <2>3. QED
    BY <1>2, <1>5, <2>2
<1>6. QED
  BY <1>3, <1>4, <1>5, Zenon

\* Steps with which nobody comes to be counted, or to get a token; and steps that count
\* no hit and issue no token.
NobodyJoins ==
  \A d \in Callers : /\ pc'[d] \in Uncounted => pc[d] \in Uncounted
                     /\ pc'[d] \in Unserved => pc[d] \in Unserved

NothingGrows ==
  /\ \A d \in Callers : count'[d] <= requests
  /\ \A k \in Counters : hits'[k] \in 0..hits[k]
  /\ UNCHANGED <<issued, requests>>

\* Such a step keeps the bounds.
LEMMA NobodyNew ==
  ASSUME TypeOK, OncePerRequest, NobodyJoins, NothingGrows
  PROVE  OncePerRequest'
<1> USE DEF NobodyJoins, NothingGrows
<1>1. \A k \in Counters : hits[k] \in Nat
  BY DEF TypeOK
<1>2. issued \in Nat /\ requests \in Nat
  BY DEF TypeOK, Tokens
<1>3. \A P \in {Uncounted, Unserved} :
        /\ In(pc', P) \subseteq In(pc, P)
        /\ IsFiniteSet(In(pc, P))
  BY CallersAssumption, FS_Subset DEF In
<1>4. \A P \in {Uncounted, Unserved} :
        /\ Cardinality(In(pc, P)) \in Nat
        /\ Cardinality(In(pc', P)) \in Nat
        /\ Cardinality(In(pc', P)) <= Cardinality(In(pc, P))
  BY <1>3, FS_Subset, FS_CardinalityType
<1>5. \A k \in Counters :
        hits[k] + Cardinality(In(pc, Uncounted)) <= requests =>
          hits'[k] + Cardinality(In(pc', Uncounted)) <= requests
  BY <1>1, <1>2, <1>4
<1>6. QED
  BY <1>2, <1>4, <1>5 DEF OncePerRequest

\* A step with which one caller makes a request.
Asks(c) ==
  /\ \A d \in Callers \ {c} : pc'[d] = pc[d]
  /\ requests' = requests + 1
  /\ UNCHANGED <<hits, issued, count>>

\* So does it.
LEMMA AsksOnce ==
  ASSUME TypeOK, OncePerRequest, NEW c \in Callers, Asks(c)
  PROVE  OncePerRequest'
<1> USE DEF Asks
<1>1. \A P \in {Uncounted, Unserved} :
        /\ In(pc', P) \subseteq In(pc, P) \cup {c}
        /\ IsFiniteSet(In(pc, P))
  BY CallersAssumption, FS_Subset DEF In
<1>2. ASSUME NEW P \in {Uncounted, Unserved}
      PROVE  /\ IsFiniteSet(In(pc, P) \cup {c})
             /\ Cardinality(In(pc, P)) \in Nat
             /\ Cardinality(In(pc, P) \cup {c}) \in Nat
             /\ Cardinality(In(pc, P) \cup {c}) <= Cardinality(In(pc, P)) + 1
  <2>1. IsFiniteSet(In(pc, P)) /\ Cardinality(In(pc, P)) \in Nat
    BY <1>1, FS_CardinalityType
  <2>2. CASE c \in In(pc, P)
    <3>1. In(pc, P) \cup {c} = In(pc, P)
      BY <2>2
    <3>2. /\ IsFiniteSet(In(pc, P) \cup {c})
          /\ Cardinality(In(pc, P) \cup {c}) = Cardinality(In(pc, P))
      BY <2>1, <3>1, Zenon
    <3>3. QED
      BY <2>1, <3>2
  <2>3. CASE c \notin In(pc, P)
    <3>1. /\ IsFiniteSet(In(pc, P) \cup {c})
          /\ Cardinality(In(pc, P) \cup {c}) = Cardinality(In(pc, P)) + 1
      BY <2>1, <2>3, FS_AddElement
    <3>2. QED
      BY <2>1, <3>1
  <2>4. QED
    BY <2>2, <2>3
<1>3. \A P \in {Uncounted, Unserved} :
        /\ Cardinality(In(pc', P)) \in Nat
        /\ Cardinality(In(pc', P)) <= Cardinality(In(pc, P)) + 1
  BY <1>1, <1>2, FS_Subset, FS_CardinalityType
<1>4. \A k \in Counters : hits[k] \in Nat
  BY DEF TypeOK
<1>5. issued \in Nat /\ requests \in Nat /\ \A d \in Callers : count[d] \in Nat
  BY DEF TypeOK, Tokens
<1>6. QED
  BY <1>2, <1>3, <1>4, <1>5 DEF OncePerRequest

\* Whoever is counted is counted where there is a counter.
LEMMA CounterKnown ==
  ASSUME RolesFit, doing \in [Callers -> Routes \cup {"logout"}],
         NEW c \in Callers, pc[c] \in {"count", "counted"}
  PROVE  CounterOf(c) \in Counters
BY DEF RolesFit, RoleFits, CounterOf, Counters, Tracker, Callers, Routes

-------------------------------------------------------------------------------
(* Each part is kept by every step.                                            *)

\* What callers do goes on fitting the routes they have called.
LEMMA StepRoles ==
  ASSUME TypeOK, RolesFit, [Next]_vars
  PROVE  RolesFit'
<1>0. /\ doing \in [Callers -> Routes \cup {"logout"}]
      /\ pc \in [Callers -> Steps]
      /\ sent \in [Callers -> Tokens \cup {NoToken}]
      /\ fresh \in [Callers -> Tokens \cup {NoToken}]
  BY DEF TypeOK
<1> SUFFICES ASSUME NEW d \in Callers
             PROVE  RoleFits(d)'
  BY DEF RolesFit
<1> USE DEF RolesFit, RoleFits, Handler, redisVars, limitVars, callVars, boundVars,
            ghostVars, Goes, Go, Over, Keep
<1>1. CASE UNCHANGED vars
  BY <1>0, <1>1 DEF vars
<1>2. ASSUME NEW c \in Tabs, LoginForm(c)  PROVE RoleFits(d)'
  <2>1. CASE d = c
    BY <1>0, <1>2, <2>1, CallersAssumption DEF LoginForm, Callers, Submit
  <2>2. CASE d # c
    BY <1>0, <1>2, <2>2 DEF LoginForm, Callers, Submit
  <2>3. QED
    BY <2>1, <2>2
<1>3. ASSUME NEW c \in Tabs, RegisterForm(c)  PROVE RoleFits(d)'
  <2>1. CASE d = c
    BY <1>0, <1>3, <2>1, CallersAssumption DEF RegisterForm, Callers, Submit
  <2>2. CASE d # c
    BY <1>0, <1>3, <2>2 DEF RegisterForm, Callers, Submit
  <2>3. QED
    BY <2>1, <2>2
<1>4. ASSUME NEW c \in Callers, CallFromTab(c)  PROVE RoleFits(d)'
  BY <1>0, <1>4 DEF CallFromTab
<1>5. ASSUME NEW c \in Callers, CheckPassword(c)  PROVE RoleFits(d)'
  BY <1>0, <1>5 DEF CheckPassword
<1>6. ASSUME NEW c \in Callers, FindEmail(c)  PROVE RoleFits(d)'
  BY <1>0, <1>6 DEF FindEmail
<1>7. ASSUME NEW c \in Callers, InsertUser(c)  PROVE RoleFits(d)'
  BY <1>0, <1>7 DEF InsertUser
<1>8. ASSUME NEW c \in Callers, AnswerForm(c)  PROVE RoleFits(d)'
  BY <1>0, <1>8 DEF AnswerForm
<1>9. ASSUME NEW c \in Callers, CallFromServer(c)  PROVE RoleFits(d)'
  BY <1>0, <1>9 DEF CallFromServer
<1>10. ASSUME NEW c \in Servers, SignOut(c)  PROVE RoleFits(d)'
  <2> DEFINE to == IF jar.refresh = NoToken THEN "clear" ELSE "sign out"
  <2>1. /\ pc' = [pc EXCEPT ![c] = to]
        /\ doing' = [doing EXCEPT ![c] = "logout"]
        /\ sent' = [sent EXCEPT ![c] = jar.refresh]
    BY <1>10 DEF SignOut
  <2>2. to \in {"clear", "sign out"} /\ (to = "sign out" => jar.refresh # NoToken)
    OBVIOUS
  <2> HIDE DEF to
  <2>3. CASE d = c
    BY <1>0, <1>10, <2>1, <2>2, <2>3, CallersAssumption DEF Callers
  <2>4. CASE d # c
    BY <1>0, <2>1, <2>4 DEF Callers
  <2>5. QED
    BY <2>3, <2>4
<1>11. ASSUME NEW c \in Callers, RevokeAtLogout(c)  PROVE RoleFits(d)'
  BY <1>0, <1>11 DEF RevokeAtLogout
<1>12. ASSUME NEW c \in Callers, ClearCookies(c)  PROVE RoleFits(d)'
  BY <1>0, <1>12 DEF ClearCookies
<1>13. ASSUME NEW c \in Callers, SendRefresh(c)  PROVE RoleFits(d)'
  BY <1>0, <1>13 DEF SendRefresh
<1>14. ASSUME NEW c \in Callers, Count(c)  PROVE RoleFits(d)'
  BY <1>0, <1>14 DEF Count
<1>15. ASSUME NEW c \in Callers, Limited(c)  PROVE RoleFits(d)'
  <2>1. doing[c] \in Routes /\ pc[c] = "counted"
    BY <1>0, <1>15 DEF Limited
  <2>2. CASE pc' = [pc EXCEPT ![c] = "idle"]
    <3>1. Handler(c) # "idle"
      BY <2>1 DEF Routes
    <3>2. pc[c] # "idle" /\ (pc' = [pc EXCEPT ![c] = Handler(c)] => pc'[c] # "idle")
      BY <1>0, <2>1, <3>1 DEF Callers
    <3>3. /\ doing' = [doing EXCEPT ![c] = "refresh"]
          /\ sent' = [sent EXCEPT ![c] = NoToken]
      BY <1>0, <1>15, <2>2, <3>2 DEF Limited, Callers
    <3>4. QED
      BY <1>0, <2>1, <2>2, <3>3, CallersAssumption DEF Callers, Routes
  <2>3. CASE pc' # [pc EXCEPT ![c] = "idle"]
    <3>1. pc' = [pc EXCEPT ![c] = Handler(c)]
      BY <1>15, <2>3 DEF Limited
    <3>2. UNCHANGED <<doing, sent>> /\ (doing[c] = "refresh" => sent[c] # NoToken)
      BY <1>15, <2>3 DEF Limited
    <3>3. QED
      BY <1>0, <2>1, <3>1, <3>2 DEF Routes
  <2>4. QED
    BY <2>2, <2>3
<1>16. ASSUME NEW c \in Callers, Validate(c)  PROVE RoleFits(d)'
  BY <1>0, <1>16 DEF Validate
<1>17. ASSUME NEW c \in Callers, Revoke(c)  PROVE RoleFits(d)'
  BY <1>0, <1>17 DEF Revoke
<1>18. ASSUME NEW c \in Callers, FindUser(c)  PROVE RoleFits(d)'
  BY <1>0, <1>18 DEF FindUser
<1>19. ASSUME NEW c \in Callers, Ping(c)  PROVE RoleFits(d)'
  BY <1>0, <1>19 DEF Ping
<1>20. ASSUME NEW c \in Callers, Store(c)  PROVE RoleFits(d)'
  BY <1>0, <1>20 DEF Store
<1>21. ASSUME NEW c \in Callers, AnswerRefresh(c)  PROVE RoleFits(d)'
  BY <1>0, <1>21 DEF AnswerRefresh
<1>22. ASSUME NEW c \in Callers, Breaks(c)  PROVE RoleFits(d)'
  BY <1>0, <1>22 DEF Breaks
<1>23. ASSUME NEW k \in Counters, CounterExpires(k)  PROVE RoleFits(d)'
  BY <1>0, <1>23 DEF CounterExpires
<1>24. ASSUME NEW k \in Counters, BlockExpires(k)  PROVE RoleFits(d)'
  BY <1>0, <1>24 DEF BlockExpires
<1>25. CASE Navigate
  BY <1>0, <1>25 DEF Navigate
<1>26. CASE AccessExpires
  BY <1>0, <1>26 DEF AccessExpires
<1>27. CASE RedisFails
  BY <1>0, <1>27 DEF RedisFails
<1>28. CASE RedisReturns
  BY <1>0, <1>28 DEF RedisReturns
<1>29. QED
    BY <1>1, <1>2, <1>3, <1>4, <1>5, <1>6, <1>7, <1>8, <1>9, <1>10, <1>11, <1>12, <1>13,
     <1>14, <1>15, <1>16, <1>17, <1>18, <1>19, <1>20, <1>21, <1>22, <1>23, <1>24, <1>25,
     <1>26, <1>27, <1>28 DEF Next, Tab, Server, Refresh, Callers

\* No request is counted twice or gets two tokens.
LEMMA StepOnce ==
  ASSUME TypeOK, RolesFit, OncePerRequest, [Next]_vars
  PROVE  OncePerRequest'
<1>0. /\ doing \in [Callers -> Routes \cup {"logout"}]
      /\ pc \in [Callers -> Steps]
      /\ count \in [Callers -> Nat]
      /\ hits \in [Counters -> Nat]
      /\ requests \in Nat
      /\ \A d \in Callers : count[d] <= requests
  BY DEF TypeOK, OncePerRequest
<1> USE DEF Handler, Serving, Exchanging, Uncounted, Unserved, redisVars, limitVars,
            callVars, boundVars, ghostVars, Goes, Go, Over, Keep
<1>1. ASSUME UNCHANGED vars  PROVE NobodyJoins /\ NothingGrows
  <2>1. NobodyJoins
    BY <1>1 DEF NobodyJoins, vars
  <2>2. NothingGrows
    BY <1>0, <1>1 DEF NothingGrows, vars
  <2>3. QED
    BY <2>1, <2>2
<1>2. ASSUME NEW c \in Callers, LoginForm(c)  PROVE Asks(c)
  BY <1>0, <1>2 DEF Asks, LoginForm, Request, Submit
<1>3. ASSUME NEW c \in Callers, RegisterForm(c)  PROVE Asks(c)
  BY <1>0, <1>3 DEF Asks, RegisterForm, Request, Submit
<1>4. ASSUME NEW c \in Callers, CallFromTab(c)  PROVE Asks(c)
  BY <1>0, <1>4 DEF Asks, CallFromTab, Request
<1>5. ASSUME NEW c \in Callers, CheckPassword(c)  PROVE NobodyJoins /\ NothingGrows
  <2>1. NobodyJoins
    BY <1>0, <1>5 DEF NobodyJoins, CheckPassword
  <2>2. \A d \in Callers : count'[d] <= requests
    BY <1>0, <1>5 DEF CheckPassword
  <2>3. UNCHANGED <<hits, issued, requests>>
    BY <1>5 DEF CheckPassword
  <2>4. QED
    BY <1>0, <2>1, <2>2, <2>3 DEF NothingGrows
<1>6. ASSUME NEW c \in Callers, FindEmail(c)  PROVE NobodyJoins /\ NothingGrows
  <2>1. NobodyJoins
    BY <1>0, <1>6 DEF NobodyJoins, FindEmail
  <2>2. \A d \in Callers : count'[d] <= requests
    <3>1. count' = count \/ count' = [count EXCEPT ![c] = 0]
      BY <1>6 DEF FindEmail
    <3>2. QED
      BY <1>0, <3>1
  <2>3. UNCHANGED <<hits, issued, requests>>
    BY <1>6 DEF FindEmail
  <2>4. QED
    BY <1>0, <2>1, <2>2, <2>3 DEF NothingGrows
<1>7. ASSUME NEW c \in Callers, InsertUser(c)  PROVE NobodyJoins /\ NothingGrows
  <2>1. NobodyJoins
    BY <1>0, <1>7 DEF NobodyJoins, InsertUser
  <2>2. \A d \in Callers : count'[d] <= requests
    BY <1>0, <1>7 DEF InsertUser
  <2>3. UNCHANGED <<hits, issued, requests>>
    BY <1>7 DEF InsertUser
  <2>4. QED
    BY <1>0, <2>1, <2>2, <2>3 DEF NothingGrows
<1>8. ASSUME NEW c \in Callers, AnswerForm(c)  PROVE NobodyJoins /\ NothingGrows
  <2>1. NobodyJoins
    BY <1>0, <1>8 DEF NobodyJoins, AnswerForm
  <2>2. \A d \in Callers : count'[d] <= requests
    BY <1>0, <1>8 DEF AnswerForm
  <2>3. UNCHANGED <<hits, issued, requests>>
    BY <1>8 DEF AnswerForm
  <2>4. QED
    BY <1>0, <2>1, <2>2, <2>3 DEF NothingGrows
<1>9. ASSUME NEW c \in Callers, CallFromServer(c)  PROVE Asks(c)
  BY <1>0, <1>9 DEF Asks, CallFromServer, Request
<1>10. ASSUME NEW c \in Callers, SignOut(c)  PROVE Asks(c)
  BY <1>0, <1>10 DEF Asks, SignOut, Request
<1>11. ASSUME NEW c \in Callers, RevokeAtLogout(c)  PROVE NobodyJoins /\ NothingGrows
  <2>1. NobodyJoins
    BY <1>0, <1>11 DEF NobodyJoins, RevokeAtLogout
  <2>2. \A d \in Callers : count'[d] <= requests
    BY <1>0, <1>11 DEF RevokeAtLogout
  <2>3. UNCHANGED <<hits, issued, requests>>
    BY <1>11 DEF RevokeAtLogout
  <2>4. QED
    BY <1>0, <2>1, <2>2, <2>3 DEF NothingGrows
<1>12. ASSUME NEW c \in Callers, ClearCookies(c)  PROVE NobodyJoins /\ NothingGrows
  <2>1. NobodyJoins
    BY <1>0, <1>12 DEF NobodyJoins, ClearCookies
  <2>2. \A d \in Callers : count'[d] <= requests
    BY <1>0, <1>12 DEF ClearCookies
  <2>3. UNCHANGED <<hits, issued, requests>>
    BY <1>12 DEF ClearCookies
  <2>4. QED
    BY <1>0, <2>1, <2>2, <2>3 DEF NothingGrows
<1>13. ASSUME NEW c \in Callers, SendRefresh(c)  PROVE NobodyJoins /\ NothingGrows
  <2>1. NobodyJoins
    <3>1. pc[c] = "rejected"
      BY <1>13 DEF SendRefresh
    <3>2. pc' = [pc EXCEPT ![c] = "count"]
      BY <1>0, <3>1, <1>13 DEF SendRefresh
    <3>3. \A d \in Callers : d # c => pc'[d] = pc[d]
      BY <1>0, <3>2
    <3>4. pc[c] \in Unserved /\ (pc'[c] \in Uncounted => pc[c] \in Uncounted)
      BY <1>0, <3>1, <3>2
    <3>5. QED
      BY <3>3, <3>4 DEF NobodyJoins
  <2>2. \A d \in Callers : count'[d] <= requests
    BY <1>0, <1>13 DEF SendRefresh
  <2>3. UNCHANGED <<hits, issued, requests>>
    BY <1>13 DEF SendRefresh
  <2>4. QED
    BY <1>0, <2>1, <2>2, <2>3 DEF NothingGrows
<1>14. ASSUME NEW c \in Callers, Count(c)  PROVE OncePerRequest'
  <2> DEFINE k == CounterOf(c)
  <2>1. pc[c] = "count" /\ UNCHANGED <<issued, requests>>
    BY <1>14 DEF Count
  <2>2. CASE up /\ k \in blocked
    <3>1. /\ pc' = [pc EXCEPT ![c] = "idle"]
          /\ count' = [count EXCEPT ![c] = 0]
          /\ hits' = hits
      BY <1>14, <2>2 DEF Count
    <3>2. NobodyJoins
      BY <1>0, <2>1, <3>1 DEF NobodyJoins
    <3>3. \A d \in Callers : count'[d] <= requests
      BY <1>0, <3>1
    <3>4. NothingGrows
      BY <1>0, <2>1, <3>1, <3>3 DEF NothingGrows
    <3>5. QED
      BY <3>2, <3>4, NobodyNew
  <2>3. CASE ~(up /\ k \in blocked)
    <3> DEFINE inc == IF up THEN [hits EXCEPT ![k] = Hit(hits[k])] ELSE hits
               cnt == IF up THEN hits'[k] ELSE 0
    <3>1. /\ pc' = [pc EXCEPT ![c] = "counted"]
          /\ hits' = inc
          /\ count' = [count EXCEPT ![c] = cnt]
      BY <1>14, <2>3 DEF Count
    <3>2. k \in Counters
      BY <1>0, <2>1, CounterKnown
    <3>3. "counted" \in Steps /\ "counted" \notin Uncounted /\ pc[c] \in Uncounted
      BY <2>1 DEF Steps
    <3>4. /\ Cardinality(In(pc, Uncounted)) \in Nat
          /\ Cardinality(In(pc', Uncounted)) \in Nat
          /\ Cardinality(In(pc', Uncounted)) + 1 = Cardinality(In(pc, Uncounted))
      <4> HIDE DEF Uncounted
      <4>1. QED
        BY <3>1, <3>3, MovedPc
    <3>5. "counted" \in Unserved /\ pc[c] \in Unserved
      BY <2>1
    <3>6. /\ Cardinality(In(pc, Unserved)) \in Nat
          /\ Cardinality(In(pc', Unserved)) \in Nat
          /\ Cardinality(In(pc', Unserved)) <= Cardinality(In(pc, Unserved))
      <4> HIDE DEF Unserved
      <4>1. QED
        BY <3>1, <3>3, <3>5, MovedPc
    <3>7. \A i \in Counters :
            hits'[i] \in Nat /\ hits'[i] + Cardinality(In(pc', Uncounted)) <= requests
      <4> HIDE DEF Uncounted, k
      <4>1. QED
        <5>1. ASSUME NEW i \in Counters
              PROVE  /\ hits[i] \in Nat
                     /\ hits[i] + Cardinality(In(pc, Uncounted)) <= requests
          BY <1>0 DEF OncePerRequest
        <5>2. ASSUME NEW i \in Counters
              PROVE  hits'[i] = hits[i] \/ hits'[i] = hits[i] + 1
          BY <1>0, <3>1, <3>2 DEF Hit
        <5>3. QED
          BY <1>0, <3>4, <5>1, <5>2
    <3>8. issued + Cardinality(In(pc', Unserved)) <= requests + 1
      <4> HIDE DEF Unserved
      <4>1. issued \in Nat
        BY DEF TypeOK, Tokens
      <4>2. QED
        BY <1>0, <3>6, <4>1 DEF OncePerRequest
    <3>9. \A d \in Callers : count'[d] <= requests
      <4> HIDE DEF Uncounted, k
      <4>1. hits'[k] <= requests
        BY <1>0, <3>2, <3>4, <3>7
      <4>2. QED
        BY <1>0, <3>1, <4>1
    <3>10. QED
      BY <2>1, <3>7, <3>8, <3>9 DEF OncePerRequest
  <2>4. QED
    BY <2>2, <2>3
<1>15. ASSUME NEW c \in Callers, Limited(c)  PROVE NobodyJoins /\ NothingGrows
  <2>1. NobodyJoins
    <3>1. pc[c] = "counted" /\ doing[c] \in Routes
      BY <1>0, <1>15 DEF RolesFit, RoleFits, Limited
    <3>2. \/ pc' = [pc EXCEPT ![c] = "idle"]
          \/ pc' = [pc EXCEPT ![c] = "password"]
          \/ pc' = [pc EXCEPT ![c] = "find email"]
          \/ pc' = [pc EXCEPT ![c] = "validate"]
      BY <1>0, <3>1, <1>15 DEF Limited, Routes
    <3>3. \A d \in Callers : d # c => pc'[d] = pc[d]
      BY <1>0, <3>2
    <3>4. pc[c] \in Unserved /\ (pc'[c] \in Uncounted => pc[c] \in Uncounted)
      BY <1>0, <3>1, <3>2
    <3>5. QED
      BY <3>3, <3>4 DEF NobodyJoins
  <2>2. \A d \in Callers : count'[d] <= requests
    <3>1. count' = count \/ count' = [count EXCEPT ![c] = 0]
      BY <1>15 DEF Limited
    <3>2. QED
      BY <1>0, <3>1
  <2>3. UNCHANGED <<hits, issued, requests>>
    BY <1>15 DEF Limited
  <2>4. QED
    BY <1>0, <2>1, <2>2, <2>3 DEF NothingGrows
<1>16. ASSUME NEW c \in Callers, Validate(c)  PROVE NobodyJoins /\ NothingGrows
  <2>1. NobodyJoins
    BY <1>0, <1>16 DEF NobodyJoins, Validate
  <2>2. \A d \in Callers : count'[d] <= requests
    BY <1>0, <1>16 DEF Validate
  <2>3. UNCHANGED <<hits, issued, requests>>
    BY <1>16 DEF Validate
  <2>4. QED
    BY <1>0, <2>1, <2>2, <2>3 DEF NothingGrows
<1>17. ASSUME NEW c \in Callers, Revoke(c)  PROVE NobodyJoins /\ NothingGrows
  <2>1. NobodyJoins
    <3>1. pc[c] = "revoke"
      BY <1>17 DEF Revoke
    <3>2. pc' = [pc EXCEPT ![c] = "find user"]
      BY <1>0, <3>1, <1>17 DEF Revoke
    <3>3. \A d \in Callers : d # c => pc'[d] = pc[d]
      BY <1>0, <3>2
    <3>4. pc[c] \in Unserved /\ (pc'[c] \in Uncounted => pc[c] \in Uncounted)
      BY <1>0, <3>1, <3>2
    <3>5. QED
      BY <3>3, <3>4 DEF NobodyJoins
  <2>2. \A d \in Callers : count'[d] <= requests
    BY <1>0, <1>17 DEF Revoke
  <2>3. UNCHANGED <<hits, issued, requests>>
    BY <1>17 DEF Revoke
  <2>4. QED
    BY <1>0, <2>1, <2>2, <2>3 DEF NothingGrows
<1>18. ASSUME NEW c \in Callers, FindUser(c)  PROVE NobodyJoins /\ NothingGrows
  <2>1. NobodyJoins
    BY <1>0, <1>18 DEF NobodyJoins, FindUser
  <2>2. \A d \in Callers : count'[d] <= requests
    <3>1. count' = count \/ count' = [count EXCEPT ![c] = 0]
      BY <1>18 DEF FindUser
    <3>2. QED
      BY <1>0, <3>1
  <2>3. UNCHANGED <<hits, issued, requests>>
    BY <1>18 DEF FindUser
  <2>4. QED
    BY <1>0, <2>1, <2>2, <2>3 DEF NothingGrows
<1>19. ASSUME NEW c \in Callers, Ping(c)  PROVE NobodyJoins /\ NothingGrows
  <2>1. NobodyJoins
    BY <1>0, <1>19 DEF NobodyJoins, Ping
  <2>2. \A d \in Callers : count'[d] <= requests
    BY <1>0, <1>19 DEF Ping
  <2>3. UNCHANGED <<hits, issued, requests>>
    BY <1>19 DEF Ping
  <2>4. QED
    BY <1>0, <2>1, <2>2, <2>3 DEF NothingGrows
<1>20. ASSUME NEW c \in Callers, Store(c)  PROVE OncePerRequest'
  <2>1. /\ pc[c] = "store"
        /\ pc' = [pc EXCEPT ![c] = "answer"]
        /\ issued' = issued + 1
        /\ UNCHANGED <<hits, count, requests>>
    BY <1>20 DEF Store
  <2>2. /\ "answer" \in Steps
        /\ "answer" \notin Uncounted
        /\ "answer" \notin Unserved /\ pc[c] \in Unserved
    BY <2>1 DEF Steps
  <2> HIDE DEF Uncounted, Unserved
  <2>3. /\ Cardinality(In(pc, Uncounted)) \in Nat
        /\ Cardinality(In(pc', Uncounted)) \in Nat
        /\ Cardinality(In(pc', Uncounted)) <= Cardinality(In(pc, Uncounted))
    BY <2>1, <2>2, MovedPc
  <2>4. /\ Cardinality(In(pc, Unserved)) \in Nat
        /\ Cardinality(In(pc', Unserved)) \in Nat
        /\ Cardinality(In(pc', Unserved)) + 1 = Cardinality(In(pc, Unserved))
    BY <2>1, <2>2, MovedPc
  <2>5. issued \in Nat
    BY DEF TypeOK, Tokens
  <2>6. \A k \in Counters : hits'[k] + Cardinality(In(pc', Uncounted)) <= requests'
    BY <1>0, <2>1, <2>3 DEF OncePerRequest
  <2>7. issued' + Cardinality(In(pc', Unserved)) <= requests' + 1
    BY <1>0, <2>1, <2>4, <2>5 DEF OncePerRequest
  <2>8. QED
    BY <2>1, <2>6, <2>7 DEF OncePerRequest
<1>21. ASSUME NEW c \in Callers, AnswerRefresh(c)  PROVE NobodyJoins /\ NothingGrows
  <2>1. NobodyJoins
    BY <1>0, <1>21 DEF NobodyJoins, AnswerRefresh
  <2>2. \A d \in Callers : count'[d] <= requests
    BY <1>0, <1>21 DEF AnswerRefresh
  <2>3. UNCHANGED <<hits, issued, requests>>
    BY <1>21 DEF AnswerRefresh
  <2>4. QED
    BY <1>0, <2>1, <2>2, <2>3 DEF NothingGrows
<1>22. ASSUME NEW c \in Callers, Breaks(c)  PROVE NobodyJoins /\ NothingGrows
  <2>1. NobodyJoins
    BY <1>0, <1>22 DEF NobodyJoins, Breaks
  <2>2. \A d \in Callers : count'[d] <= requests
    <3>1. count' = count \/ count' = [count EXCEPT ![c] = 0]
      BY <1>22 DEF Breaks
    <3>2. QED
      BY <1>0, <3>1
  <2>3. UNCHANGED <<hits, issued, requests>>
    BY <1>22 DEF Breaks
  <2>4. QED
    BY <1>0, <2>1, <2>2, <2>3 DEF NothingGrows
<1>23. ASSUME NEW k \in Counters, CounterExpires(k)  PROVE NobodyJoins /\ NothingGrows
  <2>1. NobodyJoins
    BY <1>0, <1>23 DEF NobodyJoins, CounterExpires
  <2>2. NothingGrows
    BY <1>0, <1>23 DEF NothingGrows, CounterExpires
  <2>3. QED
    BY <2>1, <2>2
<1>24. ASSUME NEW k \in Counters, BlockExpires(k)  PROVE NobodyJoins /\ NothingGrows
  <2>1. NobodyJoins
    BY <1>0, <1>24 DEF NobodyJoins, BlockExpires
  <2>2. \A d \in Callers : count'[d] <= requests
    BY <1>0, <1>24 DEF BlockExpires
  <2>3. UNCHANGED <<hits, issued, requests>>
    BY <1>24 DEF BlockExpires
  <2>4. QED
    BY <1>0, <2>1, <2>2, <2>3 DEF NothingGrows
<1>25. ASSUME Navigate  PROVE NobodyJoins /\ NothingGrows
  <2>1. NobodyJoins
    BY <1>0, <1>25 DEF NobodyJoins, Navigate
  <2>2. \A d \in Callers : count'[d] <= requests
    BY <1>0, <1>25 DEF Navigate
  <2>3. UNCHANGED <<hits, issued, requests>>
    BY <1>25 DEF Navigate
  <2>4. QED
    BY <1>0, <2>1, <2>2, <2>3 DEF NothingGrows
<1>26. ASSUME AccessExpires  PROVE NobodyJoins /\ NothingGrows
  <2>1. NobodyJoins
    BY <1>0, <1>26 DEF NobodyJoins, AccessExpires
  <2>2. \A d \in Callers : count'[d] <= requests
    BY <1>0, <1>26 DEF AccessExpires
  <2>3. UNCHANGED <<hits, issued, requests>>
    BY <1>26 DEF AccessExpires
  <2>4. QED
    BY <1>0, <2>1, <2>2, <2>3 DEF NothingGrows
<1>27. ASSUME RedisFails  PROVE NobodyJoins /\ NothingGrows
  <2>1. NobodyJoins
    BY <1>0, <1>27 DEF NobodyJoins, RedisFails
  <2>2. \A d \in Callers : count'[d] <= requests
    BY <1>0, <1>27 DEF RedisFails
  <2>3. UNCHANGED <<hits, issued, requests>>
    BY <1>27 DEF RedisFails
  <2>4. QED
    BY <1>0, <2>1, <2>2, <2>3 DEF NothingGrows
<1>28. ASSUME RedisReturns  PROVE NobodyJoins /\ NothingGrows
  <2>1. NobodyJoins
    BY <1>0, <1>28 DEF NobodyJoins, RedisReturns
  <2>2. \A d \in Callers : count'[d] <= requests
    BY <1>0, <1>28 DEF RedisReturns
  <2>3. UNCHANGED <<hits, issued, requests>>
    BY <1>28 DEF RedisReturns
  <2>4. QED
    BY <1>0, <2>1, <2>2, <2>3 DEF NothingGrows
<1>29. QED
    BY <1>1, <1>2, <1>3, <1>4, <1>5, <1>6, <1>7, <1>8, <1>9, <1>10, <1>11, <1>12, <1>13,
     <1>14, <1>15, <1>16, <1>17, <1>18, <1>19, <1>20, <1>21, <1>22, <1>23, <1>24, <1>25,
     <1>26, <1>27, <1>28, NobodyNew, AsksOnce DEF Next, Tab, Server, Refresh, Callers

-------------------------------------------------------------------------------
(* The types, in parts.                                                        *)

BrowserTypes ==
  /\ jar \in [access : Access, refresh : Tokens \cup {NoToken}]
  /\ page \in {"app", "login"}
  /\ account \in BOOLEAN

RedisTypes == issued \in Tokens /\ stored \subseteq Tokens /\ up \in BOOLEAN

LimitTypes ==
  hits \in [Counters -> 0..MaxRequests] /\ timed \subseteq Counters /\ blocked \subseteq Counters

CallTypes ==
  /\ pc \in [Callers -> Steps]
  /\ doing \in [Callers -> Routes \cup {"logout"}]
  /\ sent \in [Callers -> Tokens \cup {NoToken}]
  /\ fresh \in [Callers -> Tokens \cup {NoToken}]
  /\ count \in [Callers -> 0..MaxRequests]

BoundTypes == requests \in 0..MaxRequests /\ faults \in 0..MaxFaults

GhostTypes ==
  /\ dropped \subseteq Tokens
  /\ excused \subseteq Tokens
  /\ uses \in [Tokens -> Nat]
  /\ untimed \subseteq Counters

LEMMA TypeParts ==
  TypeOK <=> BrowserTypes /\ RedisTypes /\ LimitTypes /\ CallTypes /\ BoundTypes /\ GhostTypes
BY DEF TypeOK, BrowserTypes, RedisTypes, LimitTypes, CallTypes, BoundTypes, GhostTypes

\* What the browser keeps and shows.
LEMMA StepBrowser ==
  ASSUME TypeOK, RolesFit, OncePerRequest, [Next]_vars
  PROVE  BrowserTypes'
<1>0. BrowserTypes /\ CallTypes
  BY TypeParts
<1> USE DEF CallTypes, Access, NoToken, Cookies, BrowserTypes, redisVars, limitVars,
            callVars, boundVars, ghostVars, Goes, Go, Over, Keep
<1>1. CASE UNCHANGED vars
  BY <1>0, <1>1 DEF vars
<1>2. ASSUME NEW c \in Callers, LoginForm(c)  PROVE BrowserTypes'
  BY <1>0, <1>2 DEF LoginForm, Submit
<1>3. ASSUME NEW c \in Callers, RegisterForm(c)  PROVE BrowserTypes'
  BY <1>0, <1>3 DEF RegisterForm, Submit
<1>4. ASSUME NEW c \in Callers, CallFromTab(c)  PROVE BrowserTypes'
  BY <1>0, <1>4 DEF CallFromTab
<1>5. ASSUME NEW c \in Callers, CheckPassword(c)  PROVE BrowserTypes'
  BY <1>0, <1>5 DEF CheckPassword
<1>6. ASSUME NEW c \in Callers, FindEmail(c)  PROVE BrowserTypes'
  BY <1>0, <1>6 DEF FindEmail
<1>7. ASSUME NEW c \in Callers, InsertUser(c)  PROVE BrowserTypes'
  BY <1>0, <1>7 DEF InsertUser
<1>8. ASSUME NEW c \in Callers, AnswerForm(c)  PROVE BrowserTypes'
  BY <1>0, <1>8 DEF AnswerForm
<1>9. ASSUME NEW c \in Callers, CallFromServer(c)  PROVE BrowserTypes'
  BY <1>0, <1>9 DEF CallFromServer
<1>10. ASSUME NEW c \in Callers, SignOut(c)  PROVE BrowserTypes'
  BY <1>0, <1>10 DEF SignOut
<1>11. ASSUME NEW c \in Callers, RevokeAtLogout(c)  PROVE BrowserTypes'
  BY <1>0, <1>11 DEF RevokeAtLogout
<1>12. ASSUME NEW c \in Callers, ClearCookies(c)  PROVE BrowserTypes'
  BY <1>0, <1>12 DEF ClearCookies
<1>13. ASSUME NEW c \in Callers, SendRefresh(c)  PROVE BrowserTypes'
  BY <1>0, <1>13 DEF SendRefresh
<1>14. ASSUME NEW c \in Callers, Count(c)  PROVE BrowserTypes'
  BY <1>0, <1>14 DEF Count
<1>15. ASSUME NEW c \in Callers, Limited(c)  PROVE BrowserTypes'
  BY <1>0, <1>15 DEF Limited
<1>16. ASSUME NEW c \in Callers, Validate(c)  PROVE BrowserTypes'
  BY <1>0, <1>16 DEF Validate
<1>17. ASSUME NEW c \in Callers, Revoke(c)  PROVE BrowserTypes'
  BY <1>0, <1>17 DEF Revoke
<1>18. ASSUME NEW c \in Callers, FindUser(c)  PROVE BrowserTypes'
  BY <1>0, <1>18 DEF FindUser
<1>19. ASSUME NEW c \in Callers, Ping(c)  PROVE BrowserTypes'
  BY <1>0, <1>19 DEF Ping
<1>20. ASSUME NEW c \in Callers, Store(c)  PROVE BrowserTypes'
  BY <1>0, <1>20 DEF Store
<1>21. ASSUME NEW c \in Callers, AnswerRefresh(c)  PROVE BrowserTypes'
  BY <1>0, <1>21 DEF AnswerRefresh
<1>22. ASSUME NEW c \in Callers, Breaks(c)  PROVE BrowserTypes'
  BY <1>0, <1>22 DEF Breaks
<1>23. ASSUME NEW k \in Counters, CounterExpires(k)  PROVE BrowserTypes'
  BY <1>0, <1>23 DEF CounterExpires
<1>24. ASSUME NEW k \in Counters, BlockExpires(k)  PROVE BrowserTypes'
  BY <1>0, <1>24 DEF BlockExpires
<1>25. CASE Navigate
  BY <1>0, <1>25 DEF Navigate
<1>26. CASE AccessExpires
  BY <1>0, <1>26 DEF AccessExpires
<1>27. CASE RedisFails
  BY <1>0, <1>27 DEF RedisFails
<1>28. CASE RedisReturns
  BY <1>0, <1>28 DEF RedisReturns
<1>29. QED
    BY <1>1, <1>2, <1>3, <1>4, <1>5, <1>6, <1>7, <1>8, <1>9, <1>10, <1>11, <1>12, <1>13,
     <1>14, <1>15, <1>16, <1>17, <1>18, <1>19, <1>20, <1>21, <1>22, <1>23, <1>24, <1>25,
     <1>26, <1>27, <1>28 DEF Next, Tab, Server, Refresh, Callers

\* The bounds of the model.
LEMMA StepBounds ==
  ASSUME TypeOK, [Next]_vars
  PROVE  BoundTypes'
<1>0. BoundTypes /\ MaxRequests \in Nat /\ MaxFaults \in Nat
  BY TypeParts, BoundsAssumption
<1> USE DEF Request, BoundTypes, redisVars, limitVars, callVars, boundVars, ghostVars
<1>1. CASE UNCHANGED vars
  BY <1>0, <1>1 DEF vars
<1>2. ASSUME NEW c \in Callers, LoginForm(c)  PROVE BoundTypes'
  BY <1>0, <1>2 DEF LoginForm, Submit
<1>3. ASSUME NEW c \in Callers, RegisterForm(c)  PROVE BoundTypes'
  BY <1>0, <1>3 DEF RegisterForm, Submit
<1>4. ASSUME NEW c \in Callers, CallFromTab(c)  PROVE BoundTypes'
  BY <1>0, <1>4 DEF CallFromTab
<1>5. ASSUME NEW c \in Callers, CheckPassword(c)  PROVE BoundTypes'
  BY <1>0, <1>5 DEF CheckPassword
<1>6. ASSUME NEW c \in Callers, FindEmail(c)  PROVE BoundTypes'
  BY <1>0, <1>6 DEF FindEmail
<1>7. ASSUME NEW c \in Callers, InsertUser(c)  PROVE BoundTypes'
  BY <1>0, <1>7 DEF InsertUser
<1>8. ASSUME NEW c \in Callers, AnswerForm(c)  PROVE BoundTypes'
  BY <1>0, <1>8 DEF AnswerForm
<1>9. ASSUME NEW c \in Callers, CallFromServer(c)  PROVE BoundTypes'
  BY <1>0, <1>9 DEF CallFromServer
<1>10. ASSUME NEW c \in Callers, SignOut(c)  PROVE BoundTypes'
  <2>1. Request /\ UNCHANGED faults
    BY <1>10 DEF SignOut
  <2>2. QED
    BY <1>0, <2>1
<1>11. ASSUME NEW c \in Callers, RevokeAtLogout(c)  PROVE BoundTypes'
  <2>1. requests' = requests /\ (faults' = faults \/ (faults < MaxFaults /\ faults' = faults + 1))
    BY <1>11 DEF RevokeAtLogout
  <2>2. QED
    BY <1>0, <2>1
<1>12. ASSUME NEW c \in Callers, ClearCookies(c)  PROVE BoundTypes'
  BY <1>0, <1>12 DEF ClearCookies
<1>13. ASSUME NEW c \in Callers, SendRefresh(c)  PROVE BoundTypes'
  BY <1>0, <1>13 DEF SendRefresh
<1>14. ASSUME NEW c \in Callers, Count(c)  PROVE BoundTypes'
  BY <1>0, <1>14 DEF Count
<1>15. ASSUME NEW c \in Callers, Limited(c)  PROVE BoundTypes'
  BY <1>0, <1>15 DEF Limited
<1>16. ASSUME NEW c \in Callers, Validate(c)  PROVE BoundTypes'
  BY <1>0, <1>16 DEF Validate
<1>17. ASSUME NEW c \in Callers, Revoke(c)  PROVE BoundTypes'
  BY <1>0, <1>17 DEF Revoke
<1>18. ASSUME NEW c \in Callers, FindUser(c)  PROVE BoundTypes'
  <2>1. requests' = requests /\ (faults' = faults \/ (faults < MaxFaults /\ faults' = faults + 1))
    BY <1>18 DEF FindUser
  <2>2. QED
    BY <1>0, <2>1
<1>19. ASSUME NEW c \in Callers, Ping(c)  PROVE BoundTypes'
  BY <1>0, <1>19 DEF Ping
<1>20. ASSUME NEW c \in Callers, Store(c)  PROVE BoundTypes'
  BY <1>0, <1>20 DEF Store
<1>21. ASSUME NEW c \in Callers, AnswerRefresh(c)  PROVE BoundTypes'
  BY <1>0, <1>21 DEF AnswerRefresh
<1>22. ASSUME NEW c \in Callers, Breaks(c)  PROVE BoundTypes'
  BY <1>0, <1>22 DEF Breaks
<1>23. ASSUME NEW k \in Counters, CounterExpires(k)  PROVE BoundTypes'
  BY <1>0, <1>23 DEF CounterExpires
<1>24. ASSUME NEW k \in Counters, BlockExpires(k)  PROVE BoundTypes'
  BY <1>0, <1>24 DEF BlockExpires
<1>25. CASE Navigate
  BY <1>0, <1>25 DEF Navigate
<1>26. CASE AccessExpires
  BY <1>0, <1>26 DEF AccessExpires
<1>27. CASE RedisFails
  BY <1>0, <1>27 DEF RedisFails
<1>28. CASE RedisReturns
  BY <1>0, <1>28 DEF RedisReturns
<1>29. QED
    BY <1>1, <1>2, <1>3, <1>4, <1>5, <1>6, <1>7, <1>8, <1>9, <1>10, <1>11, <1>12, <1>13,
     <1>14, <1>15, <1>16, <1>17, <1>18, <1>19, <1>20, <1>21, <1>22, <1>23, <1>24, <1>25,
     <1>26, <1>27, <1>28 DEF Next, Tab, Server, Refresh, Callers

\* The tokens of Redis: as many are issued as there are requests.
LEMMA StepRedis ==
  ASSUME TypeOK, RolesFit, OncePerRequest, OncePerRequest', BoundTypes', [Next]_vars
  PROVE  RedisTypes'
<1>0. RedisTypes /\ CallTypes
  BY TypeParts
<1> USE DEF CallTypes, Without, RedisTypes, redisVars, limitVars, callVars, boundVars,
            ghostVars, Goes, Go, Over, Keep
<1>1. CASE UNCHANGED vars
  BY <1>0, <1>1 DEF vars
<1>2. ASSUME NEW c \in Callers, LoginForm(c)  PROVE RedisTypes'
  BY <1>0, <1>2 DEF LoginForm, Submit
<1>3. ASSUME NEW c \in Callers, RegisterForm(c)  PROVE RedisTypes'
  BY <1>0, <1>3 DEF RegisterForm, Submit
<1>4. ASSUME NEW c \in Callers, CallFromTab(c)  PROVE RedisTypes'
  BY <1>0, <1>4 DEF CallFromTab
<1>5. ASSUME NEW c \in Callers, CheckPassword(c)  PROVE RedisTypes'
  BY <1>0, <1>5 DEF CheckPassword
<1>6. ASSUME NEW c \in Callers, FindEmail(c)  PROVE RedisTypes'
  BY <1>0, <1>6 DEF FindEmail
<1>7. ASSUME NEW c \in Callers, InsertUser(c)  PROVE RedisTypes'
  BY <1>0, <1>7 DEF InsertUser
<1>8. ASSUME NEW c \in Callers, AnswerForm(c)  PROVE RedisTypes'
  BY <1>0, <1>8 DEF AnswerForm
<1>9. ASSUME NEW c \in Callers, CallFromServer(c)  PROVE RedisTypes'
  BY <1>0, <1>9 DEF CallFromServer
<1>10. ASSUME NEW c \in Callers, SignOut(c)  PROVE RedisTypes'
  BY <1>0, <1>10 DEF SignOut
<1>11. ASSUME NEW c \in Callers, RevokeAtLogout(c)  PROVE RedisTypes'
  BY <1>0, <1>11 DEF RevokeAtLogout
<1>12. ASSUME NEW c \in Callers, ClearCookies(c)  PROVE RedisTypes'
  BY <1>0, <1>12 DEF ClearCookies
<1>13. ASSUME NEW c \in Callers, SendRefresh(c)  PROVE RedisTypes'
  BY <1>0, <1>13 DEF SendRefresh
<1>14. ASSUME NEW c \in Callers, Count(c)  PROVE RedisTypes'
  BY <1>0, <1>14 DEF Count
<1>15. ASSUME NEW c \in Callers, Limited(c)  PROVE RedisTypes'
  BY <1>0, <1>15 DEF Limited
<1>16. ASSUME NEW c \in Callers, Validate(c)  PROVE RedisTypes'
  BY <1>0, <1>16 DEF Validate
<1>17. ASSUME NEW c \in Callers, Revoke(c)  PROVE RedisTypes'
  BY <1>0, <1>17 DEF Revoke
<1>18. ASSUME NEW c \in Callers, FindUser(c)  PROVE RedisTypes'
  BY <1>0, <1>18 DEF FindUser
<1>19. ASSUME NEW c \in Callers, Ping(c)  PROVE RedisTypes'
  BY <1>0, <1>19 DEF Ping
<1>20. ASSUME NEW c \in Callers, Store(c)  PROVE RedisTypes'
  <2>1. /\ pc' = [pc EXCEPT ![c] = "answer"]
        /\ issued' = issued + 1
        /\ stored' \subseteq stored \cup {issued'}
        /\ up' = up
    BY <1>20 DEF Store
  <2>2. Cardinality(In(pc', Unserved)) \in Nat
    BY <2>1, MovedPc DEF Steps, Serving, Exchanging
  <2>3. issued' \in Tokens
    BY <1>0, <2>1, <2>2, BoundsAssumption DEF OncePerRequest, BoundTypes, Tokens
  <2>4. QED
    BY <1>0, <2>1, <2>3
<1>21. ASSUME NEW c \in Callers, AnswerRefresh(c)  PROVE RedisTypes'
  BY <1>0, <1>21 DEF AnswerRefresh
<1>22. ASSUME NEW c \in Callers, Breaks(c)  PROVE RedisTypes'
  BY <1>0, <1>22 DEF Breaks
<1>23. ASSUME NEW k \in Counters, CounterExpires(k)  PROVE RedisTypes'
  BY <1>0, <1>23 DEF CounterExpires
<1>24. ASSUME NEW k \in Counters, BlockExpires(k)  PROVE RedisTypes'
  BY <1>0, <1>24 DEF BlockExpires
<1>25. CASE Navigate
  BY <1>0, <1>25 DEF Navigate
<1>26. CASE AccessExpires
  BY <1>0, <1>26 DEF AccessExpires
<1>27. CASE RedisFails
  BY <1>0, <1>27 DEF RedisFails
<1>28. CASE RedisReturns
  BY <1>0, <1>28 DEF RedisReturns
<1>29. QED
    BY <1>1, <1>2, <1>3, <1>4, <1>5, <1>6, <1>7, <1>8, <1>9, <1>10, <1>11, <1>12, <1>13,
     <1>14, <1>15, <1>16, <1>17, <1>18, <1>19, <1>20, <1>21, <1>22, <1>23, <1>24, <1>25,
     <1>26, <1>27, <1>28 DEF Next, Tab, Server, Refresh, Callers

\* The counters of the throttler: no more hits than requests.
LEMMA StepLimit ==
  ASSUME TypeOK, RolesFit, OncePerRequest, OncePerRequest', BoundTypes', [Next]_vars
  PROVE  LimitTypes'
<1>0. /\ LimitTypes /\ CallTypes
      /\ \A c \in Callers : pc[c] \in {"count", "counted"} => CounterOf(c) \in Counters
  BY TypeParts, CounterKnown DEF CallTypes
<1> USE DEF CallTypes, Hit, FirstHit, LimitTypes, redisVars, limitVars, callVars,
            boundVars, ghostVars, Goes, Go, Over, Keep
<1>1. CASE UNCHANGED vars
  BY <1>0, <1>1 DEF vars
<1>2. ASSUME NEW c \in Callers, LoginForm(c)  PROVE LimitTypes'
  BY <1>0, <1>2 DEF LoginForm, Submit
<1>3. ASSUME NEW c \in Callers, RegisterForm(c)  PROVE LimitTypes'
  BY <1>0, <1>3 DEF RegisterForm, Submit
<1>4. ASSUME NEW c \in Callers, CallFromTab(c)  PROVE LimitTypes'
  BY <1>0, <1>4 DEF CallFromTab
<1>5. ASSUME NEW c \in Callers, CheckPassword(c)  PROVE LimitTypes'
  BY <1>0, <1>5 DEF CheckPassword
<1>6. ASSUME NEW c \in Callers, FindEmail(c)  PROVE LimitTypes'
  BY <1>0, <1>6 DEF FindEmail
<1>7. ASSUME NEW c \in Callers, InsertUser(c)  PROVE LimitTypes'
  BY <1>0, <1>7 DEF InsertUser
<1>8. ASSUME NEW c \in Callers, AnswerForm(c)  PROVE LimitTypes'
  BY <1>0, <1>8 DEF AnswerForm
<1>9. ASSUME NEW c \in Callers, CallFromServer(c)  PROVE LimitTypes'
  BY <1>0, <1>9 DEF CallFromServer
<1>10. ASSUME NEW c \in Callers, SignOut(c)  PROVE LimitTypes'
  BY <1>0, <1>10 DEF SignOut
<1>11. ASSUME NEW c \in Callers, RevokeAtLogout(c)  PROVE LimitTypes'
  BY <1>0, <1>11 DEF RevokeAtLogout
<1>12. ASSUME NEW c \in Callers, ClearCookies(c)  PROVE LimitTypes'
  BY <1>0, <1>12 DEF ClearCookies
<1>13. ASSUME NEW c \in Callers, SendRefresh(c)  PROVE LimitTypes'
  BY <1>0, <1>13 DEF SendRefresh
<1>14. ASSUME NEW c \in Callers, Count(c)  PROVE LimitTypes'
  <2> DEFINE k == CounterOf(c)
  <2>1. k \in Counters /\ UNCHANGED <<timed, blocked>>
    BY <1>0, <1>14 DEF Count
  <2>2. hits' = hits \/ hits' = [hits EXCEPT ![k] = hits[k] + 1]
    BY <1>14 DEF Count
  <2>3. \A i \in Counters : hits'[i] \in Nat
    BY <1>0, <2>1, <2>2
  <2>4. Cardinality(In(pc', Uncounted)) \in Nat
    <3>1. pc' = [pc EXCEPT ![c] = "idle"] \/ pc' = [pc EXCEPT ![c] = "counted"]
      BY <1>14 DEF Count
    <3>2. QED
      BY <3>1, MovedPc DEF Steps, Serving, Exchanging
  <2>5. \A i \in Counters : hits'[i] \in 0..MaxRequests
    BY <2>3, <2>4, BoundsAssumption DEF OncePerRequest, BoundTypes
  <2>6. hits' \in [Counters -> 0..MaxRequests]
    <3> HIDE DEF k
    <3>1. QED
      BY <1>0, <2>2, <2>5
  <2>7. QED
    BY <1>0, <2>1, <2>6
<1>15. ASSUME NEW c \in Callers, Limited(c)  PROVE LimitTypes'
  <2>1. CounterOf(c) \in Counters /\ hits' = hits
    BY <1>0, <1>15 DEF Limited
  <2>2. timed' = timed \/ timed' = timed \cup {CounterOf(c)}
    BY <1>15 DEF Limited
  <2>3. blocked' = blocked \/ blocked' = blocked \cup {CounterOf(c)}
    BY <1>15 DEF Limited
  <2>4. QED
    BY <1>0, <2>1, <2>2, <2>3
<1>16. ASSUME NEW c \in Callers, Validate(c)  PROVE LimitTypes'
  BY <1>0, <1>16 DEF Validate
<1>17. ASSUME NEW c \in Callers, Revoke(c)  PROVE LimitTypes'
  BY <1>0, <1>17 DEF Revoke
<1>18. ASSUME NEW c \in Callers, FindUser(c)  PROVE LimitTypes'
  BY <1>0, <1>18 DEF FindUser
<1>19. ASSUME NEW c \in Callers, Ping(c)  PROVE LimitTypes'
  BY <1>0, <1>19 DEF Ping
<1>20. ASSUME NEW c \in Callers, Store(c)  PROVE LimitTypes'
  BY <1>0, <1>20 DEF Store
<1>21. ASSUME NEW c \in Callers, AnswerRefresh(c)  PROVE LimitTypes'
  BY <1>0, <1>21 DEF AnswerRefresh
<1>22. ASSUME NEW c \in Callers, Breaks(c)  PROVE LimitTypes'
  BY <1>0, <1>22 DEF Breaks
<1>23. ASSUME NEW k \in Counters, CounterExpires(k)  PROVE LimitTypes'
  <2>1. 0 \in 0..MaxRequests
    BY BoundsAssumption
  <2>2. QED
    BY <1>0, <1>23, <2>1 DEF CounterExpires
<1>24. ASSUME NEW k \in Counters, BlockExpires(k)  PROVE LimitTypes'
  BY <1>0, <1>24 DEF BlockExpires
<1>25. CASE Navigate
  BY <1>0, <1>25 DEF Navigate
<1>26. CASE AccessExpires
  BY <1>0, <1>26 DEF AccessExpires
<1>27. CASE RedisFails
  BY <1>0, <1>27 DEF RedisFails
<1>28. CASE RedisReturns
  BY <1>0, <1>28 DEF RedisReturns
<1>29. QED
    BY <1>1, <1>2, <1>3, <1>4, <1>5, <1>6, <1>7, <1>8, <1>9, <1>10, <1>11, <1>12, <1>13,
     <1>14, <1>15, <1>16, <1>17, <1>18, <1>19, <1>20, <1>21, <1>22, <1>23, <1>24, <1>25,
     <1>26, <1>27, <1>28 DEF Next, Tab, Server, Refresh, Callers

\* What the callers do and carry.
LEMMA StepCalls ==
  ASSUME TypeOK, RolesFit, OncePerRequest, RedisTypes', LimitTypes', [Next]_vars
  PROVE  CallTypes'
<1>0. BrowserTypes /\ CallTypes
  BY TypeParts
<1>00. /\ jar.refresh \in Tokens \cup {NoToken}
       /\ pc \in [Callers -> Steps]
       /\ doing \in [Callers -> Routes \cup {"logout"}]
       /\ sent \in [Callers -> Tokens \cup {NoToken}]
       /\ fresh \in [Callers -> Tokens \cup {NoToken}]
       /\ count \in [Callers -> 0..MaxRequests]
  BY <1>0 DEF BrowserTypes, CallTypes
<1>01. ASSUME NEW c \in Callers, Over(c)  PROVE CallTypes'
  <2>1. 0 \in 0..MaxRequests /\ "idle" \in Steps
    BY BoundsAssumption DEF Steps
  <2>2. QED
    BY <1>00, <1>01, <2>1 DEF Over, Go, CallTypes, Routes
<1>02. ASSUME NEW c \in Callers, NEW s \in Steps, Go(c, s), Keep  PROVE CallTypes'
  BY <1>00, <1>02 DEF Go, Keep, CallTypes
<1> USE DEF BrowserTypes, RedisTypes, Steps, Serving, Exchanging, NoToken, CallTypes,
            redisVars, limitVars, callVars, boundVars, ghostVars
<1>1. CASE UNCHANGED vars
  BY <1>00, <1>1 DEF vars
<1>2. ASSUME NEW c \in Callers, LoginForm(c)  PROVE CallTypes'
  BY <1>00, <1>01, <1>02, <1>2 DEF LoginForm, Submit, Goes, Go, Routes
<1>3. ASSUME NEW c \in Callers, RegisterForm(c)  PROVE CallTypes'
  BY <1>00, <1>01, <1>02, <1>3 DEF RegisterForm, Submit, Goes, Go, Routes
<1>4. ASSUME NEW c \in Callers, CallFromTab(c)  PROVE CallTypes'
  BY <1>00, <1>01, <1>02, <1>4 DEF CallFromTab, Goes
<1>5. ASSUME NEW c \in Callers, CheckPassword(c)  PROVE CallTypes'
  BY <1>00, <1>01, <1>02, <1>5 DEF CheckPassword
<1>6. ASSUME NEW c \in Callers, FindEmail(c)  PROVE CallTypes'
  BY <1>00, <1>01, <1>02, <1>6 DEF FindEmail
<1>7. ASSUME NEW c \in Callers, InsertUser(c)  PROVE CallTypes'
  BY <1>00, <1>01, <1>02, <1>7 DEF InsertUser
<1>8. ASSUME NEW c \in Callers, AnswerForm(c)  PROVE CallTypes'
  BY <1>00, <1>01, <1>02, <1>8 DEF AnswerForm
<1>9. ASSUME NEW c \in Callers, CallFromServer(c)  PROVE CallTypes'
  BY <1>00, <1>01, <1>02, <1>9 DEF CallFromServer, Goes, Go, Routes
<1>10. ASSUME NEW c \in Callers, SignOut(c)  PROVE CallTypes'
  BY <1>00, <1>01, <1>02, <1>10 DEF SignOut, Goes, Go, Routes
<1>11. ASSUME NEW c \in Callers, RevokeAtLogout(c)  PROVE CallTypes'
  BY <1>00, <1>01, <1>02, <1>11 DEF RevokeAtLogout, Goes
<1>12. ASSUME NEW c \in Callers, ClearCookies(c)  PROVE CallTypes'
  BY <1>00, <1>01, <1>02, <1>12 DEF ClearCookies
<1>13. ASSUME NEW c \in Callers, SendRefresh(c)  PROVE CallTypes'
  BY <1>00, <1>01, <1>02, <1>13 DEF SendRefresh, Goes, Go, Routes
<1>14. ASSUME NEW c \in Callers, Count(c)  PROVE CallTypes'
  <2>1. CASE Over(c)
    BY <1>01, <2>1
  <2>2. CASE ~Over(c)
    <3> DEFINE k == CounterOf(c)
               cnt == IF up THEN hits'[k] ELSE 0
    <3>1. /\ pc' = [pc EXCEPT ![c] = "counted"]
          /\ count' = [count EXCEPT ![c] = cnt]
          /\ UNCHANGED <<doing, sent, fresh>>
      BY <1>14, <2>2 DEF Count, Go
    <3>2. k \in Counters
      BY <1>00, <1>14, CounterKnown DEF Count
    <3>3. cnt \in 0..MaxRequests
      BY <3>2, BoundsAssumption DEF LimitTypes
    <3>4. QED
      <4> HIDE DEF cnt
      <4>1. QED
        BY <1>00, <3>1, <3>3
  <2>3. QED
    BY <2>1, <2>2
<1>15. ASSUME NEW c \in Callers, Limited(c)  PROVE CallTypes'
  <2>1. CASE Over(c)
    BY <1>01, <2>1
  <2>2. CASE ~Over(c)
    <3>1. Go(c, Handler(c)) /\ Keep /\ pc[c] = "counted"
      BY <1>15, <2>2 DEF Limited
    <3>2. Handler(c) \in {"password", "find email", "validate"}
      <4>1. doing[c] \in Routes
        BY <1>00, <3>1 DEF RolesFit, RoleFits
      <4>2. QED
        BY <4>1 DEF Handler, Routes
    <3>3. QED
      BY <1>02, <3>1, <3>2
  <2>3. QED
    BY <2>1, <2>2
<1>16. ASSUME NEW c \in Callers, Validate(c)  PROVE CallTypes'
  BY <1>00, <1>01, <1>02, <1>16 DEF Validate
<1>17. ASSUME NEW c \in Callers, Revoke(c)  PROVE CallTypes'
  BY <1>00, <1>01, <1>02, <1>17 DEF Revoke, Goes
<1>18. ASSUME NEW c \in Callers, FindUser(c)  PROVE CallTypes'
  BY <1>00, <1>01, <1>02, <1>18 DEF FindUser
<1>19. ASSUME NEW c \in Callers, Ping(c)  PROVE CallTypes'
  BY <1>00, <1>01, <1>02, <1>19 DEF Ping
<1>20. ASSUME NEW c \in Callers, Store(c)  PROVE CallTypes'
  <2>1. /\ pc' = [pc EXCEPT ![c] = "answer"]
        /\ fresh' = [fresh EXCEPT ![c] = issued']
        /\ UNCHANGED <<doing, sent, count>>
    BY <1>20 DEF Store, Goes, Go
  <2>2. QED
    BY <1>00, <2>1
<1>21. ASSUME NEW c \in Callers, AnswerRefresh(c)  PROVE CallTypes'
  BY <1>00, <1>01, <1>02, <1>21 DEF AnswerRefresh
<1>22. ASSUME NEW c \in Callers, Breaks(c)  PROVE CallTypes'
  BY <1>00, <1>01, <1>02, <1>22 DEF Breaks
<1>23. ASSUME NEW k \in Counters, CounterExpires(k)  PROVE CallTypes'
  BY <1>00, <1>23 DEF CounterExpires
<1>24. ASSUME NEW k \in Counters, BlockExpires(k)  PROVE CallTypes'
  BY <1>00, <1>24 DEF BlockExpires
<1>25. CASE Navigate
  BY <1>00, <1>25 DEF Navigate
<1>26. CASE AccessExpires
  BY <1>00, <1>26 DEF AccessExpires
<1>27. CASE RedisFails
  BY <1>00, <1>27 DEF RedisFails
<1>28. CASE RedisReturns
  BY <1>00, <1>28 DEF RedisReturns
<1>29. QED
    BY <1>1, <1>2, <1>3, <1>4, <1>5, <1>6, <1>7, <1>8, <1>9, <1>10, <1>11, <1>12, <1>13,
     <1>14, <1>15, <1>16, <1>17, <1>18, <1>19, <1>20, <1>21, <1>22, <1>23, <1>24, <1>25,
     <1>26, <1>27, <1>28 DEF Next, Tab, Server, Refresh, Callers

\* What is remembered for the properties.
LEMMA StepGhosts ==
  ASSUME TypeOK, RolesFit, OncePerRequest, RedisTypes', [Next]_vars
  PROVE  GhostTypes'
<1>0. GhostTypes /\ CallTypes
  BY TypeParts
<1> USE DEF CallTypes, RedisTypes, Drop, NoToken, GhostTypes, redisVars, limitVars,
            callVars, boundVars, ghostVars, Goes, Go, Over, Keep
<1>1. CASE UNCHANGED vars
  BY <1>0, <1>1 DEF vars
<1>2. ASSUME NEW c \in Callers, LoginForm(c)  PROVE GhostTypes'
  BY <1>0, <1>2 DEF LoginForm, Submit
<1>3. ASSUME NEW c \in Callers, RegisterForm(c)  PROVE GhostTypes'
  BY <1>0, <1>3 DEF RegisterForm, Submit
<1>4. ASSUME NEW c \in Callers, CallFromTab(c)  PROVE GhostTypes'
  BY <1>0, <1>4 DEF CallFromTab
<1>5. ASSUME NEW c \in Callers, CheckPassword(c)  PROVE GhostTypes'
  BY <1>0, <1>5 DEF CheckPassword
<1>6. ASSUME NEW c \in Callers, FindEmail(c)  PROVE GhostTypes'
  BY <1>0, <1>6 DEF FindEmail
<1>7. ASSUME NEW c \in Callers, InsertUser(c)  PROVE GhostTypes'
  BY <1>0, <1>7 DEF InsertUser
<1>8. ASSUME NEW c \in Callers, AnswerForm(c)  PROVE GhostTypes'
  BY <1>0, <1>8 DEF AnswerForm
<1>9. ASSUME NEW c \in Callers, CallFromServer(c)  PROVE GhostTypes'
  BY <1>0, <1>9 DEF CallFromServer
<1>10. ASSUME NEW c \in Callers, SignOut(c)  PROVE GhostTypes'
  BY <1>0, <1>10 DEF SignOut
<1>11. ASSUME NEW c \in Callers, RevokeAtLogout(c)  PROVE GhostTypes'
  <2>1. sent[c] \in Tokens /\ UNCHANGED <<dropped, untimed>>
    BY <1>0, <1>11 DEF RevokeAtLogout, RolesFit, RoleFits
  <2>2. excused' = excused \/ excused' = excused \cup {sent[c]}
    BY <1>11 DEF RevokeAtLogout
  <2>3. uses' = uses \/ uses' = [uses EXCEPT ![sent[c]] = uses[sent[c]] + 1]
    BY <1>11 DEF RevokeAtLogout
  <2>4. QED
    BY <1>0, <2>1, <2>2, <2>3
<1>12. ASSUME NEW c \in Callers, ClearCookies(c)  PROVE GhostTypes'
  BY <1>0, <1>12 DEF ClearCookies
<1>13. ASSUME NEW c \in Callers, SendRefresh(c)  PROVE GhostTypes'
  BY <1>0, <1>13 DEF SendRefresh
<1>14. ASSUME NEW c \in Callers, Count(c)  PROVE GhostTypes'
  BY <1>0, <1>14 DEF Count
<1>15. ASSUME NEW c \in Callers, Limited(c)  PROVE GhostTypes'
  <2>1. CounterOf(c) \in Counters /\ UNCHANGED <<dropped, excused, uses>>
    BY <1>0, <1>15, CounterKnown DEF Limited
  <2>2. untimed' = untimed \/ untimed' = untimed \cup {CounterOf(c)}
    BY <1>15 DEF Limited
  <2>3. QED
    BY <1>0, <2>1, <2>2
<1>16. ASSUME NEW c \in Callers, Validate(c)  PROVE GhostTypes'
  BY <1>0, <1>16 DEF Validate
<1>17. ASSUME NEW c \in Callers, Revoke(c)  PROVE GhostTypes'
  <2>1. sent[c] \in Tokens /\ UNCHANGED <<dropped, uses, untimed>>
    BY <1>0, <1>17 DEF Revoke, RolesFit, RoleFits
  <2>2. excused' = excused \/ excused' = excused \cup {sent[c]}
    BY <1>17 DEF Revoke
  <2>3. QED
    BY <1>0, <2>1, <2>2
<1>18. ASSUME NEW c \in Callers, FindUser(c)  PROVE GhostTypes'
  BY <1>0, <1>18 DEF FindUser
<1>19. ASSUME NEW c \in Callers, Ping(c)  PROVE GhostTypes'
  BY <1>0, <1>19 DEF Ping
<1>20. ASSUME NEW c \in Callers, Store(c)  PROVE GhostTypes'
  <2>1. UNCHANGED <<excused, untimed>> /\ issued' \in Tokens
    BY <1>20 DEF Store
  <2>2. dropped' = dropped \/ dropped' = dropped \cup {issued'}
    BY <1>20 DEF Store
  <2>3. uses' = uses \/ (sent[c] # NoToken /\ uses' = [uses EXCEPT ![sent[c]] = uses[sent[c]] + 1])
    BY <1>20 DEF Store
  <2>4. QED
    BY <1>0, <2>1, <2>2, <2>3
<1>21. ASSUME NEW c \in Callers, AnswerRefresh(c)  PROVE GhostTypes'
  BY <1>0, <1>21 DEF AnswerRefresh
<1>22. ASSUME NEW c \in Callers, Breaks(c)  PROVE GhostTypes'
  <2>1. UNCHANGED <<excused, uses>>
    BY <1>22 DEF Breaks
  <2>2. dropped' = dropped \/ dropped' = dropped \cup ({sent[c]} \ {NoToken})
    BY <1>22 DEF Breaks
  <2>3. untimed' = untimed \/ (pc[c] = "counted" /\ untimed' = untimed \cup {CounterOf(c)})
    BY <1>22 DEF Breaks
  <2>4. QED
    BY <1>0, <2>1, <2>2, <2>3, CounterKnown
<1>23. ASSUME NEW k \in Counters, CounterExpires(k)  PROVE GhostTypes'
  BY <1>0, <1>23 DEF CounterExpires
<1>24. ASSUME NEW k \in Counters, BlockExpires(k)  PROVE GhostTypes'
  BY <1>0, <1>24 DEF BlockExpires
<1>25. CASE Navigate
  BY <1>0, <1>25 DEF Navigate
<1>26. CASE AccessExpires
  BY <1>0, <1>26 DEF AccessExpires
<1>27. CASE RedisFails
  BY <1>0, <1>27 DEF RedisFails
<1>28. CASE RedisReturns
  BY <1>0, <1>28 DEF RedisReturns
<1>29. QED
    BY <1>1, <1>2, <1>3, <1>4, <1>5, <1>6, <1>7, <1>8, <1>9, <1>10, <1>11, <1>12, <1>13,
     <1>14, <1>15, <1>16, <1>17, <1>18, <1>19, <1>20, <1>21, <1>22, <1>23, <1>24, <1>25,
     <1>26, <1>27, <1>28 DEF Next, Tab, Server, Refresh, Callers

-------------------------------------------------------------------------------
(* The tokens.                                                                  *)

\* Nobody comes to know a token before it is issued.
LEMMA StepIssued ==
  ASSUME TypeOK, IssuedFirst, [Next]_vars
  PROVE  IssuedFirst'
<1>0. /\ pc \in [Callers -> Steps]
      /\ doing \in [Callers -> Routes \cup {"logout"}]
      /\ sent \in [Callers -> Tokens \cup {NoToken}]
      /\ fresh \in [Callers -> Tokens \cup {NoToken}]
      /\ issued \in Nat \ {0} /\ stored \subseteq Tokens
      /\ jar \in [access : Access, refresh : Tokens \cup {NoToken}]
      /\ uses \in [Tokens -> Nat]
      /\ \A t \in Tokens : t \in Nat \ {0}
  BY BoundsAssumption DEF TypeOK, Tokens
<1> USE DEF IssuedFirst, Cookies, NoToken, Without, redisVars, limitVars, callVars,
            boundVars, ghostVars, Goes, Go, Over, Keep
<1>1. CASE UNCHANGED vars
  BY <1>0, <1>1 DEF vars
<1>2. ASSUME NEW c \in Callers, LoginForm(c)  PROVE IssuedFirst'
  BY <1>0, <1>2 DEF LoginForm, Submit
<1>3. ASSUME NEW c \in Callers, RegisterForm(c)  PROVE IssuedFirst'
  BY <1>0, <1>3 DEF RegisterForm, Submit
<1>4. ASSUME NEW c \in Callers, CallFromTab(c)  PROVE IssuedFirst'
  BY <1>0, <1>4 DEF CallFromTab
<1>5. ASSUME NEW c \in Callers, CheckPassword(c)  PROVE IssuedFirst'
  BY <1>0, <1>5 DEF CheckPassword
<1>6. ASSUME NEW c \in Callers, FindEmail(c)  PROVE IssuedFirst'
  <2>1. /\ fresh' = fresh \/ fresh' = [fresh EXCEPT ![c] = NoToken]
        /\ sent' = sent \/ sent' = [sent EXCEPT ![c] = NoToken]
    BY <1>6 DEF FindEmail
  <2>2. UNCHANGED <<jar, stored, issued, uses>>
    BY <1>6 DEF FindEmail
  <2>3. QED
    BY <1>0, <2>1, <2>2
<1>7. ASSUME NEW c \in Callers, InsertUser(c)  PROVE IssuedFirst'
  BY <1>0, <1>7 DEF InsertUser
<1>8. ASSUME NEW c \in Callers, AnswerForm(c)  PROVE IssuedFirst'
  BY <1>0, <1>8 DEF AnswerForm
<1>9. ASSUME NEW c \in Callers, CallFromServer(c)  PROVE IssuedFirst'
  BY <1>0, <1>9 DEF CallFromServer
<1>10. ASSUME NEW c \in Callers, SignOut(c)  PROVE IssuedFirst'
  BY <1>0, <1>10 DEF SignOut
<1>11. ASSUME NEW c \in Callers, RevokeAtLogout(c)  PROVE IssuedFirst'
  <2>1. stored' \subseteq stored /\ UNCHANGED <<jar, issued, sent, fresh>>
    BY <1>11 DEF RevokeAtLogout
  <2>2. uses' = uses \/ uses' = [uses EXCEPT ![sent[c]] = uses[sent[c]] + 1]
    BY <1>11 DEF RevokeAtLogout
  <2>3. \A t \in Tokens : t > issued => uses'[t] = 0
    BY <1>0, <2>2
  <2>4. QED
    BY <1>0, <2>1, <2>3
<1>12. ASSUME NEW c \in Callers, ClearCookies(c)  PROVE IssuedFirst'
  BY <1>0, <1>12 DEF ClearCookies
<1>13. ASSUME NEW c \in Callers, SendRefresh(c)  PROVE IssuedFirst'
  BY <1>0, <1>13 DEF SendRefresh
<1>14. ASSUME NEW c \in Callers, Count(c)  PROVE IssuedFirst'
  BY <1>0, <1>14 DEF Count
<1>15. ASSUME NEW c \in Callers, Limited(c)  PROVE IssuedFirst'
  BY <1>0, <1>15 DEF Limited
<1>16. ASSUME NEW c \in Callers, Validate(c)  PROVE IssuedFirst'
  BY <1>0, <1>16 DEF Validate
<1>17. ASSUME NEW c \in Callers, Revoke(c)  PROVE IssuedFirst'
  BY <1>0, <1>17 DEF Revoke
<1>18. ASSUME NEW c \in Callers, FindUser(c)  PROVE IssuedFirst'
  <2>1. /\ fresh' = fresh \/ fresh' = [fresh EXCEPT ![c] = NoToken]
        /\ sent' = sent \/ sent' = [sent EXCEPT ![c] = NoToken]
    BY <1>18 DEF FindUser
  <2>2. UNCHANGED <<jar, stored, issued, uses>>
    BY <1>18 DEF FindUser
  <2>3. QED
    BY <1>0, <2>1, <2>2
<1>19. ASSUME NEW c \in Callers, Ping(c)  PROVE IssuedFirst'
  BY <1>0, <1>19 DEF Ping
<1>20. ASSUME NEW c \in Callers, Store(c)  PROVE IssuedFirst'
  BY <1>0, <1>20 DEF Store
<1>21. ASSUME NEW c \in Callers, AnswerRefresh(c)  PROVE IssuedFirst'
  BY <1>0, <1>21 DEF AnswerRefresh
<1>22. ASSUME NEW c \in Callers, Breaks(c)  PROVE IssuedFirst'
  BY <1>0, <1>22 DEF Breaks
<1>23. ASSUME NEW k \in Counters, CounterExpires(k)  PROVE IssuedFirst'
  BY <1>0, <1>23 DEF CounterExpires
<1>24. ASSUME NEW k \in Counters, BlockExpires(k)  PROVE IssuedFirst'
  BY <1>0, <1>24 DEF BlockExpires
<1>25. CASE Navigate
  BY <1>0, <1>25 DEF Navigate
<1>26. CASE AccessExpires
  BY <1>0, <1>26 DEF AccessExpires
<1>27. CASE RedisFails
  BY <1>0, <1>27 DEF RedisFails
<1>28. CASE RedisReturns
  BY <1>0, <1>28 DEF RedisReturns
<1>29. QED
    BY <1>1, <1>2, <1>3, <1>4, <1>5, <1>6, <1>7, <1>8, <1>9, <1>10, <1>11, <1>12, <1>13,
     <1>14, <1>15, <1>16, <1>17, <1>18, <1>19, <1>20, <1>21, <1>22, <1>23, <1>24, <1>25,
     <1>26, <1>27, <1>28 DEF Next, Tab, Server, Refresh, Callers

\* A token on its way to the browser stays known to its caller only.
LEMMA StepFresh ==
  ASSUME TypeOK, RolesFit, IssuedFirst, FreshIsOwn, [Next]_vars
  PROVE  FreshIsOwn'
<1>0. /\ pc \in [Callers -> Steps]
      /\ doing \in [Callers -> Routes \cup {"logout"}]
      /\ sent \in [Callers -> Tokens \cup {NoToken}]
      /\ fresh \in [Callers -> Tokens \cup {NoToken}]
      /\ issued \in Nat \ {0} /\ stored \subseteq Tokens
      /\ jar \in [access : Access, refresh : Tokens \cup {NoToken}]
      /\ uses \in [Tokens -> Nat]
      /\ \A t \in Tokens : t \in Nat \ {0}
  BY BoundsAssumption DEF TypeOK, Tokens
<1> USE DEF FreshIsOwn, IssuedFirst, Cookies, NoToken, Without, Drop, redisVars,
            limitVars, callVars, boundVars, ghostVars, Goes, Go, Over, Keep
<1>1. CASE UNCHANGED vars
  BY <1>0, <1>1 DEF vars
<1>2. ASSUME NEW c \in Callers, LoginForm(c)  PROVE FreshIsOwn'
  BY <1>0, <1>2 DEF LoginForm, Submit
<1>3. ASSUME NEW c \in Callers, RegisterForm(c)  PROVE FreshIsOwn'
  BY <1>0, <1>3 DEF RegisterForm, Submit
<1>4. ASSUME NEW c \in Callers, CallFromTab(c)  PROVE FreshIsOwn'
  BY <1>0, <1>4 DEF CallFromTab
<1>5. ASSUME NEW c \in Callers, CheckPassword(c)  PROVE FreshIsOwn'
  BY <1>0, <1>5 DEF CheckPassword
<1>6. ASSUME NEW c \in Callers, FindEmail(c)  PROVE FreshIsOwn'
  <2>1. \A d \in Callers : pc'[d] = "answer" => d # c /\ pc[d] = "answer" /\ fresh'[d] = fresh[d]
    BY <1>0, <1>6 DEF FindEmail
  <2>2. sent' = sent \/ sent' = [sent EXCEPT ![c] = NoToken]
    BY <1>6 DEF FindEmail
  <2>3. /\ UNCHANGED <<jar, stored>>
        /\ dropped \subseteq dropped'
    BY <1>6 DEF FindEmail
  <2>4. QED
    BY <1>0, <2>1, <2>2, <2>3
<1>7. ASSUME NEW c \in Callers, InsertUser(c)  PROVE FreshIsOwn'
  BY <1>0, <1>7 DEF InsertUser
<1>8. ASSUME NEW c \in Callers, AnswerForm(c)  PROVE FreshIsOwn'
  BY <1>0, <1>8 DEF AnswerForm
<1>9. ASSUME NEW c \in Callers, CallFromServer(c)  PROVE FreshIsOwn'
  BY <1>0, <1>9 DEF CallFromServer
<1>10. ASSUME NEW c \in Callers, SignOut(c)  PROVE FreshIsOwn'
  BY <1>0, <1>10 DEF SignOut
<1>11. ASSUME NEW c \in Callers, RevokeAtLogout(c)  PROVE FreshIsOwn'
  BY <1>0, <1>11 DEF RevokeAtLogout
<1>12. ASSUME NEW c \in Callers, ClearCookies(c)  PROVE FreshIsOwn'
  BY <1>0, <1>12 DEF ClearCookies
<1>13. ASSUME NEW c \in Callers, SendRefresh(c)  PROVE FreshIsOwn'
  BY <1>0, <1>13 DEF SendRefresh
<1>14. ASSUME NEW c \in Callers, Count(c)  PROVE FreshIsOwn'
  BY <1>0, <1>14 DEF Count
<1>15. ASSUME NEW c \in Callers, Limited(c)  PROVE FreshIsOwn'
  <2>0. doing[c] \in Routes
    BY <1>0, <1>15 DEF Limited, RolesFit, RoleFits
  <2>1. \A d \in Callers : pc'[d] = "answer" => d # c /\ pc[d] = "answer" /\ fresh'[d] = fresh[d]
    BY <1>0, <2>0, <1>15 DEF Limited, Handler, Routes
  <2>2. sent' = sent \/ sent' = [sent EXCEPT ![c] = NoToken]
    BY <1>15 DEF Limited
  <2>3. /\ UNCHANGED <<jar, stored>>
        /\ dropped \subseteq dropped'
    BY <1>15 DEF Limited
  <2>4. QED
    BY <1>0, <2>1, <2>2, <2>3
<1>16. ASSUME NEW c \in Callers, Validate(c)  PROVE FreshIsOwn'
  BY <1>0, <1>16 DEF Validate
<1>17. ASSUME NEW c \in Callers, Revoke(c)  PROVE FreshIsOwn'
  BY <1>0, <1>17 DEF Revoke
<1>18. ASSUME NEW c \in Callers, FindUser(c)  PROVE FreshIsOwn'
  <2>1. \A d \in Callers : pc'[d] = "answer" => d # c /\ pc[d] = "answer" /\ fresh'[d] = fresh[d]
    BY <1>0, <1>18 DEF FindUser
  <2>2. sent' = sent \/ sent' = [sent EXCEPT ![c] = NoToken]
    BY <1>18 DEF FindUser
  <2>3. /\ UNCHANGED <<jar, stored>>
        /\ dropped \subseteq dropped'
    BY <1>18 DEF FindUser
  <2>4. QED
    BY <1>0, <2>1, <2>2, <2>3
<1>19. ASSUME NEW c \in Callers, Ping(c)  PROVE FreshIsOwn'
  BY <1>0, <1>19 DEF Ping
<1>20. ASSUME NEW c \in Callers, Store(c)  PROVE FreshIsOwn'
  BY <1>0, <1>20 DEF Store
<1>21. ASSUME NEW c \in Callers, AnswerRefresh(c)  PROVE FreshIsOwn'
  BY <1>0, <1>21 DEF AnswerRefresh
<1>22. ASSUME NEW c \in Callers, Breaks(c)  PROVE FreshIsOwn'
  BY <1>0, <1>22 DEF Breaks
<1>23. ASSUME NEW k \in Counters, CounterExpires(k)  PROVE FreshIsOwn'
  BY <1>0, <1>23 DEF CounterExpires
<1>24. ASSUME NEW k \in Counters, BlockExpires(k)  PROVE FreshIsOwn'
  BY <1>0, <1>24 DEF BlockExpires
<1>25. CASE Navigate
  BY <1>0, <1>25 DEF Navigate
<1>26. CASE AccessExpires
  BY <1>0, <1>26 DEF AccessExpires
<1>27. CASE RedisFails
  BY <1>0, <1>27 DEF RedisFails
<1>28. CASE RedisReturns
  BY <1>0, <1>28 DEF RedisReturns
<1>29. QED
    BY <1>1, <1>2, <1>3, <1>4, <1>5, <1>6, <1>7, <1>8, <1>9, <1>10, <1>11, <1>12, <1>13,
     <1>14, <1>15, <1>16, <1>17, <1>18, <1>19, <1>20, <1>21, <1>22, <1>23, <1>24, <1>25,
     <1>26, <1>27, <1>28 DEF Next, Tab, Server, Refresh, Callers

\* Steps with which nobody begins to hold a token, or leaves the step at which it is deleted.
HoldersStay ==
  /\ \A d \in Callers :
       pc'[d] \in Holding /\ sent'[d] # NoToken =>
         /\ pc[d] \in Holding
         /\ sent'[d] = sent[d]
         /\ pc'[d] = "revoke" <=> pc[d] = "revoke"
  /\ excused \subseteq excused'
  /\ UNCHANGED <<stored, uses>>

\* After a step nobody holds t, or c alone does, which has just looked it up.
LEMMA NoHolder ==
  ASSUME NEW t, uses'[t] \in {0, 1}, t \in stored' => uses'[t] = 0,
         \A o \in Callers : sent'[o] = t => pc'[o] \notin Holding
  PROVE  OneHolderOf(t)'
<1>1. uses'[t] <= 1
  OBVIOUS
<1>2. QED
  BY <1>1, Zenon DEF OneHolderOf

LEMMA NewHolder ==
  ASSUME NEW t, NEW c \in Callers, uses'[t] = 0, t \in stored', pc'[c] = "revoke",
         \A o \in Callers : sent'[o] = t /\ pc'[o] \in Holding => o = c
  PROVE  OneHolderOf(t)'
<1>1. uses'[t] <= 1
  OBVIOUS
<1>2. QED
  BY <1>1, Zenon DEF OneHolderOf

\* A token that is not excused keeps one holder.
LEMMA StepHolder ==
  ASSUME TypeOK, RolesFit, IssuedFirst, OneHolder, [Next]_vars
  PROVE  OneHolder'
<1>0. /\ pc \in [Callers -> Steps]
      /\ doing \in [Callers -> Routes \cup {"logout"}]
      /\ sent \in [Callers -> Tokens \cup {NoToken}]
      /\ fresh \in [Callers -> Tokens \cup {NoToken}]
      /\ issued \in Nat \ {0} /\ stored \subseteq Tokens
      /\ jar \in [access : Access, refresh : Tokens \cup {NoToken}]
      /\ uses \in [Tokens -> Nat]
      /\ \A t \in Tokens : t \in Nat \ {0}
  BY BoundsAssumption DEF TypeOK, Tokens
<1>00. HoldersStay => OneHolder'
  BY <1>0 DEF HoldersStay, OneHolder, OneHolderOf, NoToken
<1> USE DEF NoToken, Without, Drop, Holding, redisVars, limitVars, callVars, boundVars,
            ghostVars, Goes, Go, Over, Keep
<1>1. ASSUME UNCHANGED vars  PROVE HoldersStay
  BY <1>0, <1>1 DEF vars, HoldersStay
<1>2. ASSUME NEW c \in Callers, LoginForm(c)  PROVE HoldersStay
  BY <1>0, <1>2 DEF HoldersStay, LoginForm, Submit
<1>3. ASSUME NEW c \in Callers, RegisterForm(c)  PROVE HoldersStay
  BY <1>0, <1>3 DEF HoldersStay, RegisterForm, Submit
<1>4. ASSUME NEW c \in Callers, CallFromTab(c)  PROVE HoldersStay
  BY <1>0, <1>4 DEF HoldersStay, CallFromTab
<1>5. ASSUME NEW c \in Callers, CheckPassword(c)  PROVE HoldersStay
  <2>1. sent[c] = NoToken
    BY <1>5 DEF CheckPassword, RolesFit, RoleFits
  <2>2. \A d \in Callers \ {c} : pc'[d] = pc[d] /\ sent'[d] = sent[d]
    BY <1>0, <1>5 DEF CheckPassword
  <2>3. sent'[c] = NoToken
    BY <1>0, <2>1, <1>5 DEF CheckPassword
  <2>4. UNCHANGED <<stored, uses, excused>>
    BY <1>5 DEF CheckPassword
  <2>5. QED
    BY <1>0, <2>2, <2>3, <2>4 DEF HoldersStay
<1>6. ASSUME NEW c \in Callers, FindEmail(c)  PROVE HoldersStay
  BY <1>0, <1>6 DEF HoldersStay, FindEmail
<1>7. ASSUME NEW c \in Callers, InsertUser(c)  PROVE HoldersStay
  <2>1. sent[c] = NoToken
    BY <1>7 DEF InsertUser, RolesFit, RoleFits
  <2>2. \A d \in Callers \ {c} : pc'[d] = pc[d] /\ sent'[d] = sent[d]
    BY <1>0, <1>7 DEF InsertUser
  <2>3. sent'[c] = NoToken
    BY <1>0, <2>1, <1>7 DEF InsertUser
  <2>4. UNCHANGED <<stored, uses, excused>>
    BY <1>7 DEF InsertUser
  <2>5. QED
    BY <1>0, <2>2, <2>3, <2>4 DEF HoldersStay
<1>8. ASSUME NEW c \in Callers, AnswerForm(c)  PROVE HoldersStay
  BY <1>0, <1>8 DEF HoldersStay, AnswerForm
<1>9. ASSUME NEW c \in Callers, CallFromServer(c)  PROVE HoldersStay
  BY <1>0, <1>9 DEF HoldersStay, CallFromServer
<1>10. ASSUME NEW c \in Callers, SignOut(c)  PROVE HoldersStay
  BY <1>0, <1>10 DEF HoldersStay, SignOut
<1>11. ASSUME NEW c \in Callers, RevokeAtLogout(c)  PROVE OneHolder'
  <2>1. /\ pc[c] = "sign out"
        /\ pc' = [pc EXCEPT ![c] = "clear"]
        /\ UNCHANGED sent
        /\ excused \subseteq excused'
    BY <1>11 DEF RevokeAtLogout
  <2>2. stored' = stored \/ stored' = stored \ {sent[c]}
    BY <1>11 DEF RevokeAtLogout
  <2>3. sent[c] \notin excused' =>
          /\ stored' = stored \ {sent[c]}
          /\ \A o \in Callers : sent[o] = sent[c] => pc[o] # "revoke"
    BY <1>11 DEF RevokeAtLogout
  <2>4. uses' = IF sent[c] \in stored THEN [uses EXCEPT ![sent[c]] = uses[sent[c]] + 1] ELSE uses
    BY <1>11 DEF RevokeAtLogout
  <2> SUFFICES ASSUME NEW t \in Tokens, t \notin excused'
               PROVE  OneHolderOf(t)'
    BY DEF OneHolder
  <2>5. OneHolderOf(t)
    BY <2>1 DEF OneHolder
  <2>6. CASE sent[c] # t
    <3>1. uses'[t] = uses[t] /\ (t \in stored' <=> t \in stored)
      BY <1>0, <2>2, <2>4, <2>6
    <3>2. QED
      BY <1>0, <2>1, <2>5, <2>6, <3>1 DEF OneHolderOf
  <2>7. CASE sent[c] = t /\ t \notin stored
    <3>1. uses'[t] = uses[t] /\ t \notin stored'
      BY <1>0, <2>2, <2>4, <2>7
    <3>2. QED
      BY <1>0, <2>1, <2>5, <2>7, <3>1 DEF OneHolderOf
  <2>8. CASE sent[c] = t /\ t \in stored
    <3>1. uses[t] = 0
      BY <2>5, <2>8 DEF OneHolderOf
    <3>2. uses'[t] \in {0, 1} /\ (t \in stored' => uses'[t] = 0)
      BY <1>0, <2>3, <2>4, <2>8, <3>1
    <3>3. \A o \in Callers : sent[o] = t => pc[o] \notin Holding
      BY <2>3, <2>5, <2>8 DEF OneHolderOf
    <3>4. \A o \in Callers : sent'[o] = t => pc'[o] \notin Holding
      BY <1>0, <2>1, <3>3
    <3>5. QED
      <4> HIDE DEF Holding
      <4>1. QED
        BY <3>2, <3>4, NoHolder
  <2>9. QED
    BY <2>6, <2>7, <2>8
<1>12. ASSUME NEW c \in Callers, ClearCookies(c)  PROVE HoldersStay
  BY <1>0, <1>12 DEF HoldersStay, ClearCookies
<1>13. ASSUME NEW c \in Callers, SendRefresh(c)  PROVE HoldersStay
  BY <1>0, <1>13 DEF HoldersStay, SendRefresh
<1>14. ASSUME NEW c \in Callers, Count(c)  PROVE HoldersStay
  BY <1>0, <1>14 DEF HoldersStay, Count
<1>15. ASSUME NEW c \in Callers, Limited(c)  PROVE HoldersStay
  <2>1. doing[c] \in Routes
    BY <1>0, <1>15 DEF Limited, RolesFit, RoleFits
  <2>2. pc'[c] \notin Holding
    BY <1>0, <2>1, <1>15 DEF Limited, Handler, Routes
  <2>3. \A d \in Callers \ {c} : pc'[d] = pc[d] /\ sent'[d] = sent[d]
    BY <1>0, <1>15 DEF Limited
  <2>4. UNCHANGED <<stored, uses, excused>>
    BY <1>15 DEF Limited
  <2>5. QED
    BY <1>0, <2>2, <2>3, <2>4 DEF HoldersStay
<1>16. ASSUME NEW c \in Callers, Validate(c)  PROVE OneHolder'
  <2>1. CASE ~(up /\ sent[c] \in stored)
    <3>1. HoldersStay
      BY <1>0, <1>16, <2>1 DEF Validate, HoldersStay
    <3>2. QED
      BY <1>00, <3>1
  <2>2. CASE up /\ sent[c] \in stored
    <3>1. /\ pc[c] = "validate"
          /\ pc' = [pc EXCEPT ![c] = "revoke"]
          /\ UNCHANGED <<sent, stored, uses>>
          /\ excused \subseteq excused'
          /\ sent[c] \notin excused' => \A o \in Callers : sent[o] = sent[c] => pc[o] # "revoke"
      BY <1>16, <2>2 DEF Validate
    <3> SUFFICES ASSUME NEW t \in Tokens, t \notin excused'
                 PROVE  OneHolderOf(t)'
      BY DEF OneHolder
    <3>2. OneHolderOf(t)
      BY <3>1 DEF OneHolder
    <3>3. CASE sent[c] # t
      BY <1>0, <3>1, <3>2, <3>3 DEF OneHolderOf
    <3>4. CASE sent[c] = t
      <4>1. t \in stored /\ uses[t] = 0
        BY <2>2, <3>2, <3>4 DEF OneHolderOf
      <4>2. \A o \in Callers : sent[o] = t => pc[o] \notin Holding
        BY <3>1, <3>2, <3>4, <4>1 DEF OneHolderOf
      <4>3. \A o \in Callers : sent'[o] = t /\ pc'[o] \in Holding => o = c
        BY <1>0, <3>1, <4>2
      <4>4. pc'[c] = "revoke" /\ uses'[t] = 0 /\ t \in stored'
        BY <1>0, <3>1, <4>1
      <4>5. QED
        BY <4>3, <4>4, NewHolder
    <3>5. QED
      BY <3>3, <3>4
  <2>3. QED
    BY <2>1, <2>2
<1>17. ASSUME NEW c \in Callers, Revoke(c)  PROVE OneHolder'
  <2>1. /\ pc[c] = "revoke"
        /\ pc' = [pc EXCEPT ![c] = "find user"]
        /\ UNCHANGED <<sent, uses>>
        /\ excused \subseteq excused'
    BY <1>17 DEF Revoke
  <2>2. sent[c] \notin excused' => stored' = stored \ {sent[c]}
    BY <1>17 DEF Revoke
  <2>3. stored' = stored \/ stored' = stored \ {sent[c]}
    BY <1>17 DEF Revoke
  <2> SUFFICES ASSUME NEW t \in Tokens, t \notin excused'
               PROVE  OneHolderOf(t)'
    BY DEF OneHolder
  <2>4. OneHolderOf(t)
    BY <2>1 DEF OneHolder
  <2>5. CASE sent[c] # t
    BY <1>0, <2>1, <2>3, <2>4, <2>5 DEF OneHolderOf
  <2>6. CASE sent[c] = t
    BY <1>0, <2>1, <2>2, <2>4, <2>6 DEF OneHolderOf
  <2>7. QED
    BY <2>5, <2>6
<1>18. ASSUME NEW c \in Callers, FindUser(c)  PROVE HoldersStay
  BY <1>0, <1>18 DEF HoldersStay, FindUser
<1>19. ASSUME NEW c \in Callers, Ping(c)  PROVE HoldersStay
  BY <1>0, <1>19 DEF HoldersStay, Ping
<1>20. ASSUME NEW c \in Callers, Store(c)  PROVE OneHolder'
  <2>1. /\ pc[c] = "store"
        /\ pc' = [pc EXCEPT ![c] = "answer"]
        /\ issued' = issued + 1
        /\ UNCHANGED <<sent, excused>>
    BY <1>20 DEF Store
  <2>2. stored' = stored \/ stored' = stored \cup {issued'}
    BY <1>20 DEF Store
  <2>3. uses' = IF sent[c] = NoToken THEN uses ELSE [uses EXCEPT ![sent[c]] = uses[sent[c]] + 1]
    BY <1>20 DEF Store
  <2> SUFFICES ASSUME NEW t \in Tokens, t \notin excused'
               PROVE  OneHolderOf(t)'
    BY DEF OneHolder
  <2>4. OneHolderOf(t)
    BY <2>1 DEF OneHolder
  <2>5. CASE t = issued'
    <3>1. uses[t] = 0 /\ \A d \in Callers : sent[d] # t
      BY <1>0, <2>1, <2>5 DEF IssuedFirst
    <3>2. uses'[t] \in {0, 1} /\ (t \in stored' => uses'[t] = 0)
      BY <1>0, <2>3, <3>1
    <3>3. \A o \in Callers : sent'[o] = t => pc'[o] \notin Holding
      BY <2>1, <3>1
    <3>4. QED
      <4> HIDE DEF Holding
      <4>1. QED
        BY <3>2, <3>3, NoHolder
  <2>6. CASE t # issued' /\ sent[c] # t
    <3>1. uses'[t] = uses[t] /\ (t \in stored' <=> t \in stored)
      BY <1>0, <2>2, <2>3, <2>6
    <3>2. QED
      BY <1>0, <2>1, <2>4, <2>6, <3>1 DEF OneHolderOf
  <2>7. CASE t # issued' /\ sent[c] = t
    <3>1. uses[t] = 0 /\ t \notin stored
      BY <1>0, <2>1, <2>4, <2>7 DEF OneHolderOf
    <3>2. uses'[t] \in {0, 1} /\ (t \in stored' => uses'[t] = 0)
      BY <1>0, <2>2, <2>3, <2>7, <3>1
    <3>3. \A o \in Callers : sent'[o] = t => pc'[o] \notin Holding
      BY <1>0, <2>1, <2>4, <2>7 DEF OneHolderOf
    <3>4. QED
      <4> HIDE DEF Holding
      <4>1. QED
        BY <3>2, <3>3, NoHolder
  <2>8. QED
    BY <2>5, <2>6, <2>7
<1>21. ASSUME NEW c \in Callers, AnswerRefresh(c)  PROVE HoldersStay
  BY <1>0, <1>21 DEF HoldersStay, AnswerRefresh
<1>22. ASSUME NEW c \in Callers, Breaks(c)  PROVE HoldersStay
  BY <1>0, <1>22 DEF HoldersStay, Breaks
<1>23. ASSUME NEW k \in Counters, CounterExpires(k)  PROVE HoldersStay
  BY <1>0, <1>23 DEF HoldersStay, CounterExpires
<1>24. ASSUME NEW k \in Counters, BlockExpires(k)  PROVE HoldersStay
  BY <1>0, <1>24 DEF HoldersStay, BlockExpires
<1>25. ASSUME Navigate  PROVE HoldersStay
  BY <1>0, <1>25 DEF HoldersStay, Navigate
<1>26. ASSUME AccessExpires  PROVE HoldersStay
  BY <1>0, <1>26 DEF HoldersStay, AccessExpires
<1>27. ASSUME RedisFails  PROVE HoldersStay
  BY <1>0, <1>27 DEF HoldersStay, RedisFails
<1>28. ASSUME RedisReturns  PROVE HoldersStay
  BY <1>0, <1>28 DEF HoldersStay, RedisReturns
<1>29. QED
    BY <1>1, <1>2, <1>3, <1>4, <1>5, <1>6, <1>7, <1>8, <1>9, <1>10, <1>11, <1>12, <1>13,
     <1>14, <1>15, <1>16, <1>17, <1>18, <1>19, <1>20, <1>21, <1>22, <1>23, <1>24, <1>25,
     <1>26, <1>27, <1>28, <1>00 DEF Next, Tab, Server, Refresh, Callers

\* A step with which c lets go of its token, which is lost with it.
LetsGo(c) ==
  /\ \A o \in Callers \ {c} : pc'[o] = pc[o] /\ sent'[o] = sent[o]
  /\ dropped' = dropped \cup ({sent[c]} \ {NoToken})
  /\ UNCHANGED <<jar, stored>>

LEMMA LostIsDropped ==
  ASSUME SessionSurvives, NEW c \in Callers, LetsGo(c)
  PROVE  SessionSurvives'
BY DEF SessionSurvives, InHand, LetsGo

\* The session survives every step.
LEMMA StepSurvives ==
  ASSUME TypeOK, RolesFit, FreshIsOwn, SessionSurvives, [Next]_vars
  PROVE  SessionSurvives'
<1>0. /\ pc \in [Callers -> Steps]
      /\ doing \in [Callers -> Routes \cup {"logout"}]
      /\ sent \in [Callers -> Tokens \cup {NoToken}]
      /\ fresh \in [Callers -> Tokens \cup {NoToken}]
      /\ issued \in Nat \ {0} /\ stored \subseteq Tokens
      /\ jar \in [access : Access, refresh : Tokens \cup {NoToken}]
      /\ uses \in [Tokens -> Nat]
      /\ \A t \in Tokens : t \in Nat \ {0}
  BY BoundsAssumption DEF TypeOK, Tokens
<1> USE DEF FreshIsOwn, RolesFit, RoleFits, SessionSurvives, InHand, Exchanging, Cookies,
            NoToken, Without, Drop, redisVars, limitVars, callVars, boundVars, ghostVars,
            Goes, Go, Over, Keep
<1>1. CASE UNCHANGED vars
  BY <1>0, <1>1 DEF vars
<1>2. ASSUME NEW c \in Callers, LoginForm(c)  PROVE SessionSurvives'
  BY <1>0, <1>2 DEF LoginForm, Submit
<1>3. ASSUME NEW c \in Callers, RegisterForm(c)  PROVE SessionSurvives'
  BY <1>0, <1>3 DEF RegisterForm, Submit
<1>4. ASSUME NEW c \in Callers, CallFromTab(c)  PROVE SessionSurvives'
  BY <1>0, <1>4 DEF CallFromTab
<1>5. ASSUME NEW c \in Callers, CheckPassword(c)  PROVE SessionSurvives'
  BY <1>0, <1>5 DEF CheckPassword
<1>6. ASSUME NEW c \in Callers, FindEmail(c)  PROVE SessionSurvives'
  BY <1>0, <1>6 DEF FindEmail
<1>7. ASSUME NEW c \in Callers, InsertUser(c)  PROVE SessionSurvives'
  BY <1>0, <1>7 DEF InsertUser
<1>8. ASSUME NEW c \in Callers, AnswerForm(c)  PROVE SessionSurvives'
  BY <1>0, <1>8 DEF AnswerForm
<1>9. ASSUME NEW c \in Callers, CallFromServer(c)  PROVE SessionSurvives'
  BY <1>0, <1>9 DEF CallFromServer
<1>10. ASSUME NEW c \in Callers, SignOut(c)  PROVE SessionSurvives'
  BY <1>0, <1>10 DEF SignOut
<1>11. ASSUME NEW c \in Callers, RevokeAtLogout(c)  PROVE SessionSurvives'
  BY <1>0, <1>11 DEF RevokeAtLogout
<1>12. ASSUME NEW c \in Callers, ClearCookies(c)  PROVE SessionSurvives'
  BY <1>0, <1>12 DEF ClearCookies
<1>13. ASSUME NEW c \in Callers, SendRefresh(c)  PROVE SessionSurvives'
  <2>1. /\ pc[c] = "rejected"
        /\ UNCHANGED <<jar, stored, dropped>>
    BY <1>13 DEF SendRefresh
  <2>2. \A o \in Callers \ {c} : pc'[o] = pc[o] /\ sent'[o] = sent[o]
    BY <1>0, <1>13 DEF SendRefresh
  <2>3. QED
    BY <2>1, <2>2
<1>14. ASSUME NEW c \in Callers, Count(c)  PROVE SessionSurvives'
  BY <1>0, <1>14 DEF Count
<1>15. ASSUME NEW c \in Callers, Limited(c)  PROVE SessionSurvives'
  BY <1>0, <1>15 DEF Limited
<1>16. ASSUME NEW c \in Callers, Validate(c)  PROVE SessionSurvives'
  BY <1>0, <1>16 DEF Validate
<1>17. ASSUME NEW c \in Callers, Revoke(c)  PROVE SessionSurvives'
  BY <1>0, <1>17 DEF Revoke
<1>18. ASSUME NEW c \in Callers, FindUser(c)  PROVE SessionSurvives'
  BY <1>0, <1>18 DEF FindUser
<1>19. ASSUME NEW c \in Callers, Ping(c)  PROVE SessionSurvives'
  <2>1. CASE up
    BY <1>0, <1>19, <2>1 DEF Ping
  <2>2. CASE ~up
    <3>1. LetsGo(c)
      BY <1>0, <1>19, <2>2 DEF Ping, LetsGo
    <3>2. QED
      BY <3>1, LostIsDropped
  <2>3. QED
    BY <2>1, <2>2
<1>20. ASSUME NEW c \in Callers, Store(c)  PROVE SessionSurvives'
  BY <1>0, <1>20 DEF Store
<1>21. ASSUME NEW c \in Callers, AnswerRefresh(c)  PROVE SessionSurvives'
  <2>1. CASE c \in Tabs
    <3>1. jar' = [access |-> "valid", refresh |-> fresh[c]] /\ UNCHANGED <<stored, dropped>>
      BY <1>21, <2>1 DEF AnswerRefresh
    <3>2. fresh[c] \in stored \cup dropped
      BY <1>21 DEF AnswerRefresh
    <3>3. QED
      BY <3>1, <3>2
  <2>2. CASE c \notin Tabs
    <3>1. LetsGo(c)
      BY <1>0, <1>21, <2>2 DEF AnswerRefresh, LetsGo
    <3>2. QED
      BY <3>1, LostIsDropped
  <2>3. QED
    BY <2>1, <2>2
<1>22. ASSUME NEW c \in Callers, Breaks(c)  PROVE SessionSurvives'
  <2>1. CASE pc[c] \notin Exchanging
    BY <1>0, <1>22, <2>1 DEF Breaks, Serving
  <2>2. CASE pc[c] \in Exchanging
    <3>1. LetsGo(c)
      BY <1>0, <1>22, <2>2 DEF Breaks, LetsGo, Serving
    <3>2. QED
      BY <3>1, LostIsDropped
  <2>3. QED
    BY <2>1, <2>2
<1>23. ASSUME NEW k \in Counters, CounterExpires(k)  PROVE SessionSurvives'
  BY <1>0, <1>23 DEF CounterExpires
<1>24. ASSUME NEW k \in Counters, BlockExpires(k)  PROVE SessionSurvives'
  BY <1>0, <1>24 DEF BlockExpires
<1>25. CASE Navigate
  BY <1>0, <1>25 DEF Navigate
<1>26. CASE AccessExpires
  BY <1>0, <1>26 DEF AccessExpires
<1>27. CASE RedisFails
  BY <1>0, <1>27 DEF RedisFails
<1>28. CASE RedisReturns
  BY <1>0, <1>28 DEF RedisReturns
<1>29. QED
    BY <1>1, <1>2, <1>3, <1>4, <1>5, <1>6, <1>7, <1>8, <1>9, <1>10, <1>11, <1>12, <1>13,
     <1>14, <1>15, <1>16, <1>17, <1>18, <1>19, <1>20, <1>21, <1>22, <1>23, <1>24, <1>25,
     <1>26, <1>27, <1>28 DEF Next, Tab, Server, Refresh, Callers

\* What CounterEnds says of one counter.
EndIsNear(k) ==
  \/ k \in timed \cup untimed
  \/ \E c \in Callers : pc[c] = "counted" /\ CounterOf(c) = k /\ count[c] = 1

\* Steps that leave the callers alone that have been counted, and the counters.
CountedStay ==
  /\ \A o \in Callers :
       pc[o] = "counted" => pc'[o] = "counted" /\ doing'[o] = doing[o] /\ count'[o] = count[o]
  /\ timed \subseteq timed'
  /\ untimed \subseteq untimed'
  /\ hits' = hits

\* Every counter goes on having an end.
LEMMA StepCounter ==
  ASSUME TypeOK, RolesFit, CounterEnds, [Next]_vars
  PROVE  CounterEnds'
<1>0. /\ pc \in [Callers -> Steps]
      /\ count \in [Callers -> Nat]
      /\ hits \in [Counters -> Nat]
      /\ doing \in [Callers -> Routes \cup {"logout"}]
  BY DEF TypeOK
<1>00. CountedStay => CounterEnds'
  BY DEF CountedStay, CounterEnds, CounterOf
<1> USE DEF CountedStay, Serving, Exchanging, redisVars, limitVars, callVars, boundVars,
            ghostVars, Goes, Go, Over, Keep
<1>1. ASSUME UNCHANGED vars  PROVE CountedStay
  BY <1>0, <1>1 DEF vars
<1>2. ASSUME NEW c \in Callers, LoginForm(c)  PROVE CountedStay
  BY <1>0, <1>2 DEF LoginForm, Submit
<1>3. ASSUME NEW c \in Callers, RegisterForm(c)  PROVE CountedStay
  BY <1>0, <1>3 DEF RegisterForm, Submit
<1>4. ASSUME NEW c \in Callers, CallFromTab(c)  PROVE CountedStay
  BY <1>0, <1>4 DEF CallFromTab
<1>5. ASSUME NEW c \in Callers, CheckPassword(c)  PROVE CountedStay
  BY <1>0, <1>5 DEF CheckPassword
<1>6. ASSUME NEW c \in Callers, FindEmail(c)  PROVE CountedStay
  BY <1>0, <1>6 DEF FindEmail
<1>7. ASSUME NEW c \in Callers, InsertUser(c)  PROVE CountedStay
  BY <1>0, <1>7 DEF InsertUser
<1>8. ASSUME NEW c \in Callers, AnswerForm(c)  PROVE CountedStay
  BY <1>0, <1>8 DEF AnswerForm
<1>9. ASSUME NEW c \in Callers, CallFromServer(c)  PROVE CountedStay
  BY <1>0, <1>9 DEF CallFromServer
<1>10. ASSUME NEW c \in Callers, SignOut(c)  PROVE CountedStay
  BY <1>0, <1>10 DEF SignOut
<1>11. ASSUME NEW c \in Callers, RevokeAtLogout(c)  PROVE CountedStay
  BY <1>0, <1>11 DEF RevokeAtLogout
<1>12. ASSUME NEW c \in Callers, ClearCookies(c)  PROVE CountedStay
  BY <1>0, <1>12 DEF ClearCookies
<1>13. ASSUME NEW c \in Callers, SendRefresh(c)  PROVE CountedStay
  BY <1>0, <1>13 DEF SendRefresh
<1>14. ASSUME NEW c \in Callers, Count(c)  PROVE CounterEnds'
  <2> DEFINE k == CounterOf(c)
  <2>1. CASE up /\ k \in blocked
    <3>1. CountedStay
      BY <1>0, <1>14, <2>1 DEF Count
    <3>2. QED
      BY <1>00, <3>1
  <2>2. CASE ~up /\ ~(up /\ k \in blocked)
    <3>1. CountedStay
      BY <1>0, <1>14, <2>2 DEF Count
    <3>2. QED
      BY <1>00, <3>1
  <2>3. CASE up /\ ~(up /\ k \in blocked)
    <3>1. /\ pc[c] = "count"
          /\ pc' = [pc EXCEPT ![c] = "counted"]
          /\ hits' = [hits EXCEPT ![k] = hits[k] + 1]
          /\ count' = [count EXCEPT ![c] = hits'[k]]
          /\ UNCHANGED <<doing, timed, untimed>>
      BY <1>14, <2>3 DEF Count, Hit
    <3>2. k \in Counters
      BY <1>0, <3>1, CounterKnown
    <3>3. k' = k
      BY <3>1 DEF CounterOf
    <3>4. ASSUME NEW i \in Counters, hits'[i] > 0, hits[i] > 0
          PROVE  EndIsNear(i)'
      <4>1. EndIsNear(i)
        BY <3>4 DEF CounterEnds, EndIsNear
      <4>2. QED
        BY <1>0, <3>1, <4>1 DEF EndIsNear, CounterOf
    <3>5. ASSUME NEW i \in Counters, hits'[i] > 0, hits[i] = 0
          PROVE  EndIsNear(i)'
      <4>1. i = k /\ hits'[k] = 1
        <5> HIDE DEF k
        <5>1. QED
          BY <1>0, <3>1, <3>2, <3>5
      <4>2. pc'[c] = "counted" /\ count'[c] = 1 /\ CounterOf(c)' = i
        <5>1. count'[c] = hits'[k] /\ pc'[c] = "counted"
          <6> HIDE DEF k
          <6>1. QED
            BY <1>0, <3>1
        <5>2. QED
          BY <3>3, <4>1, <5>1
      <4>3. QED
        BY <4>2 DEF EndIsNear
    <3>6. QED
      BY <1>0, <3>4, <3>5 DEF CounterEnds, EndIsNear
  <2>4. QED
    BY <2>1, <2>2, <2>3
<1>15. ASSUME NEW c \in Callers, Limited(c)  PROVE CounterEnds'
  <2> DEFINE k == CounterOf(c)
  <2>1. /\ pc[c] = "counted"
        /\ timed' = IF count[c] = 1 /\ up /\ hits[k] > 0 THEN timed \cup {k} ELSE timed
        /\ untimed' = IF count[c] = 1 /\ ~up THEN untimed \cup {k} ELSE untimed
        /\ hits' = hits
    BY <1>15 DEF Limited, FirstHit
  <2>2. \A o \in Callers \ {c} : UNCHANGED <<pc[o], doing[o], count[o]>>
    BY <1>0, <1>15 DEF Limited
  <2>3. ASSUME NEW i \in Counters, hits'[i] > 0
        PROVE  EndIsNear(i)'
    <3>1. EndIsNear(i)
      BY <2>1, <2>3 DEF CounterEnds, EndIsNear
    <3>2. CASE i \in timed \cup untimed
      BY <2>1, <3>2 DEF EndIsNear
    <3>3. CASE i = k /\ count[c] = 1
      BY <2>1, <2>3, <3>3 DEF EndIsNear
    <3>4. CASE \E o \in Callers \ {c} : pc[o] = "counted" /\ CounterOf(o) = i /\ count[o] = 1
      BY <2>2, <3>4 DEF EndIsNear, CounterOf
    <3>5. QED
      BY <3>1, <3>2, <3>3, <3>4 DEF EndIsNear
  <2>4. QED
    BY <2>3 DEF CounterEnds, EndIsNear
<1>16. ASSUME NEW c \in Callers, Validate(c)  PROVE CountedStay
  BY <1>0, <1>16 DEF Validate
<1>17. ASSUME NEW c \in Callers, Revoke(c)  PROVE CountedStay
  BY <1>0, <1>17 DEF Revoke
<1>18. ASSUME NEW c \in Callers, FindUser(c)  PROVE CountedStay
  BY <1>0, <1>18 DEF FindUser
<1>19. ASSUME NEW c \in Callers, Ping(c)  PROVE CountedStay
  BY <1>0, <1>19 DEF Ping
<1>20. ASSUME NEW c \in Callers, Store(c)  PROVE CountedStay
  BY <1>0, <1>20 DEF Store
<1>21. ASSUME NEW c \in Callers, AnswerRefresh(c)  PROVE CountedStay
  BY <1>0, <1>21 DEF AnswerRefresh
<1>22. ASSUME NEW c \in Callers, Breaks(c)  PROVE CounterEnds'
  <2> DEFINE k == CounterOf(c)
  <2>1. /\ timed' = timed /\ hits' = hits
        /\ untimed \subseteq untimed'
        /\ pc[c] = "counted" /\ count[c] = 1 => k \in untimed'
    BY <1>22 DEF Breaks
  <2>2. \A o \in Callers \ {c} : UNCHANGED <<pc[o], doing[o], count[o]>>
    BY <1>0, <1>22 DEF Breaks
  <2>3. ASSUME NEW i \in Counters, hits'[i] > 0
        PROVE  EndIsNear(i)'
    <3>1. EndIsNear(i)
      BY <2>1, <2>3 DEF CounterEnds, EndIsNear
    <3>2. CASE i \in timed \cup untimed
      BY <2>1, <3>2 DEF EndIsNear
    <3>3. CASE pc[c] = "counted" /\ i = k /\ count[c] = 1
      BY <2>1, <3>3 DEF EndIsNear
    <3>4. CASE \E o \in Callers \ {c} : pc[o] = "counted" /\ CounterOf(o) = i /\ count[o] = 1
      BY <2>2, <3>4 DEF EndIsNear, CounterOf
    <3>5. QED
      BY <3>1, <3>2, <3>3, <3>4 DEF EndIsNear
  <2>4. QED
    BY <2>3 DEF CounterEnds, EndIsNear
<1>23. ASSUME NEW k \in Counters, CounterExpires(k)  PROVE CounterEnds'
  <2>1. /\ hits' = [hits EXCEPT ![k] = 0]
        /\ timed' = timed \ {k}
        /\ UNCHANGED <<pc, doing, count, untimed>>
    BY <1>23 DEF CounterExpires
  <2>2. ASSUME NEW i \in Counters, hits'[i] > 0
        PROVE  EndIsNear(i)'
    <3>1. i # k /\ hits[i] > 0
      BY <1>0, <2>1, <2>2
    <3>2. EndIsNear(i)
      BY <3>1 DEF CounterEnds, EndIsNear
    <3>3. QED
      BY <2>1, <3>1, <3>2 DEF EndIsNear, CounterOf
  <2>3. QED
    BY <2>2 DEF CounterEnds, EndIsNear
<1>24. ASSUME NEW k \in Counters, BlockExpires(k)  PROVE CountedStay
  BY <1>0, <1>24 DEF BlockExpires
<1>25. ASSUME Navigate  PROVE CountedStay
  BY <1>0, <1>25 DEF Navigate
<1>26. ASSUME AccessExpires  PROVE CountedStay
  BY <1>0, <1>26 DEF AccessExpires
<1>27. ASSUME RedisFails  PROVE CountedStay
  BY <1>0, <1>27 DEF RedisFails
<1>28. ASSUME RedisReturns  PROVE CountedStay
  BY <1>0, <1>28 DEF RedisReturns
<1>29. QED
    BY <1>1, <1>2, <1>3, <1>4, <1>5, <1>6, <1>7, <1>8, <1>9, <1>10, <1>11, <1>12, <1>13,
     <1>14, <1>15, <1>16, <1>17, <1>18, <1>19, <1>20, <1>21, <1>22, <1>23, <1>24, <1>25,
     <1>26, <1>27, <1>28, <1>00 DEF Next, Tab, Server, Refresh, Callers

-------------------------------------------------------------------------------
(* The invariant.                                                              *)

\* The initial states satisfy it.
LEMMA InitInv == Init => IInv
<1> SUFFICES ASSUME Init  PROVE IInv
  OBVIOUS
<1> USE DEF Init
<1>1. 0 \in 0..MaxRequests /\ 0 \in 0..MaxFaults /\ 1 \in Tokens
  BY BoundsAssumption DEF Tokens
<1>2. TypeOK
  <2>1. BrowserTypes
    BY <1>1 DEF BrowserTypes, Access
  <2>2. RedisTypes /\ LimitTypes /\ BoundTypes /\ GhostTypes
    BY <1>1 DEF RedisTypes, LimitTypes, BoundTypes, GhostTypes
  <2>3. CallTypes
    BY <1>1 DEF CallTypes, NoToken, Routes, Steps
  <2>4. QED
    BY <2>1, <2>2, <2>3, TypeParts
<1>3. OncePerRequest
  <2>1. In(pc, Uncounted) = {} /\ In(pc, Unserved) = {}
    BY DEF In, Uncounted, Unserved, Serving, Exchanging
  <2>2. Cardinality(In(pc, Uncounted)) = 0 /\ Cardinality(In(pc, Unserved)) = 0
    BY <2>1, FS_EmptySet
  <2>3. QED
    BY <2>2 DEF OncePerRequest
<1>4. RolesFit
  BY DEF RolesFit, RoleFits, NoToken
<1>5. IssuedFirst
  BY DEF IssuedFirst, NoToken
<1>6. FreshIsOwn
  BY DEF FreshIsOwn
<1>7. OneHolder
  BY DEF OneHolder, OneHolderOf, Holding
<1>8. SessionSurvives /\ CounterEnds
  BY DEF SessionSurvives, CounterEnds
<1>9. QED
  BY <1>2, <1>3, <1>4, <1>5, <1>6, <1>7, <1>8 DEF IInv

\* Every step keeps it.
LEMMA StepInv ==
  ASSUME IInv, [Next]_vars
  PROVE  IInv'
<1> USE DEF IInv
<1>1. RolesFit'
  BY StepRoles
<1>2. OncePerRequest'
  BY StepOnce
<1>3. TypeOK'
  <2>1. BoundTypes'
    BY StepBounds
  <2>2. RedisTypes' /\ LimitTypes'
    BY <1>2, <2>1, StepRedis, StepLimit
  <2>3. BrowserTypes' /\ CallTypes' /\ GhostTypes'
    BY <2>2, StepBrowser, StepCalls, StepGhosts
  <2>4. QED
    BY <2>1, <2>2, <2>3 DEF TypeOK, BrowserTypes, RedisTypes, LimitTypes, CallTypes,
        BoundTypes, GhostTypes
<1>4. IssuedFirst' /\ FreshIsOwn'
  BY StepIssued, StepFresh
<1>5. OneHolder'
  BY StepHolder
<1>6. SessionSurvives' /\ CounterEnds'
  BY StepSurvives, StepCounter
<1>7. QED
  BY <1>1, <1>2, <1>3, <1>4, <1>5, <1>6

\* The invariant holds in every state.
LEMMA Invariance == Spec => []IInv
BY InitInv, StepInv, PTL DEF Spec

-------------------------------------------------------------------------------
(* The theorems.                                                               *)

\* Every variable keeps its type; no request is counted twice or gets two tokens
\* (redis-throttler.storage.ts:35, token.service.ts:30).
THEOREM TypeCorrect == Spec => []TypeOK
<1>1. IInv => TypeOK
  BY DEF IInv
<1>2. QED
  BY <1>1, Invariance, PTL

\* However many pages and servers refresh one session, the browser holds no refresh token
\* that is worth nothing, unless its successor was lost on the server or by a failure
\* (auth.service.ts:65, api-client.ts:81).
THEOREM SessionsSurvive == Spec => []SessionSurvives
<1>1. IInv => SessionSurvives
  BY DEF IInv
<1>2. QED
  BY <1>1, Invariance, PTL

\* A refresh token is spent once, unless two had looked it up before it was deleted, or the
\* delete failed unnoticed (auth.service.ts:59-65, redis.service.ts:66).
THEOREM TokensSpentOnce == Spec => []SpentOnce
<1>1. IInv => SpentOnce
  BY DEF IInv, TypeOK, OneHolder, OneHolderOf, SpentOnce
<1>2. QED
  BY <1>1, Invariance, PTL

\* Every counter of the throttler has an end, unless the one EXPIRE that gives it one was
\* lost (redis-throttler.storage.ts:35).
THEOREM CountersEnd == Spec => []CounterEnds
<1>1. IInv => CounterEnds
  BY DEF IInv
<1>2. QED
  BY <1>1, Invariance, PTL

===============================================================================
