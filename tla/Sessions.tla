------------------------------- MODULE Sessions -------------------------------
(***************************************************************************)
(* The session of one user: the two cookies of a browser, the refresh      *)
(* tokens in Redis, and who uses them: pages in the browser and the server *)
(* of Next call the api through apiClient, which answers a 401 with a      *)
(* refresh; forms register and sign in; a server action signs out.  The    *)
(* throttler stands in front of the three routes of AuthController that    *)
(* issue tokens, and keeps its counters in the same Redis.                 *)
(*                                                                         *)
(* A refresh token is good for one exchange: refresh() looks it up, deletes*)
(* it, reads the user, and issues a new pair.  Nothing holds a lock over   *)
(* these steps.  The seven days after which a token lapses are left out.   *)
(***************************************************************************)
EXTENDS Naturals, FiniteSets

CONSTANTS
  Tabs,         \* callers in the browser, which share its cookies
  Servers,      \* renderings and server actions of Next
  Limit,        \* Limit[r]: requests that route r admits in a minute
  MaxRequests,  \* bound: requests that may end with a new token, and sign-outs
  MaxFaults     \* bound: outages of Redis, crashes of the api, database errors

Routes  == {"register", "login", "refresh"}
Callers == Tabs \cup Servers

\* The counters of the throttler: a route, and who calls it.  PerUserThrottlerGuard runs
\* before JwtAuthGuard has set req.user, so that it is always the address: that of the
\* browser, or that of the server of Next.
Tracker(c) == IF c \in Tabs THEN "browser" ELSE "next"
Counters   == (Routes \X {"browser"}) \cup {<<"refresh", "next">>}

ASSUME CallersAssumption == IsFiniteSet(Callers) /\ Tabs \cap Servers = {}
ASSUME LimitAssumption == Limit \in [Routes -> Nat \ {0}]
ASSUME BoundsAssumption == MaxRequests \in Nat /\ MaxFaults \in Nat

VARIABLES
  jar,        \* the cookies of the browser
  page,       \* what the browser shows: "app", or the form "login"
  account,    \* APP_USERS has the row of the user
  issued,     \* refresh tokens made so far
  stored,     \* the refresh tokens that Redis holds
  up,         \* Redis answers
  hits,       \* hits[k]: the key throttle:hit of counter k
  timed,      \* the counters that have a time to live
  blocked,    \* the counters with a key throttle:block
  pc,         \* pc[c]: the next step of caller c
  doing,      \* doing[c]: the route c has called, or "logout"
  sent,       \* sent[c]: the refresh token c has sent
  fresh,      \* fresh[c]: the refresh token c is to be answered
  count,      \* count[c]: what the throttler has counted for c
  requests,   \* requests so far
  faults,     \* faults so far
  dropped,    \* ghost: tokens lost with the answer or by the failure that cost them
  excused,    \* ghost: tokens two callers had in hand at once, or not deleted
  uses,       \* ghost: uses[t]: how often t was exchanged or signed out with
  untimed     \* ghost: counters whose EXPIRE was lost

redisVars  == <<issued, stored, up>>
limitVars  == <<hits, timed, blocked>>
callVars   == <<pc, doing, sent, fresh, count>>
boundVars  == <<requests, faults>>
ghostVars  == <<dropped, excused, uses, untimed>>
vars == <<jar, page, account, issued, stored, up, hits, timed, blocked, pc, doing, sent, fresh,
          count, requests, faults, dropped, excused, uses, untimed>>

--------------------------------------------------------------------------------
(* Data.                                                                      *)

NoToken == 0
Tokens  == 1..(MaxRequests + 1)

\* The access cookie: accepted by the api; sent by the browser but refused by the
\* api (its JWT has expired or was signed with a secret that is gone); or absent.
Access == {"valid", "refused", "gone"}

\* Where a refresh has deleted its token and has not answered yet.
Exchanging == {"find user", "ping", "store", "answer"}
Serving    == {"count", "counted", "password", "find email", "insert", "validate",
               "revoke"} \cup Exchanging
Steps      == {"idle", "rejected", "sign out", "clear"} \cup Serving

TypeOK ==
  /\ jar \in [access : Access, refresh : Tokens \cup {NoToken}]
  /\ page \in {"app", "login"}
  /\ account \in BOOLEAN
  /\ issued \in Tokens
  /\ stored \subseteq Tokens
  /\ up \in BOOLEAN
  /\ hits \in [Counters -> 0..MaxRequests]
  /\ timed \subseteq Counters
  /\ blocked \subseteq Counters
  /\ pc \in [Callers -> Steps]
  /\ doing \in [Callers -> Routes \cup {"logout"}]
  /\ sent \in [Callers -> Tokens \cup {NoToken}]
  /\ fresh \in [Callers -> Tokens \cup {NoToken}]
  /\ count \in [Callers -> 0..MaxRequests]
  /\ requests \in 0..MaxRequests
  /\ faults \in 0..MaxFaults
  /\ dropped \subseteq Tokens
  /\ excused \subseteq Tokens
  /\ uses \in [Tokens -> Nat]
  /\ untimed \subseteq Counters

\* A user who is signed in with token 1, or one who has no account yet.
Init ==
  /\ account \in BOOLEAN
  /\ jar = IF account THEN [access |-> "valid", refresh |-> 1]
                      ELSE [access |-> "gone", refresh |-> NoToken]
  /\ page = IF account THEN "app" ELSE "login"
  /\ issued = 1
  /\ stored = IF account THEN {1} ELSE {}
  /\ up = TRUE
  /\ hits = [k \in Counters |-> 0]
  /\ timed = {}
  /\ blocked = {}
  /\ pc = [c \in Callers |-> "idle"]
  /\ doing = [c \in Callers |-> "refresh"]
  /\ sent = [c \in Callers |-> NoToken]
  /\ fresh = [c \in Callers |-> NoToken]
  /\ count = [c \in Callers |-> 0]
  /\ requests = 0
  /\ faults = 0
  /\ dropped = {}
  /\ excused = {}
  /\ uses = [t \in Tokens |-> 0]
  /\ untimed = {}

--------------------------------------------------------------------------------
(* Steps of a caller.                                                         *)

Go(c, next) == pc' = [pc EXCEPT ![c] = next]

Goes(c, from, to) ==
  /\ pc[c] = from
  /\ Go(c, to)

\* The call is over, with an answer or with an error.
Over(c) ==
  /\ Go(c, "idle")
  /\ doing' = [doing EXCEPT ![c] = "refresh"]
  /\ sent' = [sent EXCEPT ![c] = NoToken]
  /\ fresh' = [fresh EXCEPT ![c] = NoToken]
  /\ count' = [count EXCEPT ![c] = 0]

Keep == UNCHANGED <<doing, sent, fresh, count>>

Request ==
  /\ requests < MaxRequests
  /\ requests' = requests + 1

Drop(t) == dropped' = dropped \cup ({t} \ {NoToken})

--------------------------------------------------------------------------------
(* The browser.                                                               *)

\* middleware: a page of the application needs the access cookie, whatever the
\* refresh cookie could still be exchanged for; the forms are for those without it.
Navigate ==
  /\ \/ page = "app" /\ jar.access = "gone" /\ page' = "login"
     \/ page = "login" /\ jar.access # "gone" /\ page' = "app"
  /\ UNCHANGED <<jar, account, redisVars, limitVars, callVars, boundVars, ghostVars>>

\* Fifteen minutes pass: the JWT expires, and about then its cookie.
AccessExpires ==
  /\ \/ jar.access = "valid" /\ jar' = [jar EXCEPT !.access = "refused"]
     \/ jar.access = "refused" /\ jar' = [jar EXCEPT !.access = "gone"]
  /\ UNCHANGED <<page, account, redisVars, limitVars, callVars, boundVars, ghostVars>>

\* A form posts to the api; its button is disabled until the answer is there.
Submit(c, r) ==
  /\ page = "login"
  /\ Request
  /\ Goes(c, "idle", "count")
  /\ doing' = [doing EXCEPT ![c] = r]
  /\ UNCHANGED <<jar, page, account, redisVars, limitVars, sent, fresh, count, faults,
                 ghostVars>>

LoginForm(c)    == Submit(c, "login")
RegisterForm(c) == Submit(c, "register")

\* apiClient in a page: the request is refused with 401; the browser will attach the
\* cookies it then has to the refresh.
CallFromTab(c) ==
  /\ page = "app"
  /\ jar.access # "valid"
  /\ Request
  /\ Goes(c, "idle", "rejected")
  /\ Keep
  /\ UNCHANGED <<jar, page, account, redisVars, limitVars, faults, ghostVars>>

\* apiClient on the server: getCookieHeader reads the cookies of the incoming request,
\* which the middleware has let through, before the first call.
CallFromServer(c) ==
  /\ page = "app"
  /\ jar.access = "refused"
  /\ Request
  /\ Goes(c, "idle", "rejected")
  /\ sent' = [sent EXCEPT ![c] = jar.refresh]
  /\ UNCHANGED <<jar, page, account, redisVars, limitVars, doing, fresh, count, faults,
                 ghostVars>>

\* The second fetch of request(): POST /auth/refresh.
SendRefresh(c) ==
  /\ Goes(c, "rejected", "count")
  /\ IF c \in Tabs THEN sent' = [sent EXCEPT ![c] = jar.refresh] ELSE UNCHANGED sent
  /\ UNCHANGED <<jar, page, account, redisVars, limitVars, doing, fresh, count, boundVars,
                 ghostVars>>

--------------------------------------------------------------------------------
(* The throttler, which runs before the handler.  Its Redis fails open.       *)

\* Faulty Hit: the increment is sent twice.
HitTwice(n) == n + 2

\* INCR.
Hit(n) == n + 1

CounterOf(c) == <<doing[c], Tracker(c)>>

\* increment, to the counter: a blocked route answers 429; else one more hit.
Count(c) ==
  LET k == CounterOf(c) IN
  /\ pc[c] = "count"
  /\ IF up /\ k \in blocked
     THEN Over(c) /\ UNCHANGED hits
     ELSE /\ Go(c, "counted")
          /\ hits' = IF up THEN [hits EXCEPT ![k] = Hit(hits[k])] ELSE hits
          /\ count' = [count EXCEPT ![c] = IF up THEN hits'[k] ELSE 0]
          /\ UNCHANGED <<doing, sent, fresh>>
  /\ UNCHANGED <<jar, page, account, redisVars, timed, blocked, boundVars, ghostVars>>

\* Faulty FirstHit: the counter is given its time to live when the limit is met.
LastHit(n, k) == n = Limit[k[1]]

\* Only the request that has counted 1 sets the time to live of the counter.
FirstHit(n, k) == n = 1

\* The first step of the handler, for what the request carries.
Handler(c) == CASE doing[c] = "login"    -> "password"
                [] doing[c] = "register" -> "find email"
                [] doing[c] = "refresh"  -> "validate"

\* increment, the rest: EXPIRE, and above the limit the key that blocks the route.
Limited(c) ==
  LET k == CounterOf(c)
      first == FirstHit(count[c], k)
      over == count[c] > Limit[doing[c]] IN
  /\ pc[c] = "counted"
  /\ timed' = IF first /\ up /\ hits[k] > 0 THEN timed \cup {k} ELSE timed
  /\ untimed' = IF first /\ ~up THEN untimed \cup {k} ELSE untimed
  /\ blocked' = IF over /\ up THEN blocked \cup {k} ELSE blocked
  /\ IF over \/ (doing[c] = "refresh" /\ sent[c] = NoToken)
     THEN Over(c)
     ELSE Go(c, Handler(c)) /\ Keep
  /\ UNCHANGED <<jar, page, account, redisVars, hits, boundVars, dropped, excused, uses>>

\* Redis removes the counter; the block, set later for as long, goes after it.
CounterExpires(k) ==
  /\ k \in timed
  /\ timed' = timed \ {k}
  /\ hits' = [hits EXCEPT ![k] = 0]
  /\ UNCHANGED <<jar, page, account, redisVars, blocked, callVars, boundVars, ghostVars>>

BlockExpires(k) ==
  /\ k \in blocked \ timed
  /\ blocked' = blocked \ {k}
  /\ UNCHANGED <<jar, page, account, redisVars, hits, timed, callVars, boundVars,
                 ghostVars>>

--------------------------------------------------------------------------------
(* AuthService.                                                               *)

\* login: the account must exist and the password fit.
CheckPassword(c) ==
  /\ pc[c] = "password"
  /\ \/ account /\ Go(c, "ping") /\ Keep
     \/ Over(c)
  /\ UNCHANGED <<jar, page, account, redisVars, limitVars, boundVars, ghostVars>>

\* register: findByEmail, and 409 for an address that is known.
FindEmail(c) ==
  /\ pc[c] = "find email"
  /\ IF account THEN Over(c) ELSE Go(c, "insert") /\ Keep
  /\ UNCHANGED <<jar, page, account, redisVars, limitVars, boundVars, ghostVars>>

\* register: the insert, which the unique address refuses to the second of two.
InsertUser(c) ==
  /\ pc[c] = "insert"
  /\ IF account THEN Over(c) ELSE Go(c, "ping") /\ Keep
  /\ account' = TRUE
  /\ UNCHANGED <<jar, page, redisVars, limitVars, boundVars, ghostVars>>

\* refresh: the token is looked up; a miss, also of a Redis that is down, is a 401.
Validate(c) ==
  /\ pc[c] = "validate"
  /\ IF up /\ sent[c] \in stored
     THEN /\ Go(c, "revoke")
          /\ Keep
          /\ excused' = IF \E o \in Callers : pc[o] = "revoke" /\ sent[o] = sent[c]
                        THEN excused \cup {sent[c]} ELSE excused
     ELSE Over(c) /\ UNCHANGED excused
  /\ UNCHANGED <<jar, page, account, redisVars, limitVars, boundVars, dropped, uses, untimed>>

\* Faulty Without: the token that was exchanged stays in Redis.
WithOld(tokens, t) == tokens

\* revokeRefreshToken: DEL.
Without(tokens, t) == tokens \ {t}

\* refresh: the delete comes before the new pair; redis.del swallows its failure.
Revoke(c) ==
  /\ Goes(c, "revoke", "find user")
  /\ Keep
  /\ stored' = IF up THEN Without(stored, sent[c]) ELSE stored
  /\ excused' = IF up THEN excused ELSE excused \cup {sent[c]}
  /\ UNCHANGED <<jar, page, account, issued, up, limitVars, boundVars, dropped, uses, untimed>>

\* refresh: the user is read; a database error leaves the caller without a token.
FindUser(c) ==
  /\ pc[c] = "find user"
  /\ \/ /\ Go(c, "ping")
        /\ Keep
        /\ UNCHANGED <<faults, dropped>>
     \/ /\ faults < MaxFaults
        /\ faults' = faults + 1
        /\ Drop(sent[c])
        /\ Over(c)
  /\ UNCHANGED <<jar, page, account, redisVars, limitVars, requests, excused, uses, untimed>>

\* issueTokenPair: Redis must answer PING ...
Ping(c) ==
  /\ pc[c] = "ping"
  /\ IF up THEN Go(c, "store") /\ Keep /\ UNCHANGED dropped
           ELSE Over(c) /\ Drop(sent[c])
  /\ UNCHANGED <<jar, page, account, redisVars, limitVars, boundVars, excused, uses, untimed>>


\* ... and then the token is stored; redis.set swallows its failure, and the token is
\* handed out all the same.
Store(c) ==
  /\ Goes(c, "store", "answer")
  /\ issued' = issued + 1
  /\ stored' = IF up THEN stored \cup {issued'} ELSE stored
  /\ dropped' = IF up THEN dropped ELSE dropped \cup {issued'}
  /\ fresh' = [fresh EXCEPT ![c] = issued']
  /\ uses' = IF sent[c] = NoToken THEN uses ELSE [uses EXCEPT ![sent[c]] = @ + 1]
  /\ UNCHANGED <<jar, page, account, up, limitVars, doing, sent, count, boundVars, excused,
                 untimed>>

\* Faulty Cookies: the answer brings the access cookie only.
AccessOnly(old, t) == [access |-> "valid", refresh |-> old]

\* setAuthCookies.
Cookies(old, t) == [access |-> "valid", refresh |-> t]

\* A form is answered: the browser takes the cookies and goes on to the page.
AnswerForm(c) ==
  /\ pc[c] = "answer"
  /\ doing[c] # "refresh"
  /\ jar' = Cookies(jar.refresh, fresh[c])
  /\ page' = "app"
  /\ Over(c)
  /\ UNCHANGED <<account, redisVars, limitVars, boundVars, ghostVars>>

\* A refresh is answered.  The browser takes the cookies and retries with them.  On the
\* server the new cookies are thrown away with the response: the retry sends the old
\* ones, and the token of the browser is spent.
AnswerRefresh(c) ==
  /\ pc[c] = "answer"
  /\ doing[c] = "refresh"
  /\ IF c \in Tabs
     THEN jar' = Cookies(jar.refresh, fresh[c]) /\ UNCHANGED dropped
     ELSE Drop(sent[c]) /\ UNCHANGED jar
  /\ Over(c)
  /\ UNCHANGED <<page, account, redisVars, limitVars, boundVars, excused, uses, untimed>>

--------------------------------------------------------------------------------
(* Signing out: logoutAction, a server action of Next.                        *)

\* The cookie is read; with one the api is called, without one it is not.
SignOut(c) ==
  /\ page = "app"
  /\ Request
  /\ sent' = [sent EXCEPT ![c] = jar.refresh]
  /\ doing' = [doing EXCEPT ![c] = "logout"]
  /\ Goes(c, "idle", IF jar.refresh = NoToken THEN "clear" ELSE "sign out")
  /\ UNCHANGED <<jar, page, account, redisVars, limitVars, fresh, count, faults, ghostVars>>

\* POST /auth/logout deletes the token.  The action goes on when the call fails.
RevokeAtLogout(c) ==
  /\ Goes(c, "sign out", "clear")
  /\ Keep
  /\ \/ /\ up
        /\ stored' = stored \ {sent[c]}
        /\ excused' = IF \E o \in Callers : pc[o] = "revoke" /\ sent[o] = sent[c]
                      THEN excused \cup {sent[c]} ELSE excused
        /\ UNCHANGED faults
     \/ /\ \/ ~up /\ UNCHANGED faults
           \/ faults < MaxFaults /\ faults' = faults + 1
        /\ excused' = excused \cup {sent[c]}
        /\ UNCHANGED stored
  /\ uses' = IF sent[c] \in stored THEN [uses EXCEPT ![sent[c]] = @ + 1] ELSE uses
  /\ UNCHANGED <<jar, page, account, issued, up, limitVars, requests, dropped, untimed>>

\* Both cookies are removed, whatever they hold by now.
ClearCookies(c) ==
  /\ pc[c] = "clear"
  /\ jar' = [access |-> "gone", refresh |-> NoToken]
  /\ page' = "login"
  /\ Over(c)
  /\ UNCHANGED <<account, redisVars, limitVars, boundVars, ghostVars>>

--------------------------------------------------------------------------------
(* Faults.                                                                    *)

\* The process that serves c dies, or the connection breaks: c gets no answer.
Breaks(c) ==
  /\ pc[c] \in Serving
  /\ faults < MaxFaults
  /\ faults' = faults + 1
  /\ IF pc[c] \in Exchanging THEN Drop(sent[c]) ELSE UNCHANGED dropped
  /\ untimed' = IF pc[c] = "counted" /\ count[c] = 1 THEN untimed \cup {CounterOf(c)}
                                                     ELSE untimed
  /\ Over(c)
  /\ UNCHANGED <<jar, page, account, redisVars, limitVars, requests, excused, uses>>

\* Redis stops answering, keeps its data, and answers again.
RedisFails ==
  /\ up
  /\ faults < MaxFaults
  /\ faults' = faults + 1
  /\ up' = FALSE
  /\ UNCHANGED <<jar, page, account, issued, stored, limitVars, callVars, requests, ghostVars>>

RedisReturns ==
  /\ ~up
  /\ up' = TRUE
  /\ UNCHANGED <<jar, page, account, issued, stored, limitVars, callVars, boundVars, ghostVars>>

--------------------------------------------------------------------------------

Tab(c) ==
  \/ LoginForm(c)
  \/ RegisterForm(c)
  \/ CallFromTab(c)
  \/ CheckPassword(c)
  \/ FindEmail(c)
  \/ InsertUser(c)
  \/ AnswerForm(c)

Server(c) == CallFromServer(c) \/ SignOut(c) \/ RevokeAtLogout(c) \/ ClearCookies(c)

Refresh(c) ==
  \/ SendRefresh(c)
  \/ Count(c)
  \/ Limited(c)
  \/ Validate(c)
  \/ Revoke(c)
  \/ FindUser(c)
  \/ Ping(c)
  \/ Store(c)
  \/ AnswerRefresh(c)
  \/ Breaks(c)

Next ==
  \/ \E c \in Tabs : Tab(c)
  \/ \E c \in Servers : Server(c)
  \/ \E c \in Callers : Refresh(c)
  \/ \E k \in Counters : CounterExpires(k) \/ BlockExpires(k)
  \/ Navigate \/ AccessExpires \/ RedisFails \/ RedisReturns

Spec == Init /\ [][Next]_vars

--------------------------------------------------------------------------------
(* Properties.                                                                *)

\* Someone is exchanging or deleting token t right now.
InHand(t) == \E c \in Callers : sent[c] = t /\ pc[c] \in Exchanging \cup {"clear"}

\* A browser never holds a refresh token that is worth nothing, whatever its pages, its
\* server and its sign-outs do at the same time: the token is in Redis, or a call that has
\* it in hand will replace it, or its one successor was lost: to a refresh made on the
\* server, whose cookies go nowhere, to a failure after the delete, or to a SET that failed
\* unnoticed (auth.service.ts:65, token.service.ts:30, api-client.ts:81).
SessionSurvives ==
  jar.refresh # NoToken =>
    jar.refresh \in stored \cup dropped \/ InHand(jar.refresh)

\* A refresh token buys one new session or one sign-out, and nothing after that: unless a
\* second caller looked it up before the first deleted it, or the delete failed unnoticed
\* (auth.service.ts:59-65, redis.service.ts:66).
SpentOnce ==
  \A t \in Tokens : uses[t] > 1 => t \in excused

\* The counter of a route always has a time to live, or is about to get it: without one it
\* only grows, and the route is blocked again with every request, for ever.  Nothing repairs
\* an EXPIRE that was lost (redis-throttler.storage.ts:35).
CounterEnds ==
  \A k \in Counters :
    hits[k] > 0 =>
      \/ k \in timed \cup untimed
      \/ \E c \in Callers : pc[c] = "counted" /\ CounterOf(c) = k /\ count[c] = 1

================================================================================
