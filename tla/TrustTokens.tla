------------------------------ MODULE TrustTokens ------------------------------
(***************************************************************************)
(* One trust token: a guest link at TrustID, a row of TRUST_TOKENS, the    *)
(* verdict that Redis caches for an hour, and the guest's page, which      *)
(* polls (TrustIdController.createGuestLink, TrustService,                 *)
(* TrustController, app/trust/[trustId]/page.tsx).                         *)
(*                                                                         *)
(* validateTrustToken, approve and deny read the cache, then the row, and  *)
(* then write the row by its id and after it the cache, each an await of   *)
(* its own.  TrustID's callbacks write the row at any time and with any status *)
(* they know (TrustIdPipeline says which and when); they never touch the   *)
(* cache.  A paid Checkout session approves the token it names: a job of the   *)
(* Stripe pipeline calls approve, and the job may be run again.            *)
(*                                                                         *)
(* Abstracted: the JWT (valid until the deadline), QR codes, e-mails, the  *)
(* audit entries (AuditService.log never throws) and the copy of a file to *)
(* S3 that follows an approval, whose failure is swallowed.                *)
(***************************************************************************)
EXTENDS Naturals

CONSTANT
  Requests   \* requests that carry the token

VARIABLES
  making,    \* the next step of the creation
  links,     \* the containers that TrustID has made for the token
  resource,  \* RESOURCE_ID: the container the token is found by, or another id
  row,       \* STATUS of the row, "none" before it is inserted
  cache,     \* trust:status:<token> in Redis
  late,      \* the token's time is over
  kind,      \* kind[r]: "poll" (GET /trust/:trustId), "approve", "deny", or
             \* "checkout" (a job for checkout.session.completed)
  step,      \* step[r]: the next step of request r
  found,     \* found[r]: the status that request r has read and will pass on
  page,      \* the status in the state of the guest's page
  polling,   \* its interval is set
  written,   \* history: the statuses the row has had
  settled,   \* history: a verdict was written, and TrustID has not spoken since
  barred     \* history: barred[r]: settled, when request r began, and ever since

makingVars  == <<making, links, resource>>
requestVars == <<kind, step, found>>
pageVars    == <<page, polling>>
ghostVars   == <<settled, barred>>
vars == <<making, links, resource, row, cache, late, kind, step, found, page,
          polling, written, settled, barred>>

Active  == {"pending", "submitted"}
Final   == {"approved", "denied", "expired"}
Status  == Active \cup Final
Containers == {"first", "second"}

RequestStep ==
  {"idle", "cache", "row", "expire", "store", "status", "recheck", "write",
   "publish", "yes", "no", "error", "shown"}

TypeOK ==
  /\ making \in {"first", "second", "insert", "done", "failed"}
  /\ links \subseteq Containers
  /\ resource \in {"none", "first", "other"}
  /\ row \in Status \cup {"none"}
  /\ cache \in Final \cup {"none"}
  /\ late \in BOOLEAN
  /\ kind \in [Requests -> {"none", "poll", "approve", "deny", "checkout"}]
  /\ step \in [Requests -> RequestStep]
  /\ found \in [Requests -> Status \cup {"none"}]
  /\ page \in Status \cup {"loading", "invalid"}
  /\ polling \in BOOLEAN
  /\ written \subseteq Status
  /\ settled \in BOOLEAN
  /\ barred \in [Requests -> BOOLEAN]

\* POST /trustid/guest-link makes a link first; POST /trust/tokens goes straight to
\* generateTrustToken.
Init ==
  /\ making \in {"first", "second"}
  /\ links = {} /\ resource = "none"
  /\ row = "none" /\ cache = "none" /\ late = FALSE
  /\ kind = [r \in Requests |-> "none"]
  /\ step = [r \in Requests |-> "idle"]
  /\ found = [r \in Requests |-> "none"]
  /\ page = "loading" /\ polling = TRUE
  /\ written = {} /\ settled = FALSE
  /\ barred = [r \in Requests |-> FALSE]

-------------------------------------------------------------------------------

GoTo(r, next) == step' = [step EXCEPT ![r] = next]

VerdictOf(r) == IF kind[r] = "deny" THEN "denied" ELSE "approved"

\* Faulty WhenValid: a poll, too, is taken for an answer of the controller.
WhenValidUntyped(r) == IF kind[r] = "poll" THEN "answer" ELSE "recheck"

\* Where a valid token leads: a poll reads the status (and so does a request for the link
\* of a guest), a verdict reads the row again.
WhenValid(r) == IF kind[r] = "poll" THEN "status" ELSE "recheck"

\* updateStatus: by the id alone, whatever the row says now.
SetRow(status) ==
  /\ row' = status
  /\ written' = written \cup {status}

\* RedisService.get: a call that fails is a miss.
Get == {cache, "none"}

\* RedisService.set: a call that fails is logged, and the caller goes on.
Put(status) == cache' \in {cache, status}

\* Faulty Recheck: the token was just validated, its row is not read again.
RecheckTrusting(r) ==
  /\ step[r] = "recheck"
  /\ GoTo(r, "write")
  /\ UNCHANGED <<makingVars, row, cache, late, kind, found, pageVars, written, ghostVars>>

\* Faulty Store: what makes a token invalid is cached as a denial.
StoreDenial(r) ==
  /\ step[r] = "store"
  /\ cache' = "denied"
  /\ GoTo(r, "no")
  /\ UNCHANGED <<makingVars, row, late, kind, found, pageVars, written, ghostVars>>

-------------------------------------------------------------------------------
(* The creation of the token.                                                  *)

UnchangedByMaking ==
  UNCHANGED <<cache, late, requestVars, pageVars, ghostVars>>

\* The controller makes a guest link ...
FirstLink ==
  /\ making = "first"
  /\ links' = links \cup {"first"}
  /\ making' = "second"
  /\ UNCHANGED <<resource, row, written>>
  /\ UnchangedByMaking

\* ... and answers 500 when that fails.
FirstLinkFails ==
  /\ making = "first"
  /\ making' = "failed"
  /\ UNCHANGED <<links, resource, row, written>>
  /\ UnchangedByMaking

\* generateTrustToken makes a guest link as well; without one it falls back to a
\* link of its own.
SecondLink ==
  /\ making = "second"
  /\ links' \in {links, links \cup {"second"}}
  /\ making' = "insert"
  /\ UNCHANGED <<resource, row, written>>
  /\ UnchangedByMaking

\* RESOURCE_ID is what the caller asked for, else the container of the first link.
InsertToken ==
  /\ making = "insert"
  /\ resource' \in {"other"} \cup (links \cap {"first"})
  /\ SetRow("pending")
  /\ making' = "done"
  /\ UNCHANGED links
  /\ UnchangedByMaking

InsertTokenFails ==
  /\ making = "insert"
  /\ making' = "failed"
  /\ UNCHANGED <<links, resource, row, written>>
  /\ UnchangedByMaking

-------------------------------------------------------------------------------
(* validateTrustToken.                                                         *)

\* The JWT is verified first; it expires with the token.
Validate(r) ==
  /\ GoTo(r, IF late THEN "no" ELSE "cache")
  /\ barred' = [barred EXCEPT ![r] = settled]
  /\ UNCHANGED <<makingVars, row, cache, late, found, pageVars, written, settled>>

\* A request arrives with the token.
Begin(r) ==
  /\ step[r] = "idle"
  /\ making = "done"
  /\ \E k \in {"approve", "deny"} \cup (IF polling THEN {"poll"} ELSE {}) :
       kind' = [kind EXCEPT ![r] = k]
  /\ Validate(r)

\* A job handles a completed session whose metadata names the token: it approves.
SessionCompleted(r) ==
  /\ step[r] = "idle"
  /\ making = "done"
  /\ kind' = [kind EXCEPT ![r] = "checkout"]
  /\ Validate(r)

\* The job is run again: it failed, or the event could not be marked processed.
SessionRedelivered(r) ==
  /\ kind[r] = "checkout"
  /\ step[r] \in {"yes", "no", "error"}
  /\ Validate(r)
  /\ UNCHANGED kind

\* A cached approval is valid, a cached end of another kind is not.
ReadCache(r) ==
  /\ step[r] = "cache"
  /\ \E hit \in Get :
       GoTo(r, CASE hit = "approved"              -> WhenValid(r)
                 [] hit \in {"denied", "expired"} -> "no"
                 [] OTHER                         -> "row")
  /\ UNCHANGED <<makingVars, row, cache, late, kind, found, pageVars, written, ghostVars>>

\* findByTokenHash.
ReadRow(r) ==
  /\ step[r] = "row"
  /\ found' = [found EXCEPT ![r] = IF row \in Final THEN row ELSE @]
  /\ GoTo(r, CASE row \in Final -> "store"
               [] late          -> "expire"
               [] OTHER         -> WhenValid(r))
  /\ UNCHANGED <<makingVars, row, cache, late, kind, pageVars, written, ghostVars>>

Expire(r) ==
  /\ step[r] = "expire"
  /\ SetRow("expired")
  /\ found' = [found EXCEPT ![r] = "expired"]
  /\ GoTo(r, "store")
  /\ UNCHANGED <<makingVars, cache, late, kind, pageVars, ghostVars>>

Store(r) ==
  /\ step[r] = "store"
  /\ Put(found[r])
  /\ GoTo(r, "no")
  /\ UNCHANGED <<makingVars, row, late, kind, found, pageVars, written, ghostVars>>

-------------------------------------------------------------------------------
(* What a valid token is used for.                                             *)

\* getTokenStatus verifies the JWT again; on any error the answer says pending.
ReadStatus(r) ==
  /\ step[r] = "status"
  /\ \E status \in {"pending"} \cup (IF late THEN {} ELSE {row}) :
       found' = [found EXCEPT ![r] = status]
  /\ GoTo(r, "yes")
  /\ UNCHANGED <<makingVars, row, cache, late, kind, pageVars, written, ghostVars>>

Recheck(r) ==
  /\ step[r] = "recheck"
  /\ GoTo(r, IF row \in Active THEN "write" ELSE "no")
  /\ UNCHANGED <<makingVars, row, cache, late, kind, found, pageVars, written, ghostVars>>

Write(r) ==
  /\ step[r] = "write"
  /\ SetRow(VerdictOf(r))
  /\ settled' = TRUE
  /\ GoTo(r, "publish")
  /\ UNCHANGED <<makingVars, cache, late, kind, found, pageVars, barred>>

Publish(r) ==
  /\ step[r] = "publish"
  /\ Put(VerdictOf(r))
  /\ GoTo(r, "yes")
  /\ UNCHANGED <<makingVars, row, late, kind, found, pageVars, written, ghostVars>>

\* The database fails, or the process dies: validateTrustToken answers null, the rest
\* answers 500.
Fail(r) ==
  /\ step[r] \in {"cache", "row", "expire", "store", "recheck", "write", "publish"}
  /\ GoTo(r, IF step[r] \in {"recheck", "write", "publish"} THEN "error" ELSE "no")
  /\ UNCHANGED <<makingVars, row, cache, late, kind, found, pageVars, written, ghostVars>>

\* The page shows what a poll answered, or that there is no answer, and polls on
\* only while it shows pending.  An earlier poll may be answered later.
Show(r) ==
  /\ kind[r] = "poll" /\ step[r] \in {"yes", "no"}
  /\ page' \in (IF step[r] = "yes" THEN {found[r]} ELSE {}) \cup {"invalid"}
  /\ polling' = (polling /\ page' = "pending")
  /\ GoTo(r, "shown")
  /\ UNCHANGED <<makingVars, row, cache, late, kind, found, written, ghostVars>>

\* What the page shows: an expired link looks like an invalid one, and only a pending
\* token offers the guest link.
Screen ==
  CASE page = "loading"                           -> "skeleton"
    [] page \in {"submitted", "approved", "denied"} -> page
    [] page \in {"invalid", "expired"}             -> "gone"
    [] page = "pending"                           -> "upload"

PassDeadline ==
  /\ ~late
  /\ late' = TRUE
  /\ UNCHANGED <<makingVars, row, cache, requestVars, pageVars, written, ghostVars>>

\* An hour is over, or Redis has evicted the key.
CacheExpires ==
  /\ cache # "none"
  /\ cache' = "none"
  /\ UNCHANGED <<makingVars, row, late, requestVars, pageVars, written, ghostVars>>

\* A callback or a job writes the row of the token that its container leads to.
TrustIdWrites ==
  /\ row # "none" /\ resource \in links
  /\ \E status \in Status \ {"expired"} : SetRow(status)
  /\ settled' = FALSE
  /\ barred' = [r \in Requests |-> FALSE]
  /\ UNCHANGED <<makingVars, cache, late, requestVars, pageVars>>

-------------------------------------------------------------------------------

\* createGuestLink and generateTrustToken, as a whole.
CreateToken ==
  \/ FirstLink
  \/ FirstLinkFails
  \/ SecondLink
  \/ InsertToken
  \/ InsertTokenFails

\* validateTrustToken, as a whole.
ValidateTrustToken(r) ==
  \/ Begin(r)
  \/ SessionCompleted(r)
  \/ SessionRedelivered(r)
  \/ ReadCache(r)
  \/ ReadRow(r)
  \/ Expire(r)
  \/ Store(r)

\* approve and deny after the validation; the handler of a Checkout session calls
\* approve as well.
Decide(r) == Recheck(r) \/ Write(r) \/ Publish(r)

Next ==
  \/ CreateToken
  \/ \E r \in Requests :
       \/ ValidateTrustToken(r)
       \/ Decide(r)
       \/ ReadStatus(r)
       \/ Fail(r)
       \/ Show(r)
  \/ PassDeadline
  \/ CacheExpires
  \/ TrustIdWrites

Spec == Init /\ [][Next]_vars

-------------------------------------------------------------------------------
(* Properties.                                                                 *)

\* What Redis and the guest's page say about the token was said by the row at some
\* time, in whatever order reads, writes and answers pass each other (the cache is
\* written after the row, by whoever read it or wrote it).  Only of a link that is
\* gone the page may be wrong: it says so as well when it got no answer.
BelievedWasTrue ==
  /\ cache # "none" => cache \in written
  /\ Screen \in Status => Screen \in written
  /\ Screen = "upload" => "pending" \in written

\* validateTrustToken: "Returns null if invalid, expired, or already used".  After a
\* verdict no request that begins later gets another one through, unless TrustID has
\* changed the status in between: a cached approval alone is not enough, as the row
\* is read again.
SettledOnce ==
  \A r \in Requests :
    barred[r] /\ kind[r] # "poll" => step[r] \notin {"write", "publish", "yes"}
===============================================================================
