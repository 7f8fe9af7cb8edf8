------------------------------ MODULE Dispatch ------------------------------
(***************************************************************************)
(* One upstream call in full: the attempts of call_api_with_retry (and of  *)
(* call_mcp_with_retry), each of which acquires a credential through the   *)
(* loop of acquire_context_with_session_and_group, holds one of its        *)
(* permits, obtains a token, sends, and reports the answer to the pool.    *)
(*                                                                         *)
(* Several requests run this loop at once on the table of CredentialPool,  *)
(* between the calls of its operators.  Every critical section of the      *)
(* `entries` mutex, and every await, is a step of its own, named by the    *)
(* value of `pc` from which it is taken.                                   *)
(*                                                                         *)
(* Abstracted: the usage counts of the balanced mode and the timestamps of *)
(* the affinity mode (any credential that they could favour is chosen),    *)
(* lengths of sleeps, and the refresh lock (a token request is one await). *)
(***************************************************************************)
EXTENDS CredentialPool, FiniteSets

CONSTANTS
  Allowed,              \* request -> the credentials of its group (all without one)
  Opus,                 \* requests for an opus model
  Paid,                 \* credentials whose subscription supports opus
  Mcp,                  \* requests of call_mcp_with_retry
  Session,              \* conversation ids
  SessionOf,            \* request -> its conversation, or NoId
  Mode,                 \* load balancing modes in use
  Limit,                \* concurrency limits that operators may set
  MaxConcurrency,       \* config.credential.max_concurrency, the default limit
  RetriesPerCredential, \* config.retry.max_retries_per_credential
  MaxTotalRetries       \* config.retry.max_total_retries

ASSUME DispatchAssumption ==
  /\ IsFiniteSet(Cred)
  /\ Allowed \in [Request -> SUBSET Cred]
  /\ Opus \subseteq Request /\ Paid \subseteq Cred
  /\ Mcp \subseteq Request
  /\ NoId \notin Session /\ SessionOf \in [Request -> Session \cup {NoId}]
  /\ \A r \in Mcp : Allowed[r] = Cred /\ r \notin Opus /\ SessionOf[r] = NoId
  /\ Mode \subseteq {"priority", "balanced", "affinity"} /\ Mode # {}
  /\ Limit \subseteq Nat /\ MaxConcurrency \in Limit
  /\ RetriesPerCredential \in Nat /\ MaxTotalRetries \in Nat

VARIABLES mode,     \* load_balancing_mode
          primary,  \* affinity_map: session -> credential, NoId before the first
          cap,      \* permits of the semaphore of each credential
          stray,    \* requests whose permit is of a semaphore since replaced
          req       \* the local variables of each request

dvars == <<pool, entry, current, admin, picked, mode, primary, cap, stray, req>>

(***************************************************************************)
(* pc is the step a request takes next:                                    *)
(*   sweep      top of the acquire loop                                    *)
(*   affinity   select_by_session_affinity                                 *)
(*   current    the credential under current_id, if it will do             *)
(*   select, reselect   select_next_credential, before and after healing   *)
(*   heal       the self-healing that follows an empty selection           *)
(*   store      current_id is set to the selection                         *)
(*   count      nothing was selected: wait for a permit, or give up        *)
(*   permit     try_acquire_owned                                          *)
(*   token, obtained, unrefreshed, revoked   try_ensure_token, its success *)
(*              and its two kinds of failure                               *)
(*   send, force, backoff   waiting for the answer, for a forced refresh,  *)
(*              for the delay before the next attempt                      *)
(***************************************************************************)
Pc == {"idle", "sweep", "affinity", "current", "select", "heal", "reselect",
       "store", "count", "permit", "token", "obtained", "unrefreshed",
       "revoked", "send", "force", "backoff"}

AtRest == [pc |-> "idle", cred |-> NoId, attempt |-> 0, budget |-> 0,
           tries |-> 0, limit |-> 0, busy |-> {}, hinted |-> FALSE, forced |-> {}]

Local == [pc: Pc, cred: Cred \cup {NoId},
          attempt: Nat, budget: Nat,      \* of the call
          tries: Nat, limit: Nat,         \* attempt_count, max_attempts of the acquire
          busy: SUBSET Cred,              \* busy_ids
          hinted: BOOLEAN,                \* session_affinity_tried
          forced: SUBSET Cred]            \* force_refreshed

Become(r, q) == req' = [req EXCEPT ![r] = q]

GoOn(r, pc) == Become(r, [req[r] EXCEPT !.pc = pc])

Smaller(m, n) == IF m < n THEN m ELSE n
Larger(m, n) == IF m < n THEN n ELSE m

\* A permit is held from its acquisition until the attempt is over.
Using(r) == req[r].pc \in {"token", "obtained", "send", "force", "backoff"}

Holders(c) == {r \in Request : Using(r) /\ req[r].cred = c /\ r \notin stray}

\* Mutation of Eligible: `disabled` is not tested.
EligibleDisabledToo(r) ==
  {c \in pool : /\ r \in Opus => c \in Paid
                /\ c \notin req[r].busy
                /\ c \in Allowed[r]}

\* The filter shared by both selections.
Eligible(r) ==
  {c \in Serving : /\ r \in Opus => c \in Paid
                   /\ c \notin req[r].busy
                   /\ c \in Allowed[r]}

\* Mutation of AfterAttempt: the attempt is not counted.
AfterUncountedAttempt(q) ==
  IF q.attempt + 1 < q.budget
    THEN [AtRest EXCEPT !.pc = "sweep", !.attempt = q.attempt,
                        !.budget = q.budget, !.forced = q.forced]
    ELSE AtRest

\* The attempt is over, without an answer for the caller: the next one begins
\* with a new acquire, or the call fails with its last error.
AfterAttempt(q) ==
  IF q.attempt + 1 < q.budget
    THEN [AtRest EXCEPT !.pc = "sweep", !.attempt = q.attempt + 1,
                        !.budget = q.budget, !.forced = q.forced]
    ELSE AtRest

NextAttempt(r) == Become(r, AfterAttempt(req[r]))

Answer(r) == Become(r, AtRest)

\* The acquire returns: its local variables are gone.
Acquired(r) ==
  Become(r, [req[r] EXCEPT !.pc = "send", !.tries = 0, !.limit = 0, !.busy = {},
                           !.hinted = FALSE])

\* The acquire loop goes round once more.
TryAgain(r, busy, hinted) ==
  LET q == req[r]
  IN  Become(r, [q EXCEPT !.pc = "sweep", !.cred = NoId, !.tries = q.tries + 1,
                          !.busy = busy, !.hinted = hinted])

-----------------------------------------------------------------------------
(* The acquire loop. *)

Begin(r) ==
  /\ req[r].pc = "idle"
  /\ LET budget == Smaller(Cardinality(pool) * RetriesPerCredential, MaxTotalRetries)
     IN  /\ budget > 0       \* otherwise the call fails at once
         /\ Become(r, [AtRest EXCEPT !.pc = "sweep", !.budget = budget])
  /\ UNCHANGED <<pool, entry, current, admin, picked, mode, primary>>

\* Too many rounds end the acquire; otherwise expired cooldowns are lifted and
\* the mode decides where to look first.
Sweep(r) ==
  LET q     == req[r]
      limit == IF q.tries = 0 THEN Larger(Cardinality(pool) * MaxFailures, 1)
                              ELSE q.limit
      start == CASE mode = "balanced" -> "select"
                 [] mode = "affinity" /\ ~q.hinted /\ SessionOf[r] # NoId -> "affinity"
                 [] OTHER -> "current"
  IN  /\ q.pc = "sweep"
      /\ IF q.tries >= limit
           THEN NextAttempt(r) /\ UNCHANGED tableVars
           ELSE /\ SweepRateLimited
                /\ Become(r, [q EXCEPT !.pc = start, !.limit = limit,
                                       !.hinted = @ \/ mode = "affinity"])
      /\ UNCHANGED <<admin, picked, mode, primary>>

\* A mapping older than its time to live counts as absent.
Affinity(r) ==
  LET s == SessionOf[r] IN
  /\ req[r].pc = "affinity"
  /\ \/ /\ Eligible(r) = {}
        /\ GoOn(r, "current")
        /\ UNCHANGED primary
     \/ \E known \in {primary[s], NoId} :
        \E c \in IF known \in Eligible(r) THEN {known} ELSE Best(Eligible(r)) :
           /\ primary' = [primary EXCEPT ![s] = c]
           /\ Become(r, [req[r] EXCEPT !.pc = "permit", !.cred = c])
  /\ UNCHANGED <<pool, entry, current, admin, picked, mode>>

\* Mutation of Current: the group is not looked at either.
CurrentOfAnyGroup(r) ==
  /\ req[r].pc = "current"
  /\ IF current \in Serving \ req[r].busy
       THEN Become(r, [req[r] EXCEPT !.pc = "permit", !.cred = current])
       ELSE GoOn(r, "select")
  /\ UNCHANGED <<pool, entry, current, admin, picked, mode, primary>>

\* The subscription of the current credential is not looked at.
Current(r) ==
  /\ req[r].pc = "current"
  /\ IF current \in (Serving \cap Allowed[r]) \ req[r].busy
       THEN Become(r, [req[r] EXCEPT !.pc = "permit", !.cred = current])
       ELSE GoOn(r, "select")
  /\ UNCHANGED <<pool, entry, current, admin, picked, mode, primary>>

\* Mutation of SelectNext: the selection is used without being stored.
SelectNextUnstored(r) ==
  /\ req[r].pc \in {"select", "reselect"}
  /\ \/ /\ Eligible(r) = {}
        /\ GoOn(r, IF req[r].pc = "select" THEN "heal" ELSE "count")
        /\ UNCHANGED picked
     \/ \E c \in IF mode = "balanced" THEN Eligible(r) ELSE Best(Eligible(r)) :
           /\ picked' = [picked EXCEPT ![r] = c]
           /\ Become(r, [req[r] EXCEPT !.pc = "permit", !.cred = c])
  /\ UNCHANGED <<pool, entry, current, admin, mode, primary>>

SelectNext(r) ==
  /\ req[r].pc \in {"select", "reselect"}
  /\ \/ /\ Eligible(r) = {}
        /\ GoOn(r, IF req[r].pc = "select" THEN "heal" ELSE "count")
        /\ UNCHANGED picked
     \/ \E c \in IF mode = "balanced" THEN Eligible(r) ELSE Best(Eligible(r)) :
           /\ picked' = [picked EXCEPT ![r] = c]
           /\ GoOn(r, "store")
  /\ UNCHANGED <<pool, entry, current, admin, mode, primary>>

\* Mutation of HealAll: `all` for `any` in the test for tripped credentials.
HealOnlyIfAllTripped(r) ==
  /\ req[r].pc = "heal"
  /\ \/ Tripped = pool /\ Heal /\ GoOn(r, "reselect")
     \/ Tripped # pool /\ GoOn(r, "count") /\ UNCHANGED tableVars
  /\ UNCHANGED <<admin, picked, mode, primary>>

\* Mutation of HealAll: the reason is not tested, everything comes back.
HealEverything(r) ==
  /\ req[r].pc = "heal"
  /\ entry' = [c \in Cred |-> IF c \in pool THEN [Enable(entry[c]) EXCEPT !.failures = 0]
                                            ELSE entry[c]]
  /\ UNCHANGED <<pool, current>>
  /\ GoOn(r, "reselect")
  /\ UNCHANGED <<admin, picked, mode, primary>>

HealAll(r) ==
  /\ req[r].pc = "heal"
  /\ \/ Heal /\ GoOn(r, "reselect")
     \/ Tripped = {} /\ GoOn(r, "count") /\ UNCHANGED tableVars
  /\ UNCHANGED <<admin, picked, mode, primary>>

Store(r) ==
  /\ req[r].pc = "store"
  /\ current' = picked[r]
  /\ picked' = [picked EXCEPT ![r] = NoId]
  /\ Become(r, [req[r] EXCEPT !.pc = "permit", !.cred = picked[r]])
  /\ UNCHANGED <<pool, entry, admin, mode, primary>>

\* Every credential in scope serves but is known to be busy: sleep, forget
\* who was busy, go round again.  Otherwise the acquire fails.
Count(r) ==
  LET scope == Serving \cap Allowed[r] IN
  /\ req[r].pc = "count"
  /\ IF scope # {} /\ scope \subseteq req[r].busy
       THEN TryAgain(r, {}, req[r].hinted)
       ELSE NextAttempt(r)
  /\ UNCHANGED <<pool, entry, current, admin, picked, mode, primary>>

Permit(r) ==
  LET q == req[r] IN
  /\ q.pc = "permit"
  /\ IF q.cred \in pool /\ Cardinality(Holders(q.cred)) < cap[q.cred]
       THEN GoOn(r, "token")
       ELSE TryAgain(r, q.busy \cup {q.cred}, q.hinted /\ q.cred \notin pool)
  /\ UNCHANGED <<pool, entry, current, admin, picked, mode, primary>>

-----------------------------------------------------------------------------
(* The token. *)

\* An API key needs nothing; otherwise the token is fresh already, or refreshed
\* and stored, or could not be had (the permit is dropped).
EnsureToken(r) ==
  LET c == req[r].cred IN
  /\ req[r].pc = "token"
  /\ \/ Acquired(r) /\ UNCHANGED tableVars
     \/ GoOn(r, "obtained") /\ UNCHANGED tableVars
     \/ GoOn(r, "obtained") /\ \E p \in Priority : WriteBack(c, p)
     \/ GoOn(r, "unrefreshed") /\ UNCHANGED tableVars
     \/ GoOn(r, "revoked") /\ UNCHANGED tableVars
  /\ UNCHANGED <<admin, picked, mode, primary>>

TokenReady(r) ==
  /\ req[r].pc = "obtained"
  /\ TokenObtained(req[r].cred)
  /\ Acquired(r)
  /\ UNCHANGED <<admin, picked, mode, primary>>

\* invalid_grant condemns the credential, any other failure is counted.
TokenFailed(r) ==
  LET q == req[r] IN
  /\ q.pc \in {"unrefreshed", "revoked"}
  /\ IF q.pc = "revoked" THEN ReportRefreshTokenInvalid(q.cred)
                         ELSE ReportRefreshFailure(q.cred)
  /\ IF Serving' # {} THEN TryAgain(r, q.busy, q.hinted) ELSE NextAttempt(r)
  /\ UNCHANGED <<admin, picked, mode, primary>>

-----------------------------------------------------------------------------
(* The answer of the upstream. *)

\* The report has been made; nobody left to fail over to ends the call.
FailOverOrFail(r) == IF Serving' # {} THEN NextAttempt(r) ELSE Answer(r)

Succeed(r) == ReportSuccess(req[r].cred) /\ Answer(r)

\* 400 and the other 4xx, and a client that cannot be built.
Reject(r) == Answer(r) /\ UNCHANGED tableVars

QuotaGone(r) == ReportQuotaExhausted(req[r].cred) /\ FailOverOrFail(r)

\* 429; a tool call takes it for a transient error instead.
Throttle(r) == r \notin Mcp /\ ReportRateLimited(req[r].cred) /\ FailOverOrFail(r)

Deny(r) == ReportFailure(req[r].cred) /\ FailOverOrFail(r)

\* The token is said to be invalid: refresh it, once per credential and call.
StaleToken(r) ==
  /\ req[r].cred \notin req[r].forced
  /\ Become(r, [req[r] EXCEPT !.pc = "force", !.forced = @ \cup {req[r].cred}])
  /\ UNCHANGED tableVars

\* The credential names an endpoint that does not exist.
NoEndpoint(r) == ReportFailure(req[r].cred) /\ NextAttempt(r)

\* Network errors, 408, 5xx and anything unknown: another attempt after a delay.
Transient(r) ==
  /\ IF req[r].attempt + 1 < req[r].budget THEN GoOn(r, "backoff") ELSE NextAttempt(r)
  /\ UNCHANGED tableVars

Send(r) ==
  /\ req[r].pc = "send"
  /\ \/ Succeed(r) \/ Reject(r) \/ QuotaGone(r) \/ Throttle(r) \/ Deny(r)
     \/ StaleToken(r) \/ NoEndpoint(r) \/ Transient(r)
  /\ UNCHANGED <<admin, picked, mode, primary>>

ForceRefresh(r) ==
  /\ req[r].pc = "force"
  /\ \/ (\E p \in Priority : ForceRefreshed(req[r].cred, p)) /\ NextAttempt(r)
     \/ Deny(r)
  /\ UNCHANGED <<admin, picked, mode, primary>>

Backoff(r) ==
  /\ req[r].pc = "backoff"
  /\ NextAttempt(r)
  /\ UNCHANGED <<pool, entry, current, admin, picked, mode, primary>>

-----------------------------------------------------------------------------
(* The next step of a request that has begun. *)
Step(r) ==
  \/ Sweep(r) \/ Affinity(r) \/ Current(r) \/ SelectNext(r) \/ HealAll(r)
  \/ Store(r) \/ Count(r) \/ Permit(r)
  \/ EnsureToken(r) \/ TokenReady(r) \/ TokenFailed(r)
  \/ Send(r) \/ ForceRefresh(r) \/ Backoff(r)

\* Requests leave the semaphores alone but for the permits they take and drop.
PermitsOnly ==
  /\ stray' = {r \in stray : Using(r)'}
  /\ UNCHANGED cap

(***************************************************************************)
(* The operators.  delete_credential drops the semaphore with the entry,   *)
(* add_credential makes one, set_max_concurrency replaces it: whoever      *)
(* holds a permit of the old one keeps it, and the new one starts full.    *)
(***************************************************************************)
Operate(o) ==
  /\ Edit(o)
  /\ stray' = {r \in Request : Using(r) /\ (r \in stray \/ req[r].cred \notin pool')}
  /\ cap' = [c \in Cred |-> IF c \in pool' \ pool THEN MaxConcurrency ELSE cap[c]]
  /\ UNCHANGED <<mode, primary, req>>

Resize(o, c, n) ==
  /\ SetMaxConcurrency(o, c)
  /\ stray' = stray \cup Holders(c)
  /\ cap' = [cap EXCEPT ![c] = n]
  /\ UNCHANGED <<mode, primary, req>>

SetMode(m) ==
  /\ m # mode
  /\ mode' = m
  /\ UNCHANGED <<pool, entry, current, admin, picked, primary, cap, stray, req>>

Cooldown(c) == Tick(c) /\ UNCHANGED <<mode, primary, cap, stray, req>>

\* A token renewed through the Admin API: to query a balance, or by force.
Renew(c) ==
  /\ \E p \in Priority : WriteBack(c, p) \/ ForceRefreshed(c, p)
  /\ UNCHANGED <<admin, picked, mode, primary, cap, stray, req>>

DispatchInit ==
  /\ Init
  /\ mode \in Mode
  /\ primary = [s \in Session |-> NoId]
  /\ cap \in [Cred -> Limit]
  /\ stray = {}
  /\ req = [r \in Request |-> AtRest]

DispatchNext ==
  \/ \E r \in Request : (Begin(r) \/ Step(r)) /\ PermitsOnly
  \/ \E o \in Operator : Operate(o)
  \/ \E o \in Operator, c \in Cred, n \in Limit : Resize(o, c, n)
  \/ \E m \in Mode : SetMode(m)
  \/ \E c \in Cred : Cooldown(c) \/ Renew(c)

\* The runtime polls every task that can go on, and every await of a request
\* ends: a sleep by itself, a call to the upstream at the latest by its timeout.
Fairness == \A r \in Request : WF_dvars(Step(r) /\ PermitsOnly)

DispatchSpec == DispatchInit /\ [][DispatchNext]_dvars /\ Fairness

-----------------------------------------------------------------------------
(* Properties. *)

(* The variables have their types, and a selection is pending exactly      *)
(* between select_next_credential and the store to current_id.             *)
DispatchTypeOK ==
  /\ TypeOK
  /\ mode \in Mode
  /\ primary \in [Session -> Cred \cup {NoId}]
  /\ cap \in [Cred -> Limit] /\ stray \subseteq Request
  /\ req \in [Request -> Local]
  /\ \A r \in Request : picked[r] # NoId <=> req[r].pc = "store"

(* A request bound to a group holds permits and sends only on the          *)
(* credentials of its group, whichever of the four ways it was given one:  *)
(* session affinity, current_id, selection, selection after healing.       *)
GroupIsolation == \A r \in Request : Using(r) => req[r].cred \in Allowed[r]

(* The loop changes the table only in the ways CredentialPool allows, so   *)
(* all that holds of the pool holds under it.                              *)
ImplementsPool == Spec

(* Every call is answered, whatever the upstream, the other requests and   *)
(* the operators do: busy credentials, failed refreshes and failed         *)
(* acquires all consume a bounded budget.                                  *)
Answered == \A r \in Request : req[r].pc # "idle" ~> req[r].pc = "idle"

(* An outage that the program can lift itself ends with the next request:  *)
(* when nothing serves but some credential has cooled down or was tripped  *)
(* by failures, a call that begins puts a credential back into service.    *)
Curable == \E c \in Cred : StatusMap[c] \in {"rested", "tripped"}

Recovers ==
  \A r \in Request :
    (req[r].pc = "sweep" /\ req[r].attempt = 0 /\ req[r].tries = 0
       /\ Serving = {} /\ Curable)
      ~> (Serving # {} \/ ~Curable)

(* "for an opus model a paid subscription is needed": such a request is    *)
(* sent on supporting credentials only.  (What the code does differs.)     *)
OpusOnPaid == \A r \in Opus : Using(r) => req[r].cred \in Paid

(* The self-healing is for the case that all credentials were disabled     *)
(* automatically: failures are forgiven only while nothing serves.  (What  *)
(* the code does differs.)                                                 *)
HealWhenAllOut ==
  [][(\E c \in Cred : StatusMap[c] = "tripped" /\ StatusMap'[c] = "serving")
       /\ admin' = admin => Serving = {}]_dvars
=============================================================================
