--------------------------- MODULE CredentialPool ---------------------------
(***************************************************************************)
(* The credential pool under any traffic and any operators.  Requests run  *)
(* the critical sections of acquire_context and of the report_* family in  *)
(* any order; operators run the Admin API, each call of which is a chain   *)
(* of critical sections that the others may interleave with.               *)
(***************************************************************************)
EXTENDS CredentialEntries

CONSTANTS Operator,   \* concurrent callers of the Admin API
          Request     \* concurrent requests

VARIABLES admin,      \* how far each operator's call has come
          picked      \* a request's selection not yet stored in current_id

vars == <<pool, entry, current, admin, picked>>

(***************************************************************************)
(* The rest of a call, by the critical section it still owes:              *)
(*   disable        set_disabled(true), having seen another current_id     *)
(*   disableCurrent the same, having seen this credential as current_id    *)
(*   switch         persist, then switch_to_next                           *)
(*   select         select_highest_priority of set_priority                *)
(*   reselect       select_highest_priority of delete_credential           *)
(*   dropIfEmpty    the current_id reset of delete_credential              *)
(*   persist        persist_credentials, which leaves the table alone      *)
(***************************************************************************)
Stage == {"idle", "disable", "disableCurrent", "switch", "select", "reselect",
          "dropIfEmpty", "persist"}

Idle == [stage |-> "idle", cred |-> NoId]

Goto(o, stage) == admin' = [admin EXCEPT ![o] = [stage |-> stage, cred |-> NoId]]

Init ==
  /\ TableInit
  /\ admin = [o \in Operator |-> Idle]
  /\ picked = [r \in Request |-> NoId]

TypeOK ==
  /\ TableTypeOK
  /\ admin \in [Operator -> [stage: Stage, cred: Cred \cup {NoId}]]
  /\ picked \in [Request -> Cred \cup {NoId}]

-----------------------------------------------------------------------------
(* Requests. *)

Outcome(c) ==
  \/ ReportSuccess(c)
  \/ ReportFailure(c)
  \/ ReportQuotaExhausted(c)
  \/ ReportRateLimited(c)
  \/ ReportRefreshFailure(c)
  \/ ReportRefreshTokenInvalid(c)
  \/ TokenObtained(c)
  \/ \E p \in Priority : WriteBack(c, p) \/ ForceRefreshed(c, p)

Traffic ==
  /\ \/ SweepRateLimited
     \/ Heal
     \/ \E c \in Cred : Outcome(c)
  /\ UNCHANGED <<admin, picked>>

\* select_next_credential; the result is stored by a later critical section.
Pick(r, c) ==
  /\ picked[r] = NoId
  /\ c \in Serving
  /\ picked' = [picked EXCEPT ![r] = c]
  /\ UNCHANGED <<pool, entry, current, admin>>

StoreCurrent(r) ==
  /\ picked[r] # NoId
  /\ current' = picked[r]
  /\ picked' = [picked EXCEPT ![r] = NoId]
  /\ UNCHANGED <<pool, entry, admin>>

Tick(c) == Elapse(c) /\ UNCHANGED <<admin, picked>>

-----------------------------------------------------------------------------
(* Operators. *)

\* AdminService::set_disabled reads current_id from a snapshot first.
BeginDisable(o, c) ==
  /\ admin[o] = Idle
  /\ admin' = [admin EXCEPT ![o] =
                 [stage |-> IF current = c THEN "disableCurrent" ELSE "disable",
                  cred |-> c]]
  /\ UNCHANGED <<pool, entry, current, picked>>

FinishDisable(o) ==
  /\ admin[o].stage \in {"disable", "disableCurrent"}
  /\ \/ /\ SetDisabled(admin[o].cred)
        /\ Goto(o, IF admin[o].stage = "disable" THEN "persist" ELSE "switch")
     \/ /\ admin[o].cred \notin pool      \* the credential does not exist: Err
        /\ Goto(o, "idle")
        /\ UNCHANGED tableVars
  /\ UNCHANGED picked

\* set_disabled(false), reset_and_enable and add_credential: one critical
\* section that touches the table, then the write to the file.
Enabling(o, c) ==
  /\ admin[o] = Idle
  /\ \/ SetEnabled(c)
     \/ ResetAndEnable(c)
     \/ \E p \in Priority : AddCredential(c, p)
  /\ Goto(o, "persist")
  /\ UNCHANGED picked

Reprioritise(o, c, p) ==
  /\ admin[o] = Idle
  /\ SetPriority(c, p)
  /\ Goto(o, "select")
  /\ UNCHANGED picked

\* set_max_concurrency replaces the semaphore, which is no part of this table.
SetMaxConcurrency(o, c) ==
  /\ admin[o] = Idle
  /\ c \in pool
  /\ Goto(o, "persist")
  /\ UNCHANGED <<pool, entry, current, picked>>

Delete(o, c) ==
  /\ admin[o] = Idle
  /\ DeleteCredential(c)
  /\ Goto(o, IF current = c THEN "reselect" ELSE "dropIfEmpty")
  /\ UNCHANGED picked

Select(o) ==
  /\ admin[o].stage \in {"select", "reselect"}
  /\ SelectHighestPriority
  /\ Goto(o, IF admin[o].stage = "select" THEN "persist" ELSE "dropIfEmpty")
  /\ UNCHANGED picked

DropIfEmpty(o) ==
  /\ admin[o].stage = "dropIfEmpty"
  /\ ResetCurrentIfEmpty
  /\ Goto(o, "persist")
  /\ UNCHANGED picked

Switch(o) ==
  /\ admin[o].stage = "switch"
  /\ SwitchToNext
  /\ Goto(o, "idle")
  /\ UNCHANGED picked

\* The file is written, or the write fails; a failed write before a switch
\* returns the error without switching.
Persist(o) ==
  /\ admin[o].stage \in {"persist", "switch"}
  /\ Goto(o, "idle")
  /\ UNCHANGED <<pool, entry, current, picked>>

\* The calls that work on the table.
Edit(o) ==
  \/ \E c \in Cred : BeginDisable(o, c) \/ Enabling(o, c) \/ Delete(o, c)
  \/ \E c \in Cred, p \in Priority : Reprioritise(o, c, p)
  \/ FinishDisable(o) \/ Select(o) \/ DropIfEmpty(o) \/ Switch(o) \/ Persist(o)

Administer(o) == Edit(o) \/ \E c \in Cred : SetMaxConcurrency(o, c)

Next ==
  \/ Traffic
  \/ \E r \in Request, c \in Cred : Pick(r, c)
  \/ \E r \in Request : StoreCurrent(r)
  \/ \E c \in Cred : Tick(c)
  \/ \E o \in Operator : Administer(o)

Spec == Init /\ [][Next]_vars

-----------------------------------------------------------------------------
(* Properties. *)

(* A credential is out of service exactly when a reason for it is on       *)
(* record, and a rate-limited one has a deadline: without one the sweep    *)
(* would revive it at once (disabled_until.unwrap_or(true)).               *)
ReasonOnRecord ==
  \A c \in pool :
    /\ entry[c].disabled <=> entry[c].reason # "None"
    /\ entry[c].reason = "RateLimited" => entry[c].until # "none"

(* No credential is handed out with a failure counter at the threshold,    *)
(* whichever way it came back into service: cooldown sweep, self-healing,  *)
(* late success or an operator.                                            *)
ThresholdEnforced ==
  \A c \in Serving :
    entry[c].failures < MaxFailures /\ entry[c].refreshFailures < MaxFailures

(* A credential disabled by an operator, for its quota, its refresh token  *)
(* or its configuration is not touched by traffic: it stays out, and the   *)
(* reason is not overwritten, until an operator's own step.                *)
OnlyOperatorLifts ==
  [][\A c \in pool :
       entry[c].reason \in Latched /\ entry'[c].reason # entry[c].reason
         => \E o \in Operator : admin'[o] # admin[o]]_vars

(* The pool implements the lifecycle it promises for each credential:      *)
(* traffic withdraws one serving credential at a time and brings back only *)
(* rested ones and tripped ones.                                           *)
StatusOf(e) ==
  CASE ~e.disabled -> "serving"
    [] e.disabled /\ e.reason = "TooManyFailures" -> "tripped"
    [] e.disabled /\ e.reason = "RateLimited" ->
         IF e.until = "pending" THEN "cooling" ELSE "rested"
    [] OTHER -> "latched"

StatusMap == [c \in Cred |-> IF c \in pool THEN StatusOf(entry[c]) ELSE "absent"]

Working == {o \in Operator : admin[o] # Idle}

Lifecycle == INSTANCE CredentialLifecycle WITH status <- StatusMap, working <- Working

ImplementsLifecycle == Lifecycle!Spec
=============================================================================
