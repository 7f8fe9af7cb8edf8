------------------------- MODULE CredentialEntries -------------------------
(***************************************************************************)
(* The credential table of MultiTokenManager and the critical sections     *)
(* that work on it (src/kiro/token_manager.rs).                            *)
(*                                                                         *)
(* Every operator below that primes a variable is ONE critical section of  *)
(* the `entries` mutex (with `current_id` taken inside it where the code   *)
(* does so).  Which thread runs them, and in which order, is the business  *)
(* of the modules that extend this one: CredentialPool (any request, any   *)
(* operator) and Dispatch (the request loop in full).                      *)
(*                                                                         *)
(* Abstracted: the order of the Vec (ties between equal priorities are     *)
(* broken either way), the payload of a credential, and the wall clock (a  *)
(* cooldown deadline is "pending" until it passes and "due" afterwards).   *)
(***************************************************************************)
EXTENDS Integers

CONSTANTS Cred,         \* credential ids that can ever exist
          NoId,         \* the id 0 that no credential bears
          Priority,     \* priorities an operator may assign; smaller is better
          MaxFailures   \* config.credential.max_failures

ASSUME EntriesAssumption ==
  /\ NoId \notin Cred
  /\ Priority \subseteq Nat /\ Priority # {}
  /\ MaxFailures \in Nat \ {0}

VARIABLES pool,     \* ids present in the table
          entry,    \* the CredentialEntry of each id (meaningful inside pool)
          current   \* current_id

tableVars == <<pool, entry, current>>

\* DisabledReason, and "None" for Option::None.
Reason == {"None", "Manual", "TooManyFailures", "TooManyRefreshFailures",
           "QuotaExceeded", "RateLimited", "InvalidRefreshToken",
           "InvalidConfig"}

\* Reasons that no automatic step is meant to lift.
Latched == Reason \ {"None", "TooManyFailures", "RateLimited"}

Entry == [disabled: BOOLEAN, reason: Reason, until: {"none", "pending", "due"},
          failures: 0..MaxFailures, refreshFailures: 0..MaxFailures,
          priority: Priority]

Fresh(p) == [disabled |-> FALSE, reason |-> "None", until |-> "none",
             failures |-> 0, refreshFailures |-> 0, priority |-> p]

\* The value kept for an id outside the pool.
Blank == Fresh(CHOOSE p \in Priority : TRUE)

Disable(e, why) == [e EXCEPT !.disabled = TRUE, !.reason = why]

\* Mutation of Enable: disabled_reason is left behind.
EnableKeepingReason(e) == [e EXCEPT !.disabled = FALSE]

Enable(e) == [e EXCEPT !.disabled = FALSE, !.reason = "None"]

Serving == {c \in pool : ~entry[c].disabled}

\* min_by_key(priority) over a set of ids: any of the best ones.
Best(S) == {c \in S : \A d \in S : entry[c].priority <= entry[d].priority}

BestServing == Best(Serving)

(***************************************************************************)
(* What a report leaves behind when it has disabled an entry: the best     *)
(* credential still serving becomes current, if there is one.              *)
(***************************************************************************)
FailOver == IF Serving' = {} THEN UNCHANGED current ELSE current' \in BestServing'

\* Mutation of Report: the early return on an entry already disabled is missing.
ReportRegardless(c, e) ==
  /\ UNCHANGED pool
  /\ IF c \in pool
       THEN /\ entry' = [entry EXCEPT ![c] = e]
            /\ IF e.disabled THEN FailOver ELSE UNCHANGED current
       ELSE UNCHANGED <<entry, current>>

\* A report about c that turns its entry into e; ignored when c is gone or
\* already disabled.
Report(c, e) ==
  /\ UNCHANGED pool
  /\ IF c \in Serving
       THEN /\ entry' = [entry EXCEPT ![c] = e]
            /\ IF e.disabled THEN FailOver ELSE UNCHANGED current
       ELSE UNCHANGED <<entry, current>>

\* Mutation of ReportFailure: > for >= in the comparison with max_failures.
ReportFailureOneMore(c) ==
  LET e == [entry[c] EXCEPT !.failures = @ + 1]
  IN  Report(c, IF e.failures > MaxFailures THEN Disable(e, "TooManyFailures") ELSE e)

ReportFailure(c) ==
  LET e == [entry[c] EXCEPT !.failures = @ + 1]
  IN  Report(c, IF e.failures >= MaxFailures THEN Disable(e, "TooManyFailures") ELSE e)

ReportRefreshFailure(c) ==
  LET e == [entry[c] EXCEPT !.refreshFailures = @ + 1]
  IN  Report(c, IF e.refreshFailures >= MaxFailures
                  THEN Disable(e, "TooManyRefreshFailures") ELSE e)

ReportQuotaExhausted(c) ==
  Report(c, [Disable(entry[c], "QuotaExceeded") EXCEPT !.failures = MaxFailures])

ReportRateLimited(c) ==
  Report(c, [Disable(entry[c], "RateLimited") EXCEPT !.until = "pending"])

ReportRefreshTokenInvalid(c) == Report(c, Disable(entry[c], "InvalidRefreshToken"))

\* report_success: no test of `disabled`, so a late answer of a credential that
\* was disabled meanwhile clears its counters too.
ReportSuccess(c) ==
  /\ entry' = IF c \in pool
                THEN [entry EXCEPT ![c].failures = 0, ![c].refreshFailures = 0]
                ELSE entry
  /\ UNCHANGED <<pool, current>>

(***************************************************************************)
(* A refreshed token is stored with the whole credential it was refreshed  *)
(* from, hence with the priority p read before the call to the upstream.   *)
(* try_ensure_token clears the refresh failures in a later critical        *)
(* section (and when it found the token already fresh), a forced refresh   *)
(* in the same one.                                                        *)
(***************************************************************************)
WriteBack(c, p) ==
  /\ entry' = IF c \in pool THEN [entry EXCEPT ![c].priority = p] ELSE entry
  /\ UNCHANGED <<pool, current>>

TokenObtained(c) ==
  /\ entry' = IF c \in pool THEN [entry EXCEPT ![c].refreshFailures = 0] ELSE entry
  /\ UNCHANGED <<pool, current>>

ForceRefreshed(c, p) ==
  /\ entry' = IF c \in pool
                THEN [entry EXCEPT ![c].priority = p, ![c].refreshFailures = 0]
                ELSE entry
  /\ UNCHANGED <<pool, current>>

\* Mutation of SweepRateLimited: the deadline is not looked at.
SweepAllRateLimited ==
  /\ entry' = [c \in Cred |->
                 IF c \in pool /\ entry[c].disabled /\ entry[c].reason = "RateLimited"
                   THEN [Enable(entry[c]) EXCEPT !.until = "none"]
                   ELSE entry[c]]
  /\ UNCHANGED <<pool, current>>

\* acquire_context: re-enable every credential whose cooldown has passed.
SweepRateLimited ==
  /\ entry' = [c \in Cred |->
                 IF c \in pool /\ entry[c].disabled /\ entry[c].reason = "RateLimited"
                    /\ entry[c].until # "pending"
                   THEN [Enable(entry[c]) EXCEPT !.until = "none"]
                   ELSE entry[c]]
  /\ UNCHANGED <<pool, current>>

Tripped == {c \in pool : entry[c].disabled /\ entry[c].reason = "TooManyFailures"}

\* acquire_context: the self-healing that follows an empty selection.
Heal ==
  /\ Tripped # {}
  /\ entry' = [c \in Cred |->
                 IF c \in pool /\ entry[c].reason = "TooManyFailures"
                   THEN [Enable(entry[c]) EXCEPT !.failures = 0]
                   ELSE entry[c]]
  /\ UNCHANGED <<pool, current>>

\* Time: the cooldown deadline of c passes.
Elapse(c) ==
  /\ c \in pool
  /\ entry[c].until = "pending"
  /\ entry' = [entry EXCEPT ![c].until = "due"]
  /\ UNCHANGED <<pool, current>>

\* select_highest_priority.
SelectHighestPriority ==
  /\ IF Serving = {} THEN UNCHANGED current ELSE current' \in BestServing
  /\ UNCHANGED <<pool, entry>>

\* switch_to_next: the best serving credential other than the current one.
SwitchToNext ==
  /\ IF Serving \ {current} = {}
       THEN UNCHANGED current
       ELSE current' \in Best(Serving \ {current})
  /\ UNCHANGED <<pool, entry>>

\* The locked part of each operation of the Admin API.
SetDisabled(c) ==
  /\ c \in pool
  /\ entry' = [entry EXCEPT ![c] = Disable(@, "Manual")]
  /\ UNCHANGED <<pool, current>>

\* Mutation of SetEnabled: the failure counters are not reset.
SetEnabledKeepingCounters(c) ==
  /\ c \in pool
  /\ entry' = [entry EXCEPT ![c] = Enable(@)]
  /\ UNCHANGED <<pool, current>>

SetEnabled(c) ==
  /\ c \in pool
  /\ entry' = [entry EXCEPT ![c] = [Enable(@) EXCEPT !.failures = 0, !.refreshFailures = 0]]
  /\ UNCHANGED <<pool, current>>

ResetAndEnable(c) ==
  /\ entry[c].reason # "InvalidConfig"
  /\ SetEnabled(c)

SetPriority(c, p) ==
  /\ c \in pool
  /\ entry' = [entry EXCEPT ![c].priority = p]
  /\ UNCHANGED <<pool, current>>

AddCredential(c, p) ==
  /\ c \notin pool
  /\ pool' = pool \cup {c}
  /\ entry' = [entry EXCEPT ![c] = Fresh(p)]
  /\ UNCHANGED current

DeleteCredential(c) ==
  /\ c \in pool
  /\ entry[c].disabled
  /\ pool' = pool \ {c}
  /\ entry' = [entry EXCEPT ![c] = Blank]
  /\ UNCHANGED current

ResetCurrentIfEmpty ==
  /\ current' = IF pool = {} THEN NoId ELSE current
  /\ UNCHANGED <<pool, entry>>

(***************************************************************************)
(* MultiTokenManager::new on a credentials file: an entry is as in the     *)
(* file, or disabled as Manual because the file says so, or disabled as    *)
(* InvalidConfig because it lacks its API key.                             *)
(***************************************************************************)
Loaded(p) == {Fresh(p), Disable(Fresh(p), "Manual"), Disable(Fresh(p), "InvalidConfig")}

TableInit ==
  /\ pool \in SUBSET Cred
  /\ entry \in [Cred -> UNION {Loaded(p) : p \in Priority}]
  /\ \A c \in Cred \ pool : entry[c] = Blank
  /\ IF Serving = {} THEN current = NoId ELSE current \in BestServing

TableTypeOK ==
  /\ pool \in SUBSET Cred
  /\ entry \in [Cred -> Entry]
  /\ current \in Cred \cup {NoId}
=============================================================================
