------------------------- MODULE CredentialRegistry -------------------------
(***************************************************************************)
(* Which credentials exist, in memory and in credentials.json: adding,     *)
(* deleting, disabling, the write-back of the file and the next start      *)
(* (src/kiro/token_manager.rs, src/kiro/model/credentials.rs, src/main.rs).*)
(*                                                                         *)
(* A thread is a request or an Admin API call; each of its steps is one    *)
(* critical section of `entries`, one await, or one system call on the     *)
(* file.  The program may crash, or be stopped, between any two of them:   *)
(* nothing is written on the way out.                                      *)
(*                                                                         *)
(* Abstracted: a credential is the secret that identifies it (kiroApiKey   *)
(* or refreshToken; a rotated token is the same secret, its old value      *)
(* being of no use upstream), and the reason RateLimited stands for every  *)
(* one that is not written back and may or may not lift itself.  The file  *)
(* is in the array format: the single-object one is never written.         *)
(***************************************************************************)
EXTENDS Integers

CONSTANTS Secret,     \* credentials that can be given to the program
          EnvKey,     \* the one in the environment variable KIRO_API_KEY, if any
          Thread,     \* requests and Admin API calls that change credentials
          Boot,       \* the thread that starts the program
          MaxId       \* bound on the ids of this model

ASSUME RegistryAssumption ==
  /\ EnvKey \subseteq Secret
  /\ Boot \notin Thread
  /\ MaxId \in Nat \ {0}

NoId == 0
Id == 1..MaxId

VARIABLES up,       \* the program is running
          table,    \* its entries, as a set of rows
          file,     \* credentials.json
          call,     \* where each thread is
          ruling,   \* history: the latest decision to withdraw each secret
          slips     \* history: what has gone wrong so far

rvars == <<up, table, file, call, ruling, slips>>

\* `by` is the thread that pushed the row: it tells apart rows that are
\* otherwise equal.
Row == [id: Id, secret: Secret, by: Thread \cup {Boot},
        reason: {"None", "Manual", "QuotaExceeded", "RateLimited"}]

Record == [id: Id \cup {NoId}, secret: Secret, by: Thread \cup {Boot}, disabled: BOOLEAN]

File == [kind: {"whole", "blank", "torn"}, rows: SUBSET Record]

Blank == [kind |-> "blank", rows |-> {}]
Torn == [kind |-> "torn", rows |-> {}]
Whole(rows) == [kind |-> "whole", rows |-> rows]

Call == [step: {"idle", "validating", "numbered", "persist", "holding", "open"},
         secret: SUBSET Secret, id: Id \cup {NoId}, rows: SUBSET Record]

Idle == [step |-> "idle", secret |-> {}, id |-> NoId, rows |-> {}]
Persist == [Idle EXCEPT !.step = "persist"]

Adding(t) == call[t].step \in {"validating", "numbered"}
Writing(t) == call[t].step \in {"holding", "open"}

Ids(rows) == {r.id : r \in rows}
Secrets(rows) == {r.secret : r \in rows}

\* n is the largest of ids plus one.
IsNextId(n, ids) == (\A i \in ids : i < n) /\ (n = 1 \/ n - 1 \in ids)

Lifted(s) == IF ruling[s] = "never" THEN "never" ELSE "none"

-----------------------------------------------------------------------------
(* Decisions about a credential. *)

\* The program serves: `new` has returned.
Ready == up /\ call[Boot].step = "idle"

Free(t) == t \in Thread /\ Ready /\ call[t].step = "idle"

\* The entry found for an id gets a new reason.
Mark(r, why) == table' = (table \ {r}) \cup {[r EXCEPT !.reason = why]}

\* set_disabled(id, true), and then the write-back.
Disable(t, r) ==
  /\ Free(t)
  /\ Mark(r, "Manual")
  /\ call' = [call EXCEPT ![t] = Persist]
  /\ ruling' = [ruling EXCEPT ![r.secret] = "pending"]
  /\ UNCHANGED <<up, file, slips>>

\* set_disabled(id, false) and reset_and_enable.
Enable(t, r) ==
  /\ Free(t)
  /\ Mark(r, "None")
  /\ call' = [call EXCEPT ![t] = Persist]
  /\ ruling' = [ruling EXCEPT ![r.secret] = Lifted(r.secret)]
  /\ UNCHANGED <<up, file, slips>>

\* Mutation of QuotaOut: the withdrawal is not written back.
QuotaOutUnwritten(t, r) ==
  /\ Free(t)
  /\ r.reason = "None"
  /\ Mark(r, "QuotaExceeded")
  /\ ruling' = [ruling EXCEPT ![r.secret] = "pending"]
  /\ UNCHANGED <<up, file, call, slips>>

\* report_quota_exhausted: returns early, and writes nothing, for an entry
\* that is out already.
QuotaOut(t, r) ==
  /\ Free(t)
  /\ r.reason = "None"
  /\ Mark(r, "QuotaExceeded")
  /\ call' = [call EXCEPT ![t] = Persist]
  /\ ruling' = [ruling EXCEPT ![r.secret] = "pending"]
  /\ UNCHANGED <<up, file, slips>>

\* report_rate_limited, report_failure, report_refresh_failure and
\* report_refresh_token_invalid: no write-back.
Withdraw(r) ==
  /\ Ready
  /\ r.reason = "None"
  /\ Mark(r, "RateLimited")
  /\ UNCHANGED <<up, file, call, ruling, slips>>

\* The cooldown sweep and the self-healing of acquire_context.
Return(r) ==
  /\ Ready
  /\ r.reason = "RateLimited"
  /\ Mark(r, "None")
  /\ UNCHANGED <<up, file, call, ruling, slips>>

\* A write-back for another reason: a refreshed token, a priority, a
\* concurrency limit, a subscription.
Touch(t) ==
  /\ Free(t)
  /\ call' = [call EXCEPT ![t] = Persist]
  /\ UNCHANGED <<up, table, file, ruling, slips>>

-----------------------------------------------------------------------------
(* add_credential and delete_credential. *)

\* Mutation of BeginAdd: the duplicate check is missing.
BeginAddUnchecked(t, s) ==
  /\ Free(t)
  /\ call' = [call EXCEPT ![t] = [Idle EXCEPT !.step = "validating", !.secret = {s}]]
  /\ slips' = IF \E u \in Thread : Adding(u) THEN slips \cup {"adds"} ELSE slips
  /\ UNCHANGED <<up, table, file, ruling>>

\* The duplicate check, before the await that validates the credential.
BeginAdd(t, s) ==
  /\ Free(t)
  /\ s \notin Secrets(table)
  /\ call' = [call EXCEPT ![t] = [Idle EXCEPT !.step = "validating", !.secret = {s}]]
  /\ slips' = IF \E u \in Thread : Adding(u) THEN slips \cup {"adds"} ELSE slips
  /\ UNCHANGED <<up, table, file, ruling>>

\* The credential turns out not to be valid.
RejectAdd(t) ==
  /\ call[t].step = "validating"
  /\ call' = [call EXCEPT ![t] = Idle]
  /\ UNCHANGED <<up, table, file, ruling, slips>>

\* Mutation of Number: the new id is taken from the number of entries.
NumberByCount(t) ==
  /\ call[t].step = "validating"
  /\ \E n \in Id :
        /\ \E f \in [1..(n - 1) -> table] :
              /\ \A i, j \in 1..(n - 1) : f[i] = f[j] => i = j
              /\ \A r \in table : \E i \in 1..(n - 1) : f[i] = r
        /\ call' = [call EXCEPT ![t].step = "numbered", ![t].id = n]
  /\ UNCHANGED <<up, table, file, ruling, slips>>

\* The new id: the largest one in use plus one.
Number(t) ==
  /\ call[t].step = "validating"
  /\ \E n \in Id :
        /\ IsNextId(n, Ids(table))
        /\ call' = [call EXCEPT ![t].step = "numbered", ![t].id = n]
  /\ UNCHANGED <<up, table, file, ruling, slips>>

\* The push, in a critical section of its own.
Push(t) ==
  /\ call[t].step = "numbered"
  /\ \E s \in call[t].secret :
        /\ table' = table \cup {[id |-> call[t].id, secret |-> s, by |-> t, reason |-> "None"]}
        /\ ruling' = [ruling EXCEPT ![s] = Lifted(s)]
  /\ call' = [call EXCEPT ![t] = Persist]
  /\ UNCHANGED <<up, file, slips>>

\* delete_credential: the entry found for the id must be out of service; every
\* entry with that id goes.
Delete(t, r) ==
  /\ Free(t)
  /\ r.reason # "None"
  /\ table' = {q \in table : q.id # r.id}
  /\ call' = [call EXCEPT ![t] = Persist]
  /\ ruling' = [s \in Secret |-> IF \E q \in table : q.id = r.id /\ q.secret = s
                                   THEN Lifted(s) ELSE ruling[s]]
  /\ UNCHANGED <<up, file, slips>>

-----------------------------------------------------------------------------
(* persist_credentials: a snapshot under the lock, then fs::write, which   *)
(* truncates the file and writes it.                                       *)

Recorded(r) == [id |-> r.id, secret |-> r.secret, by |-> r.by, disabled |-> r.reason # "None"]

Image == {Recorded(r) : r \in table}

Snapshot(t) ==
  /\ call[t].step = "persist"
  /\ call' = [call EXCEPT ![t] = [Idle EXCEPT !.step = "holding", !.rows = Image]]
  /\ slips' = IF \E u \in Thread : Writing(u) THEN slips \cup {"writes"} ELSE slips
  /\ UNCHANGED <<up, table, file, ruling>>

OpenFails(t) ==
  /\ call[t].step = "holding"
  /\ call' = [call EXCEPT ![t] = Idle]
  /\ slips' = slips \cup {"failures"}
  /\ UNCHANGED <<up, table, file, ruling>>

Truncate(t) ==
  /\ call[t].step = "holding"
  /\ file' = Blank
  /\ call' = [call EXCEPT ![t].step = "open"]
  /\ UNCHANGED <<up, table, ruling, slips>>

\* Onto a file that another thread has written since it was truncated, the
\* rows may be shorter than what they overlay.
Write(t) ==
  /\ call[t].step = "open"
  /\ \E f \in {Whole(call[t].rows)} \cup (IF file.kind = "blank" THEN {} ELSE {Torn}) :
        /\ file' = f
        /\ ruling' = [s \in Secret |->
                        IF /\ ruling[s] = "pending"
                           /\ \E q \in f.rows : q.secret = s /\ q.disabled
                          THEN "durable" ELSE ruling[s]]
  /\ call' = [call EXCEPT ![t] = Idle]
  /\ UNCHANGED <<up, table, slips>>

WriteFails(t) ==
  /\ call[t].step = "open"
  /\ file' \in {file, Torn}
  /\ call' = [call EXCEPT ![t] = Idle]
  /\ slips' = slips \cup {"failures"}
  /\ UNCHANGED <<up, table, ruling>>

-----------------------------------------------------------------------------
(* The end of the program, and CredentialsConfig::load with                *)
(* MultiTokenManager::new.                                                 *)

Crash ==
  /\ up
  /\ up' = FALSE
  /\ table' = {}
  /\ call' = [t \in Thread \cup {Boot} |-> Idle]
  /\ file' \in {file} \cup (IF \E t \in Thread \cup {Boot} : call[t].step = "open"
                              THEN {Torn} ELSE {})
  /\ ruling' = [s \in Secret |-> IF ruling[s] = "pending" THEN "none" ELSE ruling[s]]
  /\ UNCHANGED slips

\* What `new` is given: the file, and the key of the environment without an id.
Given == file.rows \cup {[id |-> NoId, secret |-> s, by |-> Boot, disabled |-> FALSE] : s \in EnvKey}

Nameless == {q \in Given : q.id = NoId}
Named == Given \ Nameless

\* f numbers the nameless records upwards from the largest id.
Numbering(f) ==
  /\ \A p, q \in Nameless : f[p] = f[q] => p = q
  /\ \A q \in Nameless : IsNextId(f[q], Ids(Named) \cup {f[p] : p \in {p \in Nameless : f[p] < f[q]}})

\* Mutation of Entered: a record without an id stays without.
EnteredUnnumbered(q, n) == [id |-> q.id, secret |-> q.secret, by |-> Boot,
                            reason |-> IF q.disabled THEN "Manual" ELSE "None"]

\* Mutation of Entered: `disabled` is not read from the file.
EnteredServing(q, n) == [id |-> n, secret |-> q.secret, by |-> Boot, reason |-> "None"]

Entered(q, n) == [id |-> n, secret |-> q.secret, by |-> Boot,
                  reason |-> IF q.disabled THEN "Manual" ELSE "None"]

\* Duplicate ids refuse to start, as does a file that cannot be parsed; an empty
\* one is an empty list.  New ids are written back at once, and so is a new
\* machine id.
Start ==
  /\ ~up
  /\ file.kind # "torn"
  /\ \A p, q \in Named : p.id = q.id => p = q
  /\ \E f \in [Nameless -> Id] :
        /\ Numbering(f)
        /\ table' = {Entered(q, q.id) : q \in Named} \cup {Entered(q, f[q]) : q \in Nameless}
  /\ up' = TRUE
  /\ \E step \in IF Nameless = {} THEN {Idle, Persist} ELSE {Persist} :
        call' = [call EXCEPT ![Boot] = step]
  /\ UNCHANGED <<file, ruling, slips>>

-----------------------------------------------------------------------------
\* A file as an operator writes it: no secret twice, no id twice, and not the
\* key of the environment.
FirstFile ==
  {Blank} \cup
  {Whole(rows) : rows \in
     {S \in SUBSET [id: Id \cup {NoId}, secret: Secret \ EnvKey, by: {Boot}, disabled: BOOLEAN] :
        \A p, q \in S : p.secret = q.secret \/ (p.id = q.id /\ p.id # NoId) => p = q}}

RegistryInit ==
  /\ up = FALSE
  /\ table = {}
  /\ file \in FirstFile
  /\ call = [t \in Thread \cup {Boot} |-> Idle]
  /\ ruling = [s \in Secret |-> IF \E q \in file.rows : q.secret = s /\ q.disabled
                                  THEN "durable" ELSE "never"]
  /\ slips = {}

Decide == \E t \in Thread, r \in table : Disable(t, r) \/ Enable(t, r) \/ QuotaOut(t, r) \/ Delete(t, r)

Traffic == \E r \in table : Withdraw(r) \/ Return(r)

Add == \E t \in Thread : (\E s \in Secret : BeginAdd(t, s)) \/ RejectAdd(t) \/ Number(t) \/ Push(t)

WriteBack == \E t \in Thread \cup {Boot} :
               Snapshot(t) \/ OpenFails(t) \/ Truncate(t) \/ Write(t) \/ WriteFails(t)

RegistryNext ==
  \/ Decide
  \/ Traffic
  \/ \E t \in Thread : Touch(t)
  \/ Add
  \/ WriteBack
  \/ Crash
  \/ Start

RegistrySpec == RegistryInit /\ [][RegistryNext]_rvars

-----------------------------------------------------------------------------
(* Properties. *)

\* Type invariant of the registry.
RegistryTypeOK ==
  /\ up \in BOOLEAN
  /\ table \subseteq Row
  /\ file \in File
  /\ call \in [Thread \cup {Boot} -> Call]
  /\ \A t \in Thread \cup {Boot} : call[t].step = "numbered" => call[t].id \in Id
  /\ ruling \in [Secret -> {"never", "none", "pending", "durable"}]
  /\ slips \subseteq {"adds", "writes", "failures"}

UniqueBy(rows) == \A p, q \in rows : p.id = q.id /\ p.id # NoId => p = q

(***************************************************************************)
(* As long as no two add_credential calls overlap, an id names one entry,  *)
(* in memory and in the file, through deletions, crashes, stale and failed *)
(* writes: reports and Admin calls reach the credential they mean, and     *)
(* `new` never refuses the file for duplicate ids.                         *)
(***************************************************************************)
UniqueIds == "adds" \notin slips => UniqueBy(table) /\ UniqueBy(file.rows)

(***************************************************************************)
(* Likewise no credential is entered twice, although the duplicate check   *)
(* of add_credential precedes an await.  The key of KIRO_API_KEY is        *)
(* excepted: every start enters it once more.                              *)
(***************************************************************************)
UniqueSecrets ==
  "adds" \notin slips =>
    \A p, q \in table : p.secret = q.secret /\ p.secret \notin EnvKey => p = q

(***************************************************************************)
(* A credential that an operator disabled, or whose quota was spent, and   *)
(* whose withdrawal reached the file stays out, over crashes, restarts and *)
(* failed writes, until an operator enables or re-adds it - provided that  *)
(* no two write-backs and no two additions ever overlapped.                *)
(***************************************************************************)
WithdrawalSurvives ==
  slips \cap {"adds", "writes"} = {} =>
    \A r \in table : ruling[r.secret] = "durable" /\ r.secret \notin EnvKey => r.reason # "None"

\* Out of service for good.
Out(r) == r.reason \in {"Manual", "QuotaExceeded"}

\* The records are those of the table, and disabled where that is for good.
Agrees(tab, rows) ==
  /\ \A r \in tab : \E q \in rows : q.id = r.id /\ q.secret = r.secret /\ (Out(r) => q.disabled)
  /\ \A q \in rows : \E r \in tab : q.id = r.id /\ q.secret = r.secret

(***************************************************************************)
(* When all calls have returned, and none of their writes failed or        *)
(* overlapped another, the file holds the credentials of the table, and as *)
(* disabled those that an operator or a quota took out: no operation       *)
(* forgets its write-back.                                                 *)
(***************************************************************************)
FileFollows ==
  Ready /\ (\A t \in Thread : call[t].step = "idle") /\ slips \subseteq {"adds"} =>
    Agrees(table, file.rows)

(***************************************************************************)
(* The comment in report_quota_exhausted says that throttling is temporary *)
(* and therefore not persisted: a credential is Manual only if an operator *)
(* or its quota took it out, not because it was cooling down at a restart. *)
(***************************************************************************)
ManualIsDecided == \A r \in table : r.reason = "Manual" => ruling[r.secret] # "never"

\* The field `id` of CredentialEntry is documented as the unique id of the
\* credential: no two entries bear the same.
IdsUnique == UniqueBy(table)

-----------------------------------------------------------------------------
(***************************************************************************)
(* The inductive invariant behind them.  What an add has checked or        *)
(* computed stays true until its push, since no other add is under way; of *)
(* two write-backs one has ended before the other takes its snapshot; and  *)
(* whenever the file lags behind the table, some thread still owes a       *)
(* write.                                                                  *)
(***************************************************************************)
Anyone == Thread \cup {Boot}

OneEach(rows) == \A p, q \in rows : p.secret = q.secret /\ p.secret \notin EnvKey => p = q

\* Who may be at which step.
StepInv ==
  /\ ~Adding(Boot)
  /\ ~up => \A t \in Anyone : call[t] = Idle
  /\ ~up => \A s \in Secret : ruling[s] # "pending"
  /\ call[Boot].step # "idle" => \A t \in Thread : call[t].step = "idle"

AddInv ==
  "adds" \notin slips =>
    /\ \A t, u \in Thread : Adding(t) /\ Adding(u) => t = u
    /\ \A t \in Thread : call[t].step = "numbered" => call[t].id \notin Ids(table)
    /\ \A t \in Thread : Adding(t) => call[t].secret \cap Secrets(table) = {}

RowsInv ==
  "adds" \notin slips =>
    /\ UniqueBy(table) /\ UniqueBy(file.rows) /\ \A t \in Anyone : UniqueBy(call[t].rows)
    /\ OneEach(table) /\ OneEach(file.rows) /\ \A t \in Anyone : OneEach(call[t].rows)

WriteInv ==
  "writes" \notin slips =>
    /\ \A t, u \in Anyone : Writing(t) /\ Writing(u) => t = u
    /\ \A t \in Anyone : call[t].step = "open" => file = Blank

RulingInv ==
  slips \cap {"adds", "writes"} = {} =>
    \A s \in Secret \ EnvKey :
      /\ ruling[s] \in {"pending", "durable"} => \A r \in table : r.secret = s => Out(r)
      /\ ruling[s] = "durable" =>
            /\ \A q \in file.rows : q.secret = s => q.disabled
            /\ \A t \in Anyone : Writing(t) => \A q \in call[t].rows : q.secret = s => q.disabled

LagInv ==
  up /\ slips \subseteq {"adds"} =>
    \/ \E t \in Anyone : call[t].step = "persist"
    \/ \E t \in Anyone : Writing(t) /\ Agrees(table, call[t].rows)
    \/ (\A t \in Anyone : ~Writing(t)) /\ Agrees(table, file.rows)

RegistryInv == StepInv /\ AddInv /\ RowsInv /\ WriteInv /\ RulingInv /\ LagInv
=============================================================================
