----------------------- MODULE CredentialPool_proofs -----------------------
(***************************************************************************)
(* Proofs about CredentialPool, for every set of credentials, operators    *)
(* and requests, every set of priorities and every failure threshold.      *)
(*                                                                         *)
(* The inductive invariant says of each single entry what keeps it         *)
(* coherent (EntryOK): the properties of the pool speak of entries one by  *)
(* one, so every action is proved by showing that each record it writes    *)
(* is EntryOK when the one it replaces was.                                *)
(***************************************************************************)
EXTENDS CredentialPool, TLAPS

(* ThresholdEnforced alone is not inductive: the sweep and the             *)
(* self-healing re-enable an entry without resetting every counter, so the *)
(* counters must already be low while the entry waits to be revived.       *)
EntryOK(e) ==
  /\ e \in Entry
  /\ e.disabled <=> e.reason # "None"
  /\ e.reason = "RateLimited" => e.until # "none"
  /\ e.reason \in {"None", "RateLimited"} => e.failures < MaxFailures
  /\ e.reason \in {"None", "RateLimited", "TooManyFailures"}
       => e.refreshFailures < MaxFailures

TableInv ==
  /\ TableTypeOK
  /\ \A c \in Cred : EntryOK(entry[c])

IInv == TypeOK /\ TableInv

-----------------------------------------------------------------------------
(* The records that the critical sections write. *)

LEMMA FreshOK == \A p \in Priority : EntryOK(Fresh(p)) /\ Fresh(p) \in Entry
  BY EntriesAssumption DEF EntryOK, Entry, Fresh, Reason

LEMMA BlankOK == EntryOK(Blank) /\ Blank \in Entry
  BY FreshOK, EntriesAssumption DEF Blank

LEMMA DisableOK ==
  ASSUME NEW e \in Entry, NEW why \in Reason \ {"None", "RateLimited"},
         why = "TooManyFailures" => e.refreshFailures < MaxFailures
  PROVE  EntryOK(Disable(e, why)) /\ Disable(e, why).reason = why
  BY DEF EntryOK, Entry, Disable, Reason

LEMMA EnableEntry ==
  ASSUME NEW e \in Entry
  PROVE  /\ Enable(e) \in Entry
         /\ ~Enable(e).disabled /\ Enable(e).reason = "None"
         /\ Enable(e).failures = e.failures
         /\ Enable(e).refreshFailures = e.refreshFailures
  BY DEF Entry, Enable, Reason

LEMMA LoadedOK == \A p \in Priority : \A e \in Loaded(p) : EntryOK(e)
<1>1. TAKE p \in Priority
<1>2. EntryOK(Fresh(p)) /\ Fresh(p) \in Entry
  BY FreshOK
<1>3. EntryOK(Disable(Fresh(p), "Manual"))
  BY <1>2, DisableOK DEF Reason
<1>4. EntryOK(Disable(Fresh(p), "InvalidConfig"))
  BY <1>2, DisableOK DEF Reason
<1>5. QED
  BY <1>2, <1>3, <1>4 DEF Loaded

(* A serving entry has both counters below the threshold. *)
LEMMA ServingEntry ==
  ASSUME TableInv, NEW c \in Cred, c \in Serving
  PROVE  /\ EntryOK(entry[c])
         /\ entry[c] \in Entry
         /\ entry[c].reason = "None"
         /\ entry[c].failures \in Nat /\ entry[c].failures < MaxFailures
         /\ entry[c].refreshFailures \in Nat
         /\ entry[c].refreshFailures < MaxFailures
  BY DEF TableInv, EntryOK, Serving, Entry

-----------------------------------------------------------------------------
(* Each critical section preserves the table's invariant. *)

(* Writing one entry. *)
LEMMA EntryWrite ==
  ASSUME TableInv, NEW c \in Cred, NEW e \in Entry, EntryOK(e),
         entry' = [entry EXCEPT ![c] = e],
         pool' \in SUBSET Cred, current' \in Cred \cup {NoId}
  PROVE  TableInv'
<1>1. entry' \in [Cred -> Entry]
  BY DEF TableInv, TableTypeOK
<1>2. \A d \in Cred : EntryOK(entry[d])'
  BY DEF TableInv, TableTypeOK, EntryOK
<1>3. QED
  BY <1>1, <1>2 DEF TableInv, TableTypeOK

LEMMA FailOverType ==
  ASSUME pool' \in SUBSET Cred, current \in Cred \cup {NoId}, FailOver
  PROVE  current' \in Cred \cup {NoId}
  BY DEF FailOver, BestServing, Best, Serving

LEMMA ReportInv ==
  ASSUME TableInv, NEW c \in Cred, NEW e, Report(c, e),
         c \in Serving => EntryOK(e)
  PROVE  TableInv'
<1>1. CASE c \in Serving
  <2>1. entry' = [entry EXCEPT ![c] = e] /\ pool' = pool
    BY <1>1 DEF Report
  <2>2. EntryOK(e) /\ e \in Entry
    BY <1>1 DEF EntryOK
  <2>3. pool' \in SUBSET Cred /\ current' \in Cred \cup {NoId}
    BY <1>1, <2>1, FailOverType DEF Report, TableInv, TableTypeOK
  <2>4. QED
    BY <2>1, <2>2, <2>3, EntryWrite
<1>2. CASE c \notin Serving
  BY <1>2 DEF Report, TableInv, TableTypeOK, EntryOK
<1>3. QED
  BY <1>1, <1>2

(* Each of the five reports that can disable writes a coherent entry, and  *)
(* one that is rate limited carries a deadline still to come.              *)
ReportsOf(c) ==
  \/ ReportFailure(c)
  \/ ReportRefreshFailure(c)
  \/ ReportQuotaExhausted(c)
  \/ ReportRateLimited(c)
  \/ ReportRefreshTokenInvalid(c)

LEMMA ReportedEntry ==
  ASSUME TableInv, NEW c \in Cred, ReportsOf(c)
  PROVE  \E e : /\ Report(c, e)
                /\ c \in Serving => /\ EntryOK(e)
                                    /\ e.reason = "RateLimited" => e.until = "pending"
<1>. USE EntriesAssumption
<1>0. c \in Serving => /\ EntryOK(entry[c])
                       /\ entry[c] \in Entry
                       /\ entry[c].reason = "None"
                       /\ entry[c].failures \in Nat /\ entry[c].failures < MaxFailures
                       /\ entry[c].refreshFailures \in Nat
                       /\ entry[c].refreshFailures < MaxFailures
  BY ServingEntry
<1>1. CASE ReportFailure(c)
  <2> DEFINE e == [entry[c] EXCEPT !.failures = @ + 1]
             f == IF e.failures >= MaxFailures THEN Disable(e, "TooManyFailures") ELSE e
  <2>1. c \in Serving =>
          /\ e \in Entry
          /\ e.reason = "None"
          /\ e.failures = entry[c].failures + 1
          /\ e.refreshFailures < MaxFailures
          /\ e.failures < MaxFailures => EntryOK(e)
    BY <1>0 DEF EntryOK, Entry
  <2>2. c \in Serving => EntryOK(f) /\ f.reason # "RateLimited"
    <3> HIDE DEF e
    <3>1. c \in Serving => /\ EntryOK(Disable(e, "TooManyFailures"))
                           /\ Disable(e, "TooManyFailures").reason = "TooManyFailures"
      BY <2>1, DisableOK DEF Reason
    <3>2. QED
      BY <1>0, <2>1, <3>1
  <2>3. Report(c, f)
    BY <1>1 DEF ReportFailure
  <2>4. QED
    <3> HIDE DEF f
    <3>1. QED
      BY <2>2, <2>3
<1>2. CASE ReportRefreshFailure(c)
  <2> DEFINE e == [entry[c] EXCEPT !.refreshFailures = @ + 1]
             f == IF e.refreshFailures >= MaxFailures
                    THEN Disable(e, "TooManyRefreshFailures") ELSE e
  <2>1. c \in Serving =>
          /\ e \in Entry
          /\ e.reason = "None"
          /\ e.refreshFailures = entry[c].refreshFailures + 1
          /\ e.refreshFailures < MaxFailures => EntryOK(e)
    BY <1>0 DEF EntryOK, Entry
  <2>2. c \in Serving => EntryOK(f) /\ f.reason # "RateLimited"
    <3> HIDE DEF e
    <3>1. c \in Serving => /\ EntryOK(Disable(e, "TooManyRefreshFailures"))
                           /\ Disable(e, "TooManyRefreshFailures").reason
                                = "TooManyRefreshFailures"
      BY <2>1, DisableOK DEF Reason
    <3>2. QED
      BY <1>0, <2>1, <3>1
  <2>3. Report(c, f)
    BY <1>2 DEF ReportRefreshFailure
  <2>4. QED
    <3> HIDE DEF f
    <3>1. QED
      BY <2>2, <2>3
<1>3. CASE ReportQuotaExhausted(c)
  <2> DEFINE d == Disable(entry[c], "QuotaExceeded")
             e == [d EXCEPT !.failures = MaxFailures]
  <2>1. c \in Serving => EntryOK(d) /\ d \in Entry /\ d.reason = "QuotaExceeded"
    BY <1>0, DisableOK DEF Reason, EntryOK
  <2>2. c \in Serving => EntryOK(e) /\ e.reason = "QuotaExceeded"
    <3> HIDE DEF d
    <3>1. QED
      BY <2>1 DEF EntryOK, Entry
  <2>3. Report(c, e)
    BY <1>3 DEF ReportQuotaExhausted
  <2>4. QED
    BY <2>2, <2>3
<1>4. CASE ReportRateLimited(c)
  <2> DEFINE e == [Disable(entry[c], "RateLimited") EXCEPT !.until = "pending"]
  <2>1. c \in Serving => EntryOK(e) /\ e.until = "pending"
    BY <1>0 DEF EntryOK, Entry, Disable, Reason
  <2>2. Report(c, e)
    BY <1>4 DEF ReportRateLimited
  <2>3. QED
    BY <2>1, <2>2
<1>5. CASE ReportRefreshTokenInvalid(c)
  <2> DEFINE e == Disable(entry[c], "InvalidRefreshToken")
  <2>1. c \in Serving => EntryOK(e) /\ e.reason = "InvalidRefreshToken"
    BY <1>0, DisableOK DEF Reason
  <2>2. Report(c, e)
    BY <1>5 DEF ReportRefreshTokenInvalid
  <2>3. QED
    BY <2>1, <2>2
<1>6. QED
  BY <1>1, <1>2, <1>3, <1>4, <1>5 DEF ReportsOf

LEMMA OutcomeInv ==
  ASSUME TableInv, NEW c \in Cred, Outcome(c)
  PROVE  TableInv'
<1>1. CASE ReportsOf(c)
  BY <1>1, ReportedEntry, ReportInv
<1>2. CASE ReportSuccess(c)
  <2>1. CASE c \in pool
    <3> DEFINE d == [entry[c] EXCEPT !.failures = 0]
               e == [d EXCEPT !.refreshFailures = 0]
    <3>1. EntryOK(entry[c]) /\ entry[c] \in Entry
      BY DEF TableInv, EntryOK
    <3>2. EntryOK(d) /\ d \in Entry
      BY <3>1, EntriesAssumption DEF EntryOK, Entry
    <3>3. EntryOK(e) /\ e \in Entry
      <4> HIDE DEF d
      <4>1. QED
        BY <3>2, EntriesAssumption DEF EntryOK, Entry
    <3>4. entry' = [entry EXCEPT ![c] = e] /\ pool' = pool /\ current' = current
      BY <1>2, <2>1 DEF ReportSuccess, TableInv, TableTypeOK
    <3>5. QED
      <4> HIDE DEF e
      <4>1. QED
        BY <3>3, <3>4, EntryWrite DEF TableInv, TableTypeOK
  <2>2. CASE c \notin pool
    BY <1>2, <2>2 DEF ReportSuccess, TableInv, TableTypeOK, EntryOK
  <2>3. QED
    BY <2>1, <2>2
<1>3. CASE TokenObtained(c)
  BY <1>3, EntriesAssumption DEF TokenObtained, TableInv, TableTypeOK, EntryOK, Entry
<1>4. ASSUME NEW p \in Priority, WriteBack(c, p)
      PROVE  TableInv'
  BY <1>4 DEF WriteBack, TableInv, TableTypeOK, EntryOK, Entry
<1>5. ASSUME NEW p \in Priority, ForceRefreshed(c, p)
      PROVE  TableInv'
  <2>1. CASE c \in pool
    <3> DEFINE d == [entry[c] EXCEPT !.priority = p]
               e == [d EXCEPT !.refreshFailures = 0]
    <3>1. EntryOK(entry[c]) /\ entry[c] \in Entry
      BY DEF TableInv, EntryOK
    <3>2. EntryOK(d) /\ d \in Entry
      BY <3>1 DEF EntryOK, Entry
    <3>3. EntryOK(e) /\ e \in Entry
      <4> HIDE DEF d
      <4>1. QED
        BY <3>2, EntriesAssumption DEF EntryOK, Entry
    <3>4. entry' = [entry EXCEPT ![c] = e] /\ pool' = pool /\ current' = current
      BY <1>5, <2>1 DEF ForceRefreshed, TableInv, TableTypeOK
    <3>5. QED
      <4> HIDE DEF e
      <4>1. QED
        BY <3>3, <3>4, EntryWrite DEF TableInv, TableTypeOK
  <2>2. CASE c \notin pool
    BY <1>5, <2>2 DEF ForceRefreshed, TableInv, TableTypeOK, EntryOK
  <2>3. QED
    BY <2>1, <2>2
<1>6. QED
  BY <1>1, <1>2, <1>3, <1>4, <1>5 DEF Outcome, ReportsOf

(* Outcomes that only touch counters and priorities.                       *)
Bookkeeping(c) ==
  \/ ReportSuccess(c) \/ TokenObtained(c)
  \/ \E p \in Priority : WriteBack(c, p) \/ ForceRefreshed(c, p)

LEMMA BookkeepingKeeps ==
  ASSUME TableInv, NEW c \in Cred, Bookkeeping(c), NEW d \in Cred
  PROVE  /\ pool' = pool
         /\ entry'[d].disabled = entry[d].disabled
         /\ entry'[d].reason = entry[d].reason
         /\ entry'[d].until = entry[d].until
<1>0. entry \in [Cred -> Entry] /\ entry[d] \in Entry
  BY DEF TableInv, TableTypeOK
<1>1. CASE ReportSuccess(c)
  BY <1>0, <1>1 DEF ReportSuccess, Entry
<1>2. CASE TokenObtained(c)
  BY <1>0, <1>2 DEF TokenObtained, Entry
<1>3. ASSUME NEW p \in Priority, WriteBack(c, p)
      PROVE  /\ pool' = pool
             /\ entry'[d].disabled = entry[d].disabled
             /\ entry'[d].reason = entry[d].reason
             /\ entry'[d].until = entry[d].until
  BY <1>0, <1>3 DEF WriteBack, Entry
<1>4. ASSUME NEW p \in Priority, ForceRefreshed(c, p)
      PROVE  /\ pool' = pool
             /\ entry'[d].disabled = entry[d].disabled
             /\ entry'[d].reason = entry[d].reason
             /\ entry'[d].until = entry[d].until
  BY <1>0, <1>4 DEF ForceRefreshed, Entry
<1>5. QED
  BY <1>1, <1>2, <1>3, <1>4 DEF Bookkeeping

LEMMA RevivalInv ==
  ASSUME TableInv, SweepRateLimited \/ Heal
  PROVE  TableInv'
<1>1. CASE SweepRateLimited
  BY <1>1 DEF SweepRateLimited, Enable, TableInv, TableTypeOK, EntryOK, Entry, Reason
<1>2. CASE Heal
  <2>1. ASSUME NEW c \in Cred
        PROVE  EntryOK(entry'[c]) /\ entry'[c] \in Entry
    <3> DEFINE d == Enable(entry[c])
    <3>1. EntryOK(entry[c]) /\ entry[c] \in Entry
      BY DEF TableInv, EntryOK
    <3>2. CASE entry[c].reason = "TooManyFailures"
      <4>1. /\ d \in Entry
            /\ d.refreshFailures < MaxFailures
            /\ d.reason = "None" /\ ~d.disabled
        BY <3>1, <3>2, EnableEntry DEF EntryOK
      <4>2. EntryOK([d EXCEPT !.failures = 0])
        <5> HIDE DEF d
        <5>1. QED
          BY <4>1, EntriesAssumption DEF EntryOK, Entry
      <4>3. entry'[c] = IF c \in pool THEN [d EXCEPT !.failures = 0] ELSE entry[c]
        BY <1>2, <3>2 DEF Heal
      <4>4. QED
        BY <3>1, <4>2, <4>3 DEF EntryOK
    <3>3. CASE entry[c].reason # "TooManyFailures"
      BY <1>2, <3>1, <3>3 DEF Heal
    <3>4. QED
      BY <3>2, <3>3
  <2>2. entry' = [c \in Cred |-> entry'[c]] /\ pool' = pool /\ current' = current
    BY <1>2 DEF Heal
  <2>3. entry' \in [Cred -> Entry]
    BY <2>1, <2>2
  <2>4. QED
    BY <2>1, <2>2, <2>3 DEF TableInv, TableTypeOK, EntryOK
<1>3. QED
  BY <1>1, <1>2

LEMMA AdminTableInv ==
  ASSUME TableInv, NEW c \in Cred,
         \/ SetDisabled(c) \/ SetEnabled(c) \/ ResetAndEnable(c)
         \/ DeleteCredential(c) \/ Elapse(c)
         \/ \E p \in Priority : SetPriority(c, p) \/ AddCredential(c, p)
  PROVE  TableInv'
<1>0. EntryOK(entry[c]) /\ entry[c] \in Entry /\ entry \in [Cred -> Entry]
  BY DEF TableInv, TableTypeOK, EntryOK
<1>. SUFFICES ASSUME NEW e, EntryOK(e), entry' = [entry EXCEPT ![c] = e],
                     pool' \in SUBSET Cred, current' \in Cred \cup {NoId}
              PROVE  TableInv'
  <2>. DEFINE Goal == \E e : /\ EntryOK(e)
                             /\ entry' = [entry EXCEPT ![c] = e]
                             /\ pool' \in SUBSET Cred
                             /\ current' \in Cred \cup {NoId}
  <2>0. pool \in SUBSET Cred /\ current \in Cred \cup {NoId}
    BY DEF TableInv, TableTypeOK
  <2>1. CASE SetDisabled(c)
    <3>1. EntryOK(Disable(entry[c], "Manual"))
      BY <1>0, DisableOK DEF Reason
    <3>2. entry' = [entry EXCEPT ![c] = Disable(entry[c], "Manual")]
      BY <2>1 DEF SetDisabled
    <3>3. QED
      BY <2>0, <2>1, <3>1, <3>2 DEF SetDisabled
  <2>2. CASE SetEnabled(c) \/ ResetAndEnable(c)
    <3> DEFINE d0 == Enable(entry[c])
               d == [d0 EXCEPT !.failures = 0]
               e == [d EXCEPT !.refreshFailures = 0]
    <3>0. d0 \in Entry /\ d0.reason = "None" /\ ~d0.disabled
      BY <1>0, EnableEntry
    <3>1. d \in Entry /\ d.reason = "None" /\ ~d.disabled /\ d.failures = 0
      <4> HIDE DEF d0
      <4>1. QED
        BY <3>0, EntriesAssumption DEF Entry
    <3>2. EntryOK(e)
      <4> HIDE DEF d
      <4>1. QED
        BY <3>1, EntriesAssumption DEF EntryOK, Entry
    <3>3. /\ entry' = [entry EXCEPT ![c] = e]
          /\ pool' = pool /\ current' = current
      BY <2>2 DEF SetEnabled, ResetAndEnable
    <3>4. QED
      <4> HIDE DEF e
      <4>1. QED
        BY <2>0, <3>2, <3>3
  <2>3. CASE DeleteCredential(c)
    BY <2>0, <2>3, BlankOK DEF DeleteCredential
  <2>4. CASE Elapse(c)
    <3> DEFINE e == [entry[c] EXCEPT !.until = "due"]
    <3>1. EntryOK(e)
      BY <1>0 DEF EntryOK, Entry
    <3>2. entry' = [entry EXCEPT ![c] = e] /\ pool' = pool /\ current' = current
      BY <2>4 DEF Elapse
    <3>3. QED
      <4> HIDE DEF e
      <4>1. QED
        BY <2>0, <3>1, <3>2
  <2>5. ASSUME NEW p \in Priority, SetPriority(c, p)
        PROVE  Goal
    <3> DEFINE e == [entry[c] EXCEPT !.priority = p]
    <3>1. EntryOK(e)
      BY <1>0 DEF EntryOK, Entry
    <3>2. entry' = [entry EXCEPT ![c] = e] /\ pool' = pool /\ current' = current
      BY <2>5 DEF SetPriority
    <3>3. QED
      <4> HIDE DEF e
      <4>1. QED
        BY <2>0, <3>1, <3>2
  <2>6. ASSUME NEW p \in Priority, AddCredential(c, p)
        PROVE  Goal
    BY <2>0, <2>6, FreshOK DEF AddCredential
  <2>7. QED
    BY <2>1, <2>2, <2>3, <2>4, <2>5, <2>6
<1>1. e \in Entry
  BY DEF EntryOK
<1>2. QED
  BY <1>1, EntryWrite

LEMMA CurrentInv ==
  ASSUME TableInv,
         SelectHighestPriority \/ SwitchToNext \/ ResetCurrentIfEmpty
  PROVE  TableInv'
<1>1. current' \in Cred \cup {NoId}
  BY DEF TableInv, TableTypeOK, SelectHighestPriority, SwitchToNext,
         ResetCurrentIfEmpty, BestServing, Best, Serving
<1>2. pool' = pool /\ entry' = entry
  BY DEF SelectHighestPriority, SwitchToNext, ResetCurrentIfEmpty
<1>3. QED
  BY <1>1, <1>2 DEF TableInv, TableTypeOK, EntryOK

-----------------------------------------------------------------------------
(* The specification preserves the invariant. *)

LEMMA InitInv == Init => IInv
<1>. SUFFICES ASSUME Init PROVE IInv
  OBVIOUS
<1>1. ASSUME NEW c \in Cred
      PROVE  EntryOK(entry[c]) /\ entry[c] \in Entry
  <2>1. PICK p \in Priority : entry[c] \in Loaded(p)
    BY DEF Init, TableInit
  <2>2. EntryOK(entry[c])
    BY <2>1, LoadedOK
  <2>3. QED
    BY <2>2 DEF EntryOK
<1>2. current \in Cred \cup {NoId}
  BY DEF Init, TableInit, BestServing, Best, Serving
<1>3. entry \in [Cred -> Entry]
  BY <1>1 DEF Init, TableInit
<1>4. QED
  BY <1>1, <1>2, <1>3
     DEF Init, TableInit, IInv, TypeOK, TableInv, TableTypeOK, Idle, Stage

LEMMA GotoType ==
  ASSUME admin \in [Operator -> [stage: Stage, cred: Cred \cup {NoId}]],
         NEW o \in Operator, NEW stage \in Stage, Goto(o, stage)
  PROVE  admin' \in [Operator -> [stage: Stage, cred: Cred \cup {NoId}]]
  BY DEF Goto

LEMMA AdministerInv ==
  ASSUME IInv, NEW o \in Operator, Administer(o)
  PROVE  IInv'
<1>. SUFFICES /\ TableInv'
              /\ admin' \in [Operator -> [stage: Stage, cred: Cred \cup {NoId}]]
              /\ picked' = picked
  BY DEF IInv, TypeOK, TableInv
<1>0. /\ TableInv
      /\ admin \in [Operator -> [stage: Stage, cred: Cred \cup {NoId}]]
  BY DEF IInv, TypeOK
<1>1. ASSUME NEW c \in Cred, BeginDisable(o, c)
      PROVE  /\ TableInv'
             /\ admin' \in [Operator -> [stage: Stage, cred: Cred \cup {NoId}]]
             /\ picked' = picked
  BY <1>0, <1>1 DEF BeginDisable, TableInv, TableTypeOK, EntryOK, Stage
<1>2. CASE FinishDisable(o)
  <2>1. CASE admin[o].cred \in Cred /\ SetDisabled(admin[o].cred)
    BY <1>0, <1>2, <2>1, AdminTableInv, GotoType DEF FinishDisable, SetDisabled, Stage
  <2>2. CASE UNCHANGED tableVars
    BY <1>0, <1>2, <2>2, GotoType
       DEF FinishDisable, tableVars, TableInv, TableTypeOK, EntryOK, Stage
  <2>3. QED
    BY <1>0, <1>2, <2>1, <2>2
       DEF FinishDisable, SetDisabled, TableInv, TableTypeOK
<1>3. ASSUME NEW c \in Cred, Enabling(o, c) \/ Delete(o, c)
      PROVE  /\ TableInv'
             /\ admin' \in [Operator -> [stage: Stage, cred: Cred \cup {NoId}]]
             /\ picked' = picked
  BY <1>0, <1>3, AdminTableInv, GotoType DEF Enabling, Delete, Stage
<1>4. ASSUME NEW c \in Cred, NEW p \in Priority, Reprioritise(o, c, p)
      PROVE  /\ TableInv'
             /\ admin' \in [Operator -> [stage: Stage, cred: Cred \cup {NoId}]]
             /\ picked' = picked
  BY <1>0, <1>4, AdminTableInv, GotoType DEF Reprioritise, Stage
<1>5. CASE Select(o) \/ DropIfEmpty(o) \/ Switch(o)
  BY <1>0, <1>5, CurrentInv, GotoType DEF Select, DropIfEmpty, Switch, Stage
<1>6. CASE Persist(o) \/ \E c \in Cred : SetMaxConcurrency(o, c)
  BY <1>0, <1>6, GotoType
     DEF Persist, SetMaxConcurrency, TableInv, TableTypeOK, EntryOK, Stage
<1>7. QED
  BY <1>1, <1>2, <1>3, <1>4, <1>5, <1>6 DEF Administer, Edit

LEMMA NextInv == IInv /\ [Next]_vars => IInv'
<1>. SUFFICES ASSUME IInv, [Next]_vars PROVE IInv'
  OBVIOUS
<1>0. TableInv
  BY DEF IInv
<1>1. CASE Traffic
  <2>1. TableInv'
    BY <1>0, <1>1, OutcomeInv, RevivalInv DEF Traffic
  <2>2. QED
    BY <1>1, <2>1 DEF Traffic, IInv, TypeOK, TableInv
<1>2. ASSUME NEW r \in Request, NEW c \in Cred, Pick(r, c)
      PROVE  IInv'
  BY <1>2 DEF Pick, IInv, TypeOK, TableInv, TableTypeOK, EntryOK
<1>3. ASSUME NEW r \in Request, StoreCurrent(r)
      PROVE  IInv'
  BY <1>3 DEF StoreCurrent, IInv, TypeOK, TableInv, TableTypeOK, EntryOK
<1>4. ASSUME NEW c \in Cred, Tick(c)
      PROVE  IInv'
  <2>1. TableInv'
    BY <1>0, <1>4, AdminTableInv DEF Tick
  <2>2. QED
    BY <1>4, <2>1 DEF Tick, IInv, TypeOK, TableInv
<1>5. ASSUME NEW o \in Operator, Administer(o)
      PROVE  IInv'
  BY <1>5, AdministerInv
<1>6. CASE UNCHANGED vars
  BY <1>6 DEF vars, IInv, TypeOK, TableInv, TableTypeOK, EntryOK
<1>7. QED
  BY <1>1, <1>2, <1>3, <1>4, <1>5, <1>6 DEF Next

LEMMA Invariance == Spec => []IInv
  BY InitInv, NextInv, PTL DEF Spec
-----------------------------------------------------------------------------
(* Theorems. *)

(* Every reachable table is well typed; in particular no failure counter   *)
(* ever exceeds the threshold (token_manager.rs counts in a u32).          *)
THEOREM TypeCorrect == Spec => []TypeOK
<1>1. IInv => TypeOK
  BY DEF IInv
<1>2. QED
  BY <1>1, Invariance, PTL

(* A credential is disabled exactly when a reason is on record, and a      *)
(* rate-limited one always has a deadline.                                 *)
THEOREM ReasonRecorded == Spec => []ReasonOnRecord
<1>1. IInv => ReasonOnRecord
  BY DEF IInv, TableInv, TableTypeOK, EntryOK, ReasonOnRecord
<1>2. QED
  BY <1>1, Invariance, PTL

(* However a credential came back into service, both of its counters are   *)
(* below max_failures.                                                     *)
THEOREM ThresholdHolds == Spec => []ThresholdEnforced
<1>1. IInv => ThresholdEnforced
  <2>1. SUFFICES ASSUME TableInv, NEW c \in Serving
                 PROVE  /\ entry[c].failures < MaxFailures
                        /\ entry[c].refreshFailures < MaxFailures
    BY DEF IInv, ThresholdEnforced
  <2>2. c \in Cred
    BY <2>1 DEF TableInv, TableTypeOK, Serving
  <2>3. QED
    BY <2>1, <2>2, ServingEntry
<1>2. QED
  BY <1>1, Invariance, PTL

(* What each kind of step may do to the reason of a latched credential.    *)
LEMMA ReportKeepsLatched ==
  ASSUME NEW d \in Cred, entry[d].disabled, entry \in [Cred -> Entry],
         NEW c \in Cred, NEW e, Report(c, e)
  PROVE  entry'[d] = entry[d]
  BY DEF Report, Serving

LEMMA TrafficKeepsLatched ==
  ASSUME TableInv, NEW d \in Cred, entry[d].reason \in Latched, Traffic
  PROVE  entry'[d].reason = entry[d].reason
<1>0. entry \in [Cred -> Entry] /\ entry[d].disabled
  BY DEF TableInv, TableTypeOK, EntryOK, Latched
<1>1. CASE SweepRateLimited
  BY <1>0, <1>1 DEF SweepRateLimited, Latched
<1>2. CASE Heal
  BY <1>0, <1>2 DEF Heal, Latched
<1>3. ASSUME NEW c \in Cred, Bookkeeping(c)
      PROVE  entry'[d].reason = entry[d].reason
  BY <1>3, BookkeepingKeeps
<1>4. ASSUME NEW c \in Cred,
             \/ ReportFailure(c) \/ ReportQuotaExhausted(c) \/ ReportRateLimited(c)
             \/ ReportRefreshFailure(c) \/ ReportRefreshTokenInvalid(c)
      PROVE  entry'[d].reason = entry[d].reason
  BY <1>0, <1>4, ReportKeepsLatched
     DEF ReportFailure, ReportQuotaExhausted, ReportRateLimited,
         ReportRefreshFailure, ReportRefreshTokenInvalid
<1>5. QED
  BY <1>1, <1>2, <1>3, <1>4 DEF Traffic, Outcome, Bookkeeping

(* A step of an operator moves that operator's call.                       *)
LEMMA AdministerMoves ==
  ASSUME IInv, NEW o \in Operator, Administer(o)
  PROVE  admin'[o] # admin[o]
<1>1. admin \in [Operator -> [stage: Stage, cred: Cred \cup {NoId}]]
  BY DEF IInv, TypeOK
<1>2. ASSUME NEW stage \in Stage, Goto(o, stage), admin[o].stage # stage
      PROVE  admin'[o] # admin[o]
  BY <1>1, <1>2 DEF Goto
<1>3. ASSUME NEW c \in Cred, BeginDisable(o, c)
      PROVE  admin'[o] # admin[o]
  BY <1>1, <1>3 DEF BeginDisable, Idle
<1>4. CASE ~\E c \in Cred : BeginDisable(o, c)
  BY <1>2, <1>4 DEF Administer, Edit, Enabling, SetMaxConcurrency, Reprioritise, Delete, FinishDisable, Select,
                    DropIfEmpty, Switch, Persist, Idle, Stage
<1>5. QED
  BY <1>3, <1>4

(* Traffic never lifts or overwrites what an operator, a quota, a dead     *)
(* refresh token or a bad configuration has put out of service.            *)
THEOREM LatchedIsOperators == Spec => OnlyOperatorLifts
<1> DEFINE Step == \A c \in pool :
                     entry[c].reason \in Latched /\ entry'[c].reason # entry[c].reason
                       => \E o \in Operator : admin'[o] # admin[o]
<1>1. IInv /\ [Next]_vars => [Step]_vars
  <2>1. SUFFICES ASSUME IInv, Next, NEW c \in pool, entry[c].reason \in Latched,
                        entry'[c].reason # entry[c].reason
                 PROVE  \E o \in Operator : admin'[o] # admin[o]
    OBVIOUS
  <2>2. TableInv /\ c \in Cred /\ entry[c] \in Entry
    BY <2>1 DEF IInv, TableInv, TableTypeOK
  <2>3. ~Traffic
    BY <2>1, <2>2, TrafficKeepsLatched
  <2>4. ~\E d \in Cred : Tick(d)
    BY <2>1, <2>2 DEF Tick, Elapse, TableInv, TableTypeOK, Entry
  <2>5. ~\E r \in Request : StoreCurrent(r) \/ \E d \in Cred : Pick(r, d)
    BY <2>1 DEF StoreCurrent, Pick
  <2>6. QED
    BY <2>1, <2>3, <2>4, <2>5, AdministerMoves DEF Next
<1>2. QED
  BY <1>1, Invariance, PTL DEF Spec, OnlyOperatorLifts
-----------------------------------------------------------------------------
(* Refinement: the pool implements CredentialLifecycle. *)

LEMMA StatusOfEntry ==
  ASSUME NEW e \in Entry, EntryOK(e)
  PROVE  /\ StatusOf(e) = "serving" <=> e.reason = "None"
         /\ StatusOf(e) = "tripped" <=> e.reason = "TooManyFailures"
         /\ StatusOf(e) = "cooling" <=> e.reason = "RateLimited" /\ e.until = "pending"
         /\ StatusOf(e) = "rested" <=> e.reason = "RateLimited" /\ e.until = "due"
         /\ StatusOf(e) = "latched" <=> e.reason \in Latched
         /\ StatusOf(e) \in {"serving", "tripped", "cooling", "rested", "latched"}
<1>1. CASE e.reason = "None"
  BY <1>1 DEF EntryOK, StatusOf, Latched, Reason
<1>2. CASE e.reason = "TooManyFailures"
  BY <1>2 DEF EntryOK, StatusOf, Latched, Reason
<1>3. CASE e.reason = "RateLimited"
  <2>1. e.disabled /\ e.until \in {"pending", "due"}
    BY <1>3 DEF EntryOK, Entry
  <2>2. StatusOf(e) = IF e.until = "pending" THEN "cooling" ELSE "rested"
    BY <1>3, <2>1 DEF StatusOf
  <2>3. QED
    BY <1>3, <2>1, <2>2 DEF Latched, Reason
<1>4. CASE e.reason \in Latched
  <2>1. e.disabled /\ e.reason \notin {"None", "TooManyFailures", "RateLimited"}
    BY <1>4 DEF EntryOK, Latched, Reason
  <2>2. StatusOf(e) = "latched"
    BY <2>1 DEF StatusOf
  <2>3. QED
    BY <1>4, <2>1, <2>2
<1>5. QED
  BY <1>1, <1>2, <1>3, <1>4 DEF Entry, Latched, Reason

(* Writing one entry changes the status of one credential.                 *)
LEMMA StatusWrite ==
  ASSUME TableInv, NEW c \in pool, NEW e, entry' = [entry EXCEPT ![c] = e], pool' = pool
  PROVE  StatusMap' = [StatusMap EXCEPT ![c] = StatusOf(e)]
  BY DEF StatusMap, TableInv, TableTypeOK

(* An entry whose disabled flag, reason and deadline stay keeps its status. *)
LEMMA StatusKept ==
  ASSUME NEW e, NEW f, f.disabled = e.disabled, f.reason = e.reason, f.until = e.until
  PROVE  StatusOf(f) = StatusOf(e)
  BY DEF StatusOf

LEMMA OutcomeRefines ==
  ASSUME TableInv, NEW c \in Cred, Outcome(c), UNCHANGED admin
  PROVE  Lifecycle!Withdraw(c) \/ UNCHANGED StatusMap
<1>1. CASE ReportsOf(c) /\ c \in Serving
  <2>1. PICK e : /\ Report(c, e) /\ EntryOK(e)
                 /\ e.reason = "RateLimited" => e.until = "pending"
    BY <1>1, ReportedEntry
  <2>2. c \in pool /\ EntryOK(entry[c]) /\ entry[c] \in Entry /\ entry[c].reason = "None"
    BY <1>1, ServingEntry DEF Serving
  <2>3. StatusMap[c] = "serving"
    BY <2>2, StatusOfEntry DEF StatusMap
  <2>4. StatusMap' = [StatusMap EXCEPT ![c] = StatusOf(e)]
    BY <1>1, <2>1, <2>2, StatusWrite DEF Report
  <2>5. e \in Entry
    BY <2>1 DEF EntryOK
  <2>6. StatusOf(e) \in {"serving", "tripped", "cooling", "latched"}
    BY <2>1, <2>5, StatusOfEntry
  <2>7. CASE StatusOf(e) = "serving"
    BY <2>3, <2>4, <2>7 DEF StatusMap
  <2>8. CASE StatusOf(e) # "serving"
    BY <2>3, <2>4, <2>6, <2>8 DEF Lifecycle!Withdraw, Working
  <2>9. QED
    BY <2>7, <2>8
<1>2. CASE ReportsOf(c) /\ c \notin Serving
  BY <1>2, ReportedEntry DEF Report, StatusMap
<1>3. CASE Bookkeeping(c)
  <2>1. \A d \in Cred : StatusOf(entry'[d]) = StatusOf(entry[d])
    BY <1>3, BookkeepingKeeps, StatusKept
  <2>2. pool' = pool
    BY <1>3, BookkeepingKeeps
  <2>3. QED
    BY <2>1, <2>2 DEF StatusMap
<1>4. QED
  BY <1>1, <1>2, <1>3 DEF Outcome, ReportsOf, Bookkeeping

(* Both revivals return exactly one class of credentials to service.       *)
LEMMA RevivalRefines ==
  ASSUME TableInv, SweepRateLimited \/ Heal, UNCHANGED admin
  PROVE  Lifecycle!Return("rested") \/ Lifecycle!Return("tripped")
<1>0. \A c \in Cred : EntryOK(entry[c]) /\ entry[c] \in Entry
  BY DEF TableInv, EntryOK
<1>1. CASE SweepRateLimited
  <2>1. ASSUME NEW c \in Cred, c \in pool
        PROVE  StatusOf(entry'[c]) = IF StatusOf(entry[c]) = "rested"
                                       THEN "serving" ELSE StatusOf(entry[c])
    <3>1. CASE entry[c].reason = "RateLimited" /\ entry[c].until = "due"
      <4>1. entry'[c] = [Enable(entry[c]) EXCEPT !.until = "none"]
        BY <1>0, <1>1, <2>1, <3>1 DEF SweepRateLimited, EntryOK
      <4>2. ~entry'[c].disabled
        BY <1>0, <4>1 DEF Enable, Entry
      <4>3. QED
        BY <1>0, <3>1, <4>2, StatusOfEntry DEF StatusOf
    <3>2. CASE ~(entry[c].reason = "RateLimited" /\ entry[c].until = "due")
      BY <1>0, <1>1, <3>2, StatusOfEntry DEF SweepRateLimited, EntryOK, Entry
    <3>3. QED
      BY <3>1, <3>2
  <2>2. Lifecycle!Return("rested")
    BY <1>1, <2>1 DEF Lifecycle!Return, StatusMap, Working, SweepRateLimited
  <2>3. QED
    BY <2>2
<1>2. CASE Heal
  <2>1. ASSUME NEW c \in Cred, c \in pool
        PROVE  StatusOf(entry'[c]) = IF StatusOf(entry[c]) = "tripped"
                                       THEN "serving" ELSE StatusOf(entry[c])
    <3>1. CASE entry[c].reason = "TooManyFailures"
      <4>1. entry'[c] = [Enable(entry[c]) EXCEPT !.failures = 0]
        BY <1>2, <2>1, <3>1 DEF Heal
      <4>2. ~entry'[c].disabled
        BY <1>0, <4>1 DEF Enable, Entry
      <4>3. QED
        BY <1>0, <3>1, <4>2, StatusOfEntry DEF StatusOf
    <3>2. CASE entry[c].reason # "TooManyFailures"
      BY <1>0, <1>2, <3>2, StatusOfEntry DEF Heal
    <3>3. QED
      BY <3>1, <3>2
  <2>2. Lifecycle!Return("tripped")
    BY <1>2, <2>1 DEF Lifecycle!Return, StatusMap, Working, Heal
  <2>3. QED
    BY <2>2
<1>3. QED
  BY <1>1, <1>2

(* A part of an operator's call that leaves every status where it is.      *)
LEMMA QuietRefines ==
  ASSUME \A c \in pool : StatusOf(entry'[c]) = StatusOf(entry[c]), pool' = pool
  PROVE  Lifecycle!Administer
  BY DEF Lifecycle!Administer, StatusMap, Working

LEMMA SettleRefines ==
  ASSUME TableInv, NEW o \in Operator, NEW c \in Cred,
         admin[o] # Idle \/ admin'[o] # Idle,
         \/ SetDisabled(c) \/ SetEnabled(c) \/ ResetAndEnable(c) \/ DeleteCredential(c)
         \/ \E p \in Priority : AddCredential(c, p)
  PROVE  Lifecycle!Settle(o, c)
<1>0. /\ EntryOK(entry[c]) /\ entry[c] \in Entry
      /\ entry \in [Cred -> Entry] /\ pool \in SUBSET Cred
  BY DEF TableInv, TableTypeOK, EntryOK
<1>1. o \in Working \/ o \in Working'
  BY DEF Working
<1>2. CASE SetDisabled(c)
  <2> DEFINE e == Disable(entry[c], "Manual")
  <2>1. EntryOK(e) /\ e.reason = "Manual" /\ e \in Entry
    BY <1>0, DisableOK DEF Reason, EntryOK
  <2>2. StatusOf(e) = "latched"
    <3> HIDE DEF e
    <3>1. QED
      BY <2>1, StatusOfEntry DEF Latched, Reason
  <2>3. StatusMap' = [StatusMap EXCEPT ![c] = "latched"] /\ StatusMap[c] # "absent"
    <3>1. StatusMap' = [StatusMap EXCEPT ![c] = StatusOf(e)]
      BY <1>2, StatusWrite DEF SetDisabled
    <3>2. StatusMap[c] # "absent"
      BY <1>0, <1>2, StatusOfEntry DEF SetDisabled, StatusMap
    <3>3. QED
      BY <2>2, <3>1, <3>2
  <2>4. QED
    BY <1>1, <2>3 DEF Lifecycle!Settle
<1>3. CASE SetEnabled(c) \/ ResetAndEnable(c)
  <2>1. c \in pool /\ pool' = pool
        /\ entry' = [entry EXCEPT ![c] = [Enable(entry[c]) EXCEPT !.failures = 0,
                                                                   !.refreshFailures = 0]]
    BY <1>3 DEF SetEnabled, ResetAndEnable
  <2>2. ~entry'[c].disabled
    BY <1>0, <2>1 DEF Enable, Entry
  <2>3. StatusOf(entry'[c]) = "serving"
    BY <2>2 DEF StatusOf
  <2>4. StatusMap' = [StatusMap EXCEPT ![c] = "serving"]
    BY <1>0, <2>1, <2>3 DEF StatusMap
  <2>5. QED
    BY <1>1, <2>4 DEF Lifecycle!Settle
<1>4. CASE DeleteCredential(c)
  <2>1. StatusMap' = [StatusMap EXCEPT ![c] = "absent"]
    BY <1>0, <1>4 DEF DeleteCredential, StatusMap
  <2>2. StatusMap[c] # "serving"
    BY <1>0, <1>4, StatusOfEntry DEF DeleteCredential, StatusMap, EntryOK
  <2>3. QED
    BY <1>1, <2>1, <2>2 DEF Lifecycle!Settle
<1>5. ASSUME NEW p \in Priority, AddCredential(c, p)
      PROVE  Lifecycle!Settle(o, c)
  <2>1. entry'[c] = Fresh(p) /\ \A d \in Cred \ {c} : entry'[d] = entry[d]
    BY <1>0, <1>5 DEF AddCredential
  <2>2. StatusOf(entry'[c]) = "serving"
    BY <2>1 DEF StatusOf, Fresh
  <2>3. StatusMap' = [StatusMap EXCEPT ![c] = "serving"]
    BY <1>0, <1>5, <2>1, <2>2 DEF AddCredential, StatusMap
  <2>4. QED
    BY <1>1, <2>3 DEF Lifecycle!Settle
<1>6. QED
  BY <1>2, <1>3, <1>4, <1>5

LEMMA AdministerRefines ==
  ASSUME IInv, NEW o \in Operator, Administer(o)
  PROVE  Lifecycle!Next
<1>0. /\ TableInv
      /\ admin \in [Operator -> [stage: Stage, cred: Cred \cup {NoId}]]
  BY DEF IInv, TypeOK
<1>1. admin[o] # Idle \/ admin'[o] # Idle
  BY AdministerMoves
<1>2. CASE \/ \E c \in Cred : BeginDisable(o, c) \/ SetMaxConcurrency(o, c)
           \/ Select(o) \/ DropIfEmpty(o) \/ Switch(o) \/ Persist(o)
           \/ UNCHANGED tableVars
  <2>1. pool' = pool /\ entry' = entry
    BY <1>2 DEF BeginDisable, SetMaxConcurrency, Select, SelectHighestPriority, DropIfEmpty,
                ResetCurrentIfEmpty, Switch, SwitchToNext, Persist, tableVars
  <2>2. QED
    BY <2>1, QuietRefines DEF Lifecycle!Next
<1>3. CASE FinishDisable(o) /\ ~UNCHANGED tableVars
  <2>1. SetDisabled(admin[o].cred)
    BY <1>3 DEF FinishDisable
  <2>2. admin[o].cred \in Cred
    BY <1>0, <2>1 DEF SetDisabled, TableInv, TableTypeOK
  <2>3. QED
    BY <1>0, <1>1, <2>1, <2>2, SettleRefines DEF Lifecycle!Next
<1>4. ASSUME NEW c \in Cred, Enabling(o, c) \/ Delete(o, c)
      PROVE  Lifecycle!Next
  BY <1>0, <1>1, <1>4, SettleRefines DEF Enabling, Delete, Lifecycle!Next
<1>5. ASSUME NEW c \in Cred, NEW p \in Priority, Reprioritise(o, c, p)
      PROVE  Lifecycle!Next
  <2>1. ASSUME NEW d \in pool
        PROVE  StatusOf(entry'[d]) = StatusOf(entry[d])
    <3>1. entry[d] \in Entry
      BY <1>0 DEF TableInv, TableTypeOK
    <3>2. /\ entry'[d].disabled = entry[d].disabled
          /\ entry'[d].reason = entry[d].reason
          /\ entry'[d].until = entry[d].until
      BY <1>0, <1>5, <3>1 DEF Reprioritise, SetPriority, TableInv, TableTypeOK, Entry
    <3>3. QED
      BY <3>2, StatusKept
  <2>2. QED
    BY <1>5, <2>1, QuietRefines DEF Reprioritise, SetPriority, Lifecycle!Next
<1>6. QED
  BY <1>2, <1>3, <1>4, <1>5 DEF Administer, Edit

LEMMA TickRefines ==
  ASSUME TableInv, NEW c \in Cred, Tick(c)
  PROVE  Lifecycle!CoolDown(c) \/ UNCHANGED StatusMap
<1> DEFINE e == [entry[c] EXCEPT !.until = "due"]
<1>1. /\ EntryOK(entry[c]) /\ entry[c] \in Entry
      /\ c \in pool /\ entry[c].until = "pending"
  BY DEF TableInv, EntryOK, Tick, Elapse
<1>2. EntryOK(e) /\ e \in Entry /\ e.until = "due"
      /\ e.reason = entry[c].reason /\ e.disabled = entry[c].disabled
  BY <1>1 DEF EntryOK, Entry
<1>3. StatusMap' = [StatusMap EXCEPT ![c] = StatusOf(e)]
  BY <1>1, StatusWrite DEF Tick, Elapse
<1>4. StatusMap[c] = StatusOf(entry[c])
  BY <1>1 DEF StatusMap
<1>. HIDE DEF e
<1>5. CASE entry[c].reason = "RateLimited"
  <2>1. StatusOf(entry[c]) = "cooling" /\ StatusOf(e) = "rested"
    BY <1>1, <1>2, <1>5, StatusOfEntry
  <2>2. QED
    BY <1>3, <1>4, <2>1 DEF Lifecycle!CoolDown, Working, Tick
<1>6. CASE entry[c].reason # "RateLimited"
  <2>1. StatusOf(e) = StatusOf(entry[c])
    BY <1>1, <1>2, <1>6 DEF StatusOf
  <2>2. QED
    BY <1>3, <1>4, <2>1 DEF StatusMap
<1>7. QED
  BY <1>5, <1>6

(* The table, its counters, reasons, deadlines and interleaved operator    *)
(* calls implement the six-state promise of CredentialLifecycle.           *)
THEOREM PoolImplementsLifecycle == Spec => ImplementsLifecycle
<1>1. Init => Lifecycle!Init
  <2>1. SUFFICES ASSUME Init PROVE Lifecycle!Init
    OBVIOUS
  <2>2. ASSUME NEW c \in Cred
        PROVE  StatusOf(entry[c]) \in {"serving", "latched"}
    <3>1. PICK p \in Priority : entry[c] \in Loaded(p)
      BY <2>1 DEF Init, TableInit
    <3>2. EntryOK(entry[c]) /\ entry[c] \in Entry
      BY <3>1, LoadedOK DEF EntryOK
    <3>3. Fresh(p) \in Entry /\ Fresh(p).reason = "None"
      BY FreshOK DEF Fresh
    <3>4. /\ Disable(Fresh(p), "Manual").reason = "Manual"
          /\ Disable(Fresh(p), "InvalidConfig").reason = "InvalidConfig"
      BY <3>3, DisableOK DEF Reason
    <3>5. entry[c].reason \in {"None"} \cup Latched
      BY <3>1, <3>3, <3>4 DEF Loaded, Latched, Reason
    <3>6. QED
      BY <3>2, <3>5, StatusOfEntry
  <2>3. Working = {}
    BY <2>1 DEF Init, Working
  <2>4. StatusMap \in [Cred -> {"absent", "serving", "latched"}]
    BY <2>2 DEF StatusMap
  <2>5. QED
    BY <2>3, <2>4 DEF Lifecycle!Init
<1>2. IInv /\ [Next]_vars => [Lifecycle!Next]_(Lifecycle!vars)
  <2>1. SUFFICES ASSUME IInv, [Next]_vars
                 PROVE  Lifecycle!Next \/ UNCHANGED <<StatusMap, Working>>
    BY DEF Lifecycle!vars
  <2>2. TableInv
    BY <2>1 DEF IInv
  <2>3. CASE Traffic
    BY <2>2, <2>3, OutcomeRefines, RevivalRefines DEF Traffic, Lifecycle!Next, Working
  <2>4. ASSUME NEW r \in Request, StoreCurrent(r) \/ \E c \in Cred : Pick(r, c)
        PROVE  UNCHANGED <<StatusMap, Working>>
    BY <2>4 DEF StoreCurrent, Pick, StatusMap, Working
  <2>5. ASSUME NEW c \in Cred, Tick(c)
        PROVE  Lifecycle!Next \/ UNCHANGED <<StatusMap, Working>>
    BY <2>2, <2>5, TickRefines DEF Tick, Lifecycle!Next, Working
  <2>6. ASSUME NEW o \in Operator, Administer(o)
        PROVE  Lifecycle!Next
    BY <2>1, <2>6, AdministerRefines
  <2>7. CASE UNCHANGED vars
    BY <2>7 DEF vars, StatusMap, Working
  <2>8. QED
    BY <2>1, <2>3, <2>4, <2>5, <2>6, <2>7 DEF Next
<1>3. QED
  BY <1>1, <1>2, Invariance, PTL DEF Spec, ImplementsLifecycle, Lifecycle!Spec

=============================================================================
