---------------------- MODULE CredentialRegistry_proofs ----------------------
(***************************************************************************)
(* Theorems about CredentialRegistry, for every set of credentials and     *)
(* threads and every bound on the ids.                                     *)
(***************************************************************************)
EXTENDS CredentialRegistry, TLAPS

\* The rows a write-back takes are records.
LEMMA ImageType ==
  ASSUME RegistryTypeOK
  PROVE  Image \subseteq Record
<1>1. ASSUME NEW r \in table PROVE Recorded(r) \in Record
  <2>1. (r.reason # "None") \in BOOLEAN
    OBVIOUS
  <2> DEFINE d == r.reason # "None"
  <2>2. d \in BOOLEAN
    BY <2>1
  <2>3. Recorded(r) = [id |-> r.id, secret |-> r.secret, by |-> r.by, disabled |-> d]
    BY DEF Recorded
  <2> HIDE DEF d
  <2> QED
    BY <2>2, <2>3 DEF RegistryTypeOK, Row, Record
<1> QED
  BY <1>1 DEF Image

\* A row with a new reason is a row.
LEMMA MarkType ==
  ASSUME RegistryTypeOK, NEW r \in table,
         NEW why \in {"None", "Manual", "QuotaExceeded", "RateLimited"}, Mark(r, why)
  PROVE  table' \subseteq Row
<1>1. [r EXCEPT !.reason = why] \in Row
  BY DEF RegistryTypeOK, Row
<1> QED
  BY <1>1 DEF RegistryTypeOK, Mark

CallOK ==
  /\ call \in [Thread \cup {Boot} -> Call]
  /\ \A t \in Thread \cup {Boot} : call[t].step = "numbered" => call[t].id \in Id

\* A step of a call keeps the type of call.
LEMMA CallType ==
  ASSUME RegistryTypeOK, NEW t \in Anyone, NEW c \in Call, c.step # "numbered",
         call' = [call EXCEPT ![t] = c]
  PROVE  CallOK'
BY DEF CallOK, RegistryTypeOK, Anyone

LEMMA CallValues ==
  /\ Idle \in Call /\ Idle.step = "idle"
  /\ Persist \in Call /\ Persist.step = "persist"
  /\ \A S \in SUBSET Secret : LET c == [Idle EXCEPT !.step = "validating", !.secret = S]
                              IN  c \in Call /\ c.step = "validating"
  /\ \A R \in SUBSET Record : LET c == [Idle EXCEPT !.step = "holding", !.rows = R]
                              IN  c \in Call /\ c.step = "holding"
BY DEF Idle, Persist, Call, NoId, Id

\* What is loaded from the file are rows.
LEMMA StartType ==
  ASSUME RegistryTypeOK, Start
  PROVE  table' \subseteq Row
<1>1. PICK f \in [Nameless -> Id] :
         table' = {Entered(q, q.id) : q \in Named} \cup {Entered(q, f[q]) : q \in Nameless}
  BY DEF Start
<1>2. Given \subseteq Record
  <2>1. file.rows \subseteq Record
    BY DEF RegistryTypeOK, File
  <2>2. \A s \in EnvKey : [id |-> NoId, secret |-> s, by |-> Boot, disabled |-> FALSE] \in Record
    BY RegistryAssumption DEF Record
  <2> QED
    BY <2>1, <2>2 DEF Given
<1>3. \A q \in Named : q.id \in Id
  BY <1>2 DEF Named, Nameless, Record
<1>4. \A q \in Given, n \in Id : Entered(q, n) \in Row
  BY <1>2 DEF Entered, Row, Record
<1> QED
  BY <1>1, <1>3, <1>4 DEF Named, Nameless

\* The registry's variables keep their types.
THEOREM RegistryTypeCorrect == RegistrySpec => []RegistryTypeOK
<1>1. RegistryInit => RegistryTypeOK
  <2> SUFFICES ASSUME RegistryInit PROVE RegistryTypeOK OBVIOUS
  <2>1. file \in File
    BY RegistryAssumption DEF RegistryInit, FirstFile, File, Blank, Whole, Record
  <2>2. CallOK
    BY CallValues DEF CallOK, RegistryInit
  <2> QED
    BY <2>1, <2>2 DEF CallOK, RegistryInit, RegistryTypeOK
<1>2. RegistryTypeOK /\ [RegistryNext]_rvars => RegistryTypeOK'
  <2> SUFFICES ASSUME RegistryTypeOK, [RegistryNext]_rvars PROVE RegistryTypeOK' OBVIOUS
  <2> USE CallValues DEF Anyone
  <2>1. ASSUME NEW t \in Thread, NEW r \in table,
               Disable(t, r) \/ Enable(t, r) \/ QuotaOut(t, r)
        PROVE  RegistryTypeOK'
    <3>1. table' \subseteq Row
      BY <2>1, MarkType DEF Disable, Enable, QuotaOut
    <3>2. CallOK'
      BY <2>1, CallType DEF Disable, Enable, QuotaOut
    <3>3. r.secret \in Secret
      BY DEF RegistryTypeOK, Row
    <3> QED
      BY <2>1, <3>1, <3>2, <3>3 DEF CallOK, Disable, Enable, QuotaOut, Lifted, RegistryTypeOK
  <2>2. ASSUME NEW t \in Thread, NEW r \in table, Delete(t, r)
        PROVE  RegistryTypeOK'
    <3>1. CallOK'
      BY <2>2, CallType DEF Delete
    <3> QED
      BY <2>2, <3>1 DEF CallOK, Delete, Lifted, RegistryTypeOK
  <2>3. ASSUME NEW r \in table, Withdraw(r) \/ Return(r)
        PROVE  RegistryTypeOK'
    <3>1. table' \subseteq Row
      BY <2>3, MarkType DEF Withdraw, Return
    <3> QED
      BY <2>3, <3>1 DEF Withdraw, Return, RegistryTypeOK
  <2>4. ASSUME NEW t \in Thread, Touch(t) \/ RejectAdd(t)
        PROVE  RegistryTypeOK'
    <3>1. CallOK'
      BY <2>4, CallType DEF Touch, RejectAdd
    <3> QED
      BY <2>4, <3>1 DEF CallOK, Touch, RejectAdd, RegistryTypeOK
  <2>5. ASSUME NEW t \in Thread, NEW s \in Secret, BeginAdd(t, s)
        PROVE  RegistryTypeOK'
    <3>1. CallOK'
      BY <2>5, CallType DEF BeginAdd
    <3> QED
      BY <2>5, <3>1 DEF CallOK, BeginAdd, RegistryTypeOK
  <2>6. ASSUME NEW t \in Thread, Number(t)
        PROVE  RegistryTypeOK'
    <3>1. PICK n \in Id : call' = [call EXCEPT ![t].step = "numbered", ![t].id = n]
      BY <2>6 DEF Number
    <3> DEFINE c == [call[t] EXCEPT !.step = "numbered", !.id = n]
    <3>2. c \in Call /\ c.id \in Id
      BY DEF RegistryTypeOK, Call
    <3>3. call' = [call EXCEPT ![t] = c]
      BY <3>1
    <3> HIDE DEF c
    <3>4. CallOK'
      BY <3>2, <3>3 DEF CallOK, RegistryTypeOK
    <3> QED
      BY <2>6, <3>4 DEF CallOK, Number, RegistryTypeOK
  <2>7. ASSUME NEW t \in Thread, Push(t)
        PROVE  RegistryTypeOK'
    <3>1. CallOK'
      BY <2>7, CallType DEF Push
    <3>2. PICK s \in call[t].secret :
             /\ table' = table \cup {[id |-> call[t].id, secret |-> s, by |-> t, reason |-> "None"]}
             /\ ruling' = [ruling EXCEPT ![s] = Lifted(s)]
      BY <2>7 DEF Push
    <3>3. s \in Secret /\ call[t].id \in Id
      BY <2>7 DEF Push, RegistryTypeOK, Call
    <3>4. [id |-> call[t].id, secret |-> s, by |-> t, reason |-> "None"] \in Row
      BY <3>3 DEF Row
    <3>5. ruling' \in [Secret -> {"never", "none", "pending", "durable"}]
      BY <3>2, <3>3 DEF Lifted, RegistryTypeOK
    <3> QED
      BY <2>7, <3>1, <3>2, <3>4, <3>5 DEF CallOK, Push, RegistryTypeOK
  <2>8. ASSUME NEW t \in Anyone, Snapshot(t) \/ OpenFails(t) \/ Truncate(t)
        PROVE  RegistryTypeOK'
    <3>1. CASE Snapshot(t) \/ OpenFails(t)
      <4>1. CallOK'
        BY <3>1, ImageType, CallType DEF Snapshot, OpenFails
      <4> QED
        BY <3>1, <4>1 DEF CallOK, Snapshot, OpenFails, RegistryTypeOK
    <3>2. CASE Truncate(t)
      <4>1. CallOK'
        BY <3>2 DEF CallOK, Truncate, RegistryTypeOK, Call
      <4>2. Blank \in File
        BY DEF Blank, File
      <4> QED
        BY <3>2, <4>1, <4>2 DEF CallOK, Truncate, RegistryTypeOK
    <3> QED
      BY <2>8, <3>1, <3>2
  <2>9. ASSUME NEW t \in Anyone, Write(t) \/ WriteFails(t)
        PROVE  RegistryTypeOK'
    <3>1. CallOK'
      BY <2>9, CallType DEF Write, WriteFails
    <3>2. Torn \in File /\ Whole(call[t].rows) \in File
      BY DEF RegistryTypeOK, Call, File, Torn, Whole
    <3>3. file' \in File
      BY <2>9, <3>2 DEF Write, WriteFails, RegistryTypeOK
    <3>4. ruling' \in [Secret -> {"never", "none", "pending", "durable"}]
      <4>1. CASE Write(t)
        <5>1. PICK f :
                 ruling' = [s \in Secret |->
                              IF /\ ruling[s] = "pending"
                                 /\ \E q \in f.rows : q.secret = s /\ q.disabled
                                THEN "durable" ELSE ruling[s]]
          BY <4>1 DEF Write
        <5> QED
          BY <5>1 DEF RegistryTypeOK
      <4>2. CASE WriteFails(t)
        BY <4>2 DEF WriteFails, RegistryTypeOK
      <4> QED
        BY <2>9, <4>1, <4>2
    <3> QED
      BY <2>9, <3>1, <3>3, <3>4 DEF CallOK, Write, WriteFails, RegistryTypeOK
  <2>10. CASE Crash
    <3>1. CallOK'
      BY <2>10 DEF CallOK, Crash
    <3>2. Torn \in File
      BY DEF Torn, File
    <3>3. file' \in File
      BY <2>10, <3>2 DEF Crash, RegistryTypeOK
    <3>4. ruling' \in [Secret -> {"never", "none", "pending", "durable"}]
      BY <2>10 DEF Crash, RegistryTypeOK
    <3> QED
      BY <2>10, <3>1, <3>3, <3>4 DEF CallOK, Crash, RegistryTypeOK
  <2>11. CASE Start
    <3>1. table' \subseteq Row
      BY <2>11, StartType
    <3>2. CallOK'
      <4>1. PICK c \in {Idle, Persist} : call' = [call EXCEPT ![Boot] = c]
        BY <2>11 DEF Start
      <4> QED
        BY <4>1, CallType
    <3> QED
      BY <2>11, <3>1, <3>2 DEF CallOK, Start, RegistryTypeOK
  <2>12. CASE UNCHANGED rvars
    BY <2>12 DEF rvars, RegistryTypeOK
  <2> QED
    BY <2>1, <2>2, <2>3, <2>4, <2>5, <2>6, <2>7, <2>8, <2>9, <2>10, <2>11, <2>12
       DEF RegistryNext, Decide, Traffic, Add, WriteBack
<1> QED
  BY <1>1, <1>2, PTL DEF RegistrySpec

-----------------------------------------------------------------------------
(* The inductive invariant: one lemma for each of its parts.               *)

LEMMA StepValues ==
  /\ Idle.step = "idle" /\ Persist.step = "persist"
  /\ Idle.rows = {} /\ Persist.rows = {}
  /\ \A S : [Idle EXCEPT !.step = "validating", !.secret = S].step = "validating"
  /\ \A S : [Idle EXCEPT !.step = "validating", !.secret = S].secret = S
  /\ \A S : [Idle EXCEPT !.step = "validating", !.secret = S].rows = {}
  /\ \A R : [Idle EXCEPT !.step = "holding", !.rows = R].step = "holding"
  /\ \A R : [Idle EXCEPT !.step = "holding", !.rows = R].rows = R
BY DEF Idle, Persist

\* A new reason changes neither ids nor secrets.
LEMMA MarkKeeps ==
  ASSUME RegistryTypeOK, NEW r \in table, NEW why, Mark(r, why)
  PROVE  Ids(table') = Ids(table) /\ Secrets(table') = Secrets(table)
<1> DEFINE m == [r EXCEPT !.reason = why]
<1>1. m.id = r.id /\ m.secret = r.secret
  BY DEF RegistryTypeOK, Row
<1>2. table' = (table \ {r}) \cup {m}
  BY DEF Mark
<1> HIDE DEF m
<1> QED
  BY <1>1, <1>2 DEF Ids, Secrets

\* What a step of a write-back does to the calls.
LEMMA WriteBackCall ==
  ASSUME RegistryTypeOK, NEW t \in Anyone,
         Snapshot(t) \/ OpenFails(t) \/ Truncate(t) \/ Write(t) \/ WriteFails(t)
  PROVE  /\ \A u \in Anyone : u # t => call'[u] = call[u]
         /\ Snapshot(t) => call'[t].step = "holding" /\ call'[t].rows = Image
         /\ Truncate(t) => call'[t].step = "open" /\ call'[t].rows = call[t].rows
         /\ OpenFails(t) \/ Write(t) \/ WriteFails(t) => call'[t] = Idle
         /\ call'[t].step \in {"idle", "holding", "open"}
         /\ table' = table /\ up' = up
<1>0. call \in [Anyone -> Call]
  BY DEF RegistryTypeOK, Anyone
<1>1. Snapshot(t) => call'[t].step = "holding" /\ call'[t].rows = Image
  BY <1>0, StepValues DEF Snapshot
<1>2. Truncate(t) => call'[t].step = "open" /\ call'[t].rows = call[t].rows
  BY <1>0 DEF Truncate, Call
<1>3. OpenFails(t) \/ Write(t) \/ WriteFails(t) => call'[t] = Idle
  BY <1>0 DEF OpenFails, Write, WriteFails
<1>4. table' = table /\ up' = up
  BY DEF Snapshot, OpenFails, Truncate, Write, WriteFails
<1>5. \A u \in Anyone : u # t => call'[u] = call[u]
  BY <1>0 DEF Snapshot, OpenFails, Truncate, Write, WriteFails
<1> QED
  BY <1>1, <1>2, <1>3, <1>4, <1>5, StepValues

\* The history of slips only grows.
LEMMA SlipsGrow ==
  ASSUME [RegistryNext]_rvars
  PROVE  slips \subseteq slips'
<1>1. CASE Decide
  BY <1>1 DEF Decide, Disable, Enable, QuotaOut, Delete
<1>2. CASE Traffic
  BY <1>2 DEF Traffic, Withdraw, Return
<1>3. CASE \E t \in Thread : Touch(t)
  BY <1>3 DEF Touch
<1>4. CASE Add
  BY <1>4 DEF Add, BeginAdd, RejectAdd, Number, Push
<1>5. CASE WriteBack
  BY <1>5 DEF WriteBack, Snapshot, OpenFails, Truncate, Write, WriteFails
<1>6. CASE Crash \/ Start \/ UNCHANGED rvars
  BY <1>6 DEF Crash, Start, rvars
<1> QED
  BY <1>1, <1>2, <1>3, <1>4, <1>5, <1>6 DEF RegistryNext

\* Who is at which step.
LEMMA StepKept ==
  ASSUME RegistryTypeOK, StepInv, [RegistryNext]_rvars
  PROVE  StepInv'
<1> USE StepValues, RegistryAssumption DEF Anyone, Adding
<1>0. call \in [Thread \cup {Boot} -> Call]
  BY DEF RegistryTypeOK
<1>1. ASSUME NEW t \in Thread, NEW r \in table,
             Disable(t, r) \/ Enable(t, r) \/ QuotaOut(t, r) \/ Delete(t, r)
      PROVE  StepInv'
  BY <1>0, <1>1 DEF Disable, Enable, QuotaOut, Delete, Free, Ready, StepInv
<1>2. ASSUME NEW r \in table, Withdraw(r) \/ Return(r)
      PROVE  StepInv'
  BY <1>0, <1>2 DEF Withdraw, Return, StepInv
<1>3. ASSUME NEW t \in Thread, Touch(t)
      PROVE  StepInv'
  BY <1>0, <1>3 DEF Touch, Free, Ready, StepInv
<1>4. ASSUME NEW t \in Thread, NEW s \in Secret, BeginAdd(t, s)
      PROVE  StepInv'
  BY <1>0, <1>4 DEF BeginAdd, Free, Ready, StepInv
<1>5. ASSUME NEW t \in Thread, RejectAdd(t) \/ Number(t) \/ Push(t)
      PROVE  StepInv'
  BY <1>0, <1>5 DEF RejectAdd, Number, Push, StepInv
<1>6. ASSUME NEW t \in Thread \cup {Boot},
             Snapshot(t) \/ OpenFails(t) \/ Truncate(t) \/ Write(t) \/ WriteFails(t)
      PROVE  StepInv'
  <2>1. call[t].step # "idle" /\ up' = up
    BY <1>6 DEF Snapshot, OpenFails, Truncate, Write, WriteFails
  <2>2. up
    BY <2>1 DEF StepInv
  <2>3. call'[t].step \in {"idle", "holding", "open"}
        /\ \A u \in Thread \cup {Boot} : u # t => call'[u] = call[u]
    BY <1>6, WriteBackCall, StepValues
  <2> QED
    BY <2>1, <2>2, <2>3 DEF StepInv
<1>7. CASE Crash
  BY <1>7 DEF Crash, StepInv
<1>8. CASE Start
  BY <1>0, <1>8 DEF Start, StepInv
<1>9. CASE UNCHANGED rvars
  BY <1>9 DEF rvars, StepInv
<1> QED
  BY <1>1, <1>2, <1>3, <1>4, <1>5, <1>6, <1>7, <1>8, <1>9
     DEF RegistryNext, Decide, Traffic, Add, WriteBack

\* What an add has checked or computed stays true until its push.
LEMMA AddKept ==
  ASSUME RegistryTypeOK, StepInv, AddInv, [RegistryNext]_rvars
  PROVE  AddInv'
<1> SUFFICES ASSUME "adds" \notin slips'
             PROVE  /\ \A t, u \in Thread : Adding(t)' /\ Adding(u)' => t = u
                    /\ \A t \in Thread : call'[t].step = "numbered" => call'[t].id \notin Ids(table')
                    /\ \A t \in Thread : Adding(t)' => call'[t].secret \cap Secrets(table') = {}
  BY DEF AddInv, Adding, Ids, Secrets
<1> USE StepValues, RegistryAssumption DEF Anyone, Adding
<1>0. call \in [Thread \cup {Boot} -> Call]
  BY DEF RegistryTypeOK
<1>1. "adds" \notin slips
  <2>1. slips \subseteq slips'
    BY SlipsGrow
  <2> QED
    BY <2>1
<1>2. /\ \A t, u \in Thread : Adding(t) /\ Adding(u) => t = u
      /\ \A t \in Thread : call[t].step = "numbered" => call[t].id \notin Ids(table)
      /\ \A t \in Thread : Adding(t) => call[t].secret \cap Secrets(table) = {}
  BY <1>1 DEF AddInv
<1>3. ASSUME NEW t \in Thread, NEW r \in table,
             Disable(t, r) \/ Enable(t, r) \/ QuotaOut(t, r)
      PROVE  AddInv'
  <2>1. Ids(table') = Ids(table) /\ Secrets(table') = Secrets(table)
    BY <1>3, MarkKeeps DEF Disable, Enable, QuotaOut
  <2>2. call' = [call EXCEPT ![t] = Persist]
    BY <1>3 DEF Disable, Enable, QuotaOut
  <2> QED
    BY <1>0, <1>2, <2>1, <2>2 DEF AddInv
<1>4. ASSUME NEW r \in table, Withdraw(r) \/ Return(r)
      PROVE  AddInv'
  <2>1. Ids(table') = Ids(table) /\ Secrets(table') = Secrets(table)
    BY <1>4, MarkKeeps DEF Withdraw, Return
  <2> QED
    BY <1>4, <1>2, <2>1 DEF AddInv, Withdraw, Return
<1>5. ASSUME NEW t \in Thread, NEW r \in table, Delete(t, r)
      PROVE  AddInv'
  <2>1. Ids(table') \subseteq Ids(table) /\ Secrets(table') \subseteq Secrets(table)
    BY <1>5 DEF Delete, Ids, Secrets
  <2>2. call' = [call EXCEPT ![t] = Persist]
    BY <1>5 DEF Delete
  <2> QED
    BY <1>0, <1>2, <2>1, <2>2 DEF AddInv
<1>6. ASSUME NEW t \in Thread, Touch(t) \/ RejectAdd(t)
      PROVE  AddInv'
  <2>1. table' = table /\ (call' = [call EXCEPT ![t] = Persist] \/ call' = [call EXCEPT ![t] = Idle])
    BY <1>6 DEF Touch, RejectAdd
  <2> QED
    BY <1>0, <1>2, <2>1 DEF AddInv, Ids, Secrets
<1>7. ASSUME NEW t \in Thread, NEW s \in Secret, BeginAdd(t, s)
      PROVE  AddInv'
  <2>1. \A u \in Thread : ~Adding(u)
    BY <1>7 DEF BeginAdd
  <2>2. s \notin Secrets(table) /\ table' = table
    BY <1>7 DEF BeginAdd
  <2>3. call'[t].step = "validating" /\ call'[t].secret = {s}
        /\ \A u \in Thread : u # t => call'[u] = call[u]
    BY <1>0, <1>7 DEF BeginAdd
  <2> QED
    BY <2>1, <2>2, <2>3 DEF AddInv, Ids, Secrets
<1>8. ASSUME NEW t \in Thread, Number(t)
      PROVE  AddInv'
  <2>1. PICK n \in Id : /\ IsNextId(n, Ids(table))
                        /\ call' = [call EXCEPT ![t].step = "numbered", ![t].id = n]
    BY <1>8 DEF Number
  <2>2. /\ call'[t].step = "numbered" /\ call'[t].id = n /\ call'[t].secret = call[t].secret
        /\ \A u \in Thread : u # t => call'[u] = call[u]
    BY <1>0, <2>1 DEF Call
  <2>3. n \notin Ids(table)
    BY <2>1 DEF IsNextId, Id
  <2>4. Adding(t) /\ table' = table
    BY <1>8 DEF Number
  <2> QED
    BY <1>2, <2>2, <2>3, <2>4 DEF AddInv, Ids, Secrets
<1>9. ASSUME NEW t \in Thread, Push(t)
      PROVE  AddInv'
  <2>1. Adding(t) /\ call' = [call EXCEPT ![t] = Persist]
    BY <1>9 DEF Push
  <2>2. \A u \in Thread : ~Adding(u)'
    BY <1>0, <1>2, <2>1
  <2> QED
    BY <2>2 DEF AddInv
<1>10. ASSUME NEW t \in Anyone,
              Snapshot(t) \/ OpenFails(t) \/ Truncate(t) \/ Write(t) \/ WriteFails(t)
       PROVE  AddInv'
  <2>1. call'[t].step \in {"idle", "holding", "open"}
        /\ \A u \in Thread \cup {Boot} : u # t => call'[u] = call[u]
    BY <1>10, WriteBackCall
  <2>2. table' = table
    BY <1>10 DEF Snapshot, OpenFails, Truncate, Write, WriteFails
  <2> QED
    BY <1>2, <2>1, <2>2 DEF AddInv, Ids, Secrets
<1>11. CASE Crash
  <2>1. \A t \in Thread : call'[t].step = "idle"
    BY <1>11 DEF Crash
  <2> QED
    BY <2>1 DEF AddInv
<1>12. CASE Start
  <2>1. \A t \in Thread : call'[t].step = "idle"
    BY <1>0, <1>12 DEF Start, StepInv
  <2> QED
    BY <2>1 DEF AddInv
<1>13. CASE UNCHANGED rvars
  BY <1>2, <1>13 DEF rvars, AddInv, Ids, Secrets
<1> QED
  BY <1>1, <1>3, <1>4, <1>5, <1>6, <1>7, <1>8, <1>9, <1>10, <1>11, <1>12, <1>13
     DEF RegistryNext, Decide, Traffic, Add, WriteBack, AddInv

\* Rows, or records, in which ids and secrets are unique.
Good(rows) == UniqueBy(rows) /\ OneEach(rows)

LEMMA MarkGood ==
  ASSUME RegistryTypeOK, Good(table), NEW r \in table, NEW why, Mark(r, why)
  PROVE  Good(table')
<1> DEFINE m == [r EXCEPT !.reason = why]
<1>1. m.id = r.id /\ m.secret = r.secret
  BY DEF RegistryTypeOK, Row
<1>2. table' = (table \ {r}) \cup {m}
  BY DEF Mark
<1> HIDE DEF m
<1> QED
  BY <1>1, <1>2 DEF Good, UniqueBy, OneEach

LEMMA RecordedFields ==
  ASSUME NEW r
  PROVE  /\ Recorded(r).id = r.id
         /\ Recorded(r).secret = r.secret
         /\ Recorded(r).disabled <=> r.reason # "None"
<1> DEFINE d == r.reason # "None"
<1>1. Recorded(r) = [id |-> r.id, secret |-> r.secret, by |-> r.by, disabled |-> d]
  BY DEF Recorded
<1> HIDE DEF d
<1>2. Recorded(r).id = r.id /\ Recorded(r).secret = r.secret /\ Recorded(r).disabled = d
  BY <1>1
<1>3. Recorded(r).disabled <=> d
  BY <1>2, Zenon
<1> QED
  BY <1>2, <1>3 DEF d

LEMMA ImageGood ==
  ASSUME Good(table)
  PROVE  Good(Image)
<1>1. \A r : Recorded(r).id = r.id /\ Recorded(r).secret = r.secret
  BY RecordedFields
<1>2. \A a \in Image : \E r \in table : a = Recorded(r)
  BY DEF Image
<1>3. UniqueBy(Image)
  BY <1>1, <1>2 DEF Good, UniqueBy
<1>4. OneEach(Image)
  BY <1>1, <1>2 DEF Good, OneEach
<1> QED
  BY <1>3, <1>4 DEF Good

\* `new` numbers the entries without an id past those that have one.
LEMMA StartGood ==
  ASSUME RegistryTypeOK, Good(file.rows), Start
  PROVE  Good(table')
<1>1. PICK f \in [Nameless -> Id] :
         /\ Numbering(f)
         /\ table' = {Entered(q, q.id) : q \in Named} \cup {Entered(q, f[q]) : q \in Nameless}
  BY DEF Start
<1> DEFINE n(q) == IF q \in Named THEN q.id ELSE f[q]
<1>2. Named \cap Nameless = {} /\ Given = Named \cup Nameless
  BY DEF Named, Nameless
<1>3. \A a \in table' : \E q \in Given : a = Entered(q, n(q))
  BY <1>1, <1>2
<1>4. ASSUME NEW p \in Given, NEW q \in Given, n(p) = n(q)
      PROVE  p = q
  <2>1. \A x \in Nameless, y \in Named : y.id < f[x]
    BY <1>1 DEF Numbering, IsNextId, Ids
  <2>2. CASE p \in Named /\ q \in Named
    BY <1>4, <2>2 DEF Start
  <2>3. CASE p \in Nameless /\ q \in Nameless
    BY <1>1, <1>2, <1>4, <2>3 DEF Numbering
  <2>4. \A x \in Nameless, y \in Named : y.id # f[x]
    <3>1. \A x \in Nameless : f[x] \in Int
      BY <1>1 DEF Id
    <3>2. \A y \in Named : y.id \in Int
      BY RegistryAssumption DEF Named, Nameless, Given, RegistryTypeOK, File, Record, Id, NoId
    <3> QED
      BY <2>1, <3>1, <3>2
  <2> QED
    BY <1>2, <1>4, <2>2, <2>3, <2>4
<1>5. ASSUME NEW p \in Given, NEW q \in Given, p.secret = q.secret, p.secret \notin EnvKey
      PROVE  p = q
  <2>1. p \in file.rows /\ q \in file.rows
    BY <1>5 DEF Given
  <2> QED
    BY <1>5, <2>1 DEF Good, OneEach
<1>6. \A q, i : Entered(q, i).id = i /\ Entered(q, i).secret = q.secret
  BY DEF Entered
<1> HIDE DEF n
<1>7. UniqueBy(table')
  BY <1>3, <1>4, <1>6 DEF UniqueBy
<1>8. OneEach(table')
  BY <1>3, <1>5, <1>6 DEF OneEach
<1> QED
  BY <1>7, <1>8 DEF Good

\* Ids and secrets are unique: in the table, in the file, in every snapshot.
LEMMA RowsKept ==
  ASSUME RegistryTypeOK, RegistryTypeOK', StepInv, AddInv, RowsInv, [RegistryNext]_rvars
  PROVE  RowsInv'
<1> SUFFICES ASSUME "adds" \notin slips'
             PROVE  Good(table') /\ Good(file'.rows) /\ \A t \in Anyone : Good(call'[t].rows)
  BY DEF RowsInv, Good, UniqueBy, OneEach
<1>0. call \in [Anyone -> Call]
  BY DEF RegistryTypeOK, Anyone
<1>1. "adds" \notin slips
  BY SlipsGrow
<1>2. Good(table) /\ Good(file.rows) /\ \A t \in Anyone : Good(call[t].rows)
  BY <1>1 DEF RowsInv, Good
<1>3. Good({}) /\ Good(Idle.rows) /\ Good(Persist.rows)
  BY StepValues DEF Good, UniqueBy, OneEach
<1>4. ASSUME NEW t \in Thread, NEW r \in table,
             Disable(t, r) \/ Enable(t, r) \/ QuotaOut(t, r)
      PROVE  Good(table') /\ Good(file'.rows) /\ \A u \in Anyone : Good(call'[u].rows)
  <2>1. Good(table')
    BY <1>2, <1>4, MarkGood DEF Disable, Enable, QuotaOut
  <2>2. call' = [call EXCEPT ![t] = Persist] /\ file' = file
    BY <1>4 DEF Disable, Enable, QuotaOut
  <2> QED
    BY <1>0, <1>2, <1>3, <2>1, <2>2
<1>5. ASSUME NEW r \in table, Withdraw(r) \/ Return(r)
      PROVE  Good(table') /\ Good(file'.rows) /\ \A u \in Anyone : Good(call'[u].rows)
  BY <1>2, <1>5, MarkGood DEF Withdraw, Return
<1>6. ASSUME NEW t \in Thread, NEW r \in table, Delete(t, r)
      PROVE  Good(table') /\ Good(file'.rows) /\ \A u \in Anyone : Good(call'[u].rows)
  <2>1. Good(table')
    BY <1>2, <1>6 DEF Delete, Good, UniqueBy, OneEach
  <2>2. call' = [call EXCEPT ![t] = Persist] /\ file' = file
    BY <1>6 DEF Delete
  <2> QED
    BY <1>0, <1>2, <1>3, <2>1, <2>2
<1>7. ASSUME NEW t \in Thread, Touch(t) \/ RejectAdd(t)
      PROVE  Good(table') /\ Good(file'.rows) /\ \A u \in Anyone : Good(call'[u].rows)
  BY <1>0, <1>2, <1>3, <1>7 DEF Touch, RejectAdd
<1>8. ASSUME NEW t \in Thread, NEW s \in Secret, BeginAdd(t, s)
      PROVE  Good(table') /\ Good(file'.rows) /\ \A u \in Anyone : Good(call'[u].rows)
  BY <1>0, <1>2, <1>3, <1>8, StepValues DEF BeginAdd
<1>9. ASSUME NEW t \in Thread, Number(t)
      PROVE  Good(table') /\ Good(file'.rows) /\ \A u \in Anyone : Good(call'[u].rows)
  <2>1. \A u \in Anyone : call'[u].rows = call[u].rows
    BY <1>0, <1>9 DEF Number, Call
  <2> QED
    BY <1>2, <1>9, <2>1 DEF Number
<1>10. ASSUME NEW t \in Thread, Push(t)
       PROVE  Good(table') /\ Good(file'.rows) /\ \A u \in Anyone : Good(call'[u].rows)
  <2>1. PICK s \in call[t].secret :
          table' = table \cup {[id |-> call[t].id, secret |-> s, by |-> t, reason |-> "None"]}
    BY <1>10 DEF Push
  <2>2. call[t].id \notin Ids(table) /\ s \notin Secrets(table)
    BY <1>1, <1>10, <2>1 DEF Push, AddInv, Adding
  <2>3. Good(table')
    BY <1>2, <2>1, <2>2 DEF Good, UniqueBy, OneEach, Ids, Secrets
  <2>4. call' = [call EXCEPT ![t] = Persist] /\ file' = file
    BY <1>10 DEF Push
  <2> QED
    BY <1>0, <1>2, <1>3, <2>3, <2>4
<1>11. ASSUME NEW t \in Anyone,
              Snapshot(t) \/ OpenFails(t) \/ Truncate(t) \/ Write(t) \/ WriteFails(t)
       PROVE  Good(table') /\ Good(file'.rows) /\ \A u \in Anyone : Good(call'[u].rows)
  <2>1. Good(call'[t].rows)
    BY <1>2, <1>3, <1>11, WriteBackCall, ImageGood
  <2>2. Good(file'.rows)
    <3>1. Blank.rows = {} /\ Torn.rows = {} /\ Whole(call[t].rows).rows = call[t].rows
      BY DEF Blank, Torn, Whole
    <3>2. file' \in {file, Blank, Torn, Whole(call[t].rows)}
      BY <1>11 DEF Snapshot, OpenFails, Truncate, Write, WriteFails
    <3> QED
      BY <1>2, <1>3, <3>1, <3>2
  <2>3. table' = table /\ \A u \in Anyone : u # t => call'[u] = call[u]
    BY <1>11, WriteBackCall
  <2> QED
    BY <1>2, <2>1, <2>2, <2>3
<1>12. ASSUME Crash
       PROVE  Good(table') /\ Good(file'.rows) /\ \A u \in Anyone : Good(call'[u].rows)
  <2>1. Torn.rows = {} /\ file' \in {file, Torn}
    BY <1>12 DEF Crash, Torn
  <2>2. table' = {} /\ \A u \in Anyone : call'[u] = Idle
    BY <1>12 DEF Crash, Anyone
  <2> QED
    BY <1>2, <1>3, <2>1, <2>2
<1>13. ASSUME Start
       PROVE  Good(table') /\ Good(file'.rows) /\ \A u \in Anyone : Good(call'[u].rows)
  <2>1. Good(table')
    BY <1>2, <1>13, StartGood
  <2>2. file' = file /\ (call' = [call EXCEPT ![Boot] = Idle] \/ call' = [call EXCEPT ![Boot] = Persist])
    BY <1>13 DEF Start
  <2> QED
    BY <1>0, <1>2, <1>3, <2>1, <2>2
<1>14. CASE UNCHANGED rvars
  BY <1>2, <1>14 DEF rvars
<1> QED
  BY <1>4, <1>5, <1>6, <1>7, <1>8, <1>9, <1>10, <1>11, <1>12, <1>13, <1>14
     DEF RegistryNext, Decide, Traffic, Add, WriteBack, Anyone

\* Of two write-backs one has ended before the other takes its snapshot.
LEMMA WriteKept ==
  ASSUME RegistryTypeOK, StepInv, WriteInv, [RegistryNext]_rvars
  PROVE  WriteInv'
<1> SUFFICES ASSUME "writes" \notin slips'
             PROVE  /\ \A t, u \in Anyone : Writing(t)' /\ Writing(u)' => t = u
                    /\ \A t \in Anyone : call'[t].step = "open" => file' = Blank
  BY DEF WriteInv, Writing
<1> DEFINE Goal == /\ \A t, u \in Anyone : Writing(t)' /\ Writing(u)' => t = u
                   /\ \A t \in Anyone : call'[t].step = "open" => file' = Blank
<1> USE StepValues DEF Writing
<1>0. call \in [Anyone -> Call]
  BY DEF RegistryTypeOK, Anyone
<1>1. "writes" \notin slips
  BY SlipsGrow
<1>2. /\ \A t, u \in Anyone : Writing(t) /\ Writing(u) => t = u
      /\ \A t \in Anyone : call[t].step = "open" => file = Blank
  BY <1>1 DEF WriteInv
<1>3. ASSUME NEW t \in Thread, NEW r \in table,
             Disable(t, r) \/ Enable(t, r) \/ QuotaOut(t, r) \/ Delete(t, r)
      PROVE  Goal
  <2>1. call' = [call EXCEPT ![t] = Persist] /\ file' = file
    BY <1>3 DEF Disable, Enable, QuotaOut, Delete
  <2> QED
    BY <1>0, <1>2, <2>1
<1>4. ASSUME NEW r \in table, Withdraw(r) \/ Return(r)
      PROVE  Goal
  BY <1>2, <1>4 DEF Withdraw, Return
<1>5. ASSUME NEW t \in Thread,
             Touch(t) \/ (\E s \in Secret : BeginAdd(t, s)) \/ RejectAdd(t) \/ Push(t)
      PROVE  Goal
  <2>1. /\ call'[t].step \notin {"holding", "open"}
        /\ \A u \in Anyone : u # t => call'[u] = call[u]
    BY <1>0, <1>5 DEF Touch, BeginAdd, RejectAdd, Push, Anyone
  <2>2. file' = file
    BY <1>5 DEF Touch, BeginAdd, RejectAdd, Push
  <2> QED
    BY <1>0, <1>2, <2>1, <2>2
<1>6. ASSUME NEW t \in Thread, Number(t)
      PROVE  Goal
  <2>1. call'[t].step = "numbered" /\ \A u \in Anyone : u # t => call'[u] = call[u]
    BY <1>0, <1>6 DEF Number, Call, Anyone
  <2> QED
    BY <1>2, <1>6, <2>1 DEF Number
<1>7. ASSUME NEW t \in Anyone, Snapshot(t)
      PROVE  Goal
  <2>1. \A u \in Anyone : ~Writing(u)
    <3>1. \A u \in Thread : ~Writing(u)
      BY <1>7 DEF Snapshot
    <3>2. CASE t \in Thread
      <4>1. call[Boot].step = "idle"
        BY <1>7, <3>2 DEF Snapshot, StepInv
      <4> QED
        BY <3>1, <4>1 DEF Anyone
    <3>3. CASE t = Boot
      BY <1>7, <3>1, <3>3 DEF Anyone, Snapshot
    <3> QED
      BY <3>2, <3>3 DEF Anyone
  <2>2. call'[t].step = "holding" /\ \A u \in Anyone : u # t => call'[u] = call[u]
    BY <1>7, WriteBackCall
  <2> QED
    BY <2>1, <2>2
<1>8. ASSUME NEW t \in Anyone, Truncate(t)
      PROVE  Goal
  <2>1. Writing(t) /\ file' = Blank
    BY <1>8 DEF Truncate
  <2>2. \A u \in Anyone : u # t => call'[u] = call[u]
    BY <1>8, WriteBackCall
  <2> QED
    BY <1>2, <2>1, <2>2
<1>9. ASSUME NEW t \in Anyone, OpenFails(t) \/ Write(t) \/ WriteFails(t)
      PROVE  Goal
  <2>1. Writing(t)
    BY <1>9 DEF OpenFails, Write, WriteFails
  <2>2. call'[t] = Idle /\ \A u \in Anyone : u # t => call'[u] = call[u]
    BY <1>9, WriteBackCall
  <2>3. \A u \in Anyone : ~Writing(u)'
    BY <1>2, <2>1, <2>2
  <2> QED
    BY <2>3
<1>10. ASSUME Crash PROVE Goal
  <2>1. \A u \in Anyone : call'[u] = Idle
    BY <1>10 DEF Crash, Anyone
  <2> QED
    BY <2>1
<1>11. ASSUME Start PROVE Goal
  <2>1. file' = file /\ (call' = [call EXCEPT ![Boot] = Idle] \/ call' = [call EXCEPT ![Boot] = Persist])
    BY <1>11 DEF Start
  <2> QED
    BY <1>0, <1>2, <2>1
<1>12. CASE UNCHANGED rvars
  BY <1>2, <1>12 DEF rvars
<1> QED
  BY <1>3, <1>4, <1>5, <1>6, <1>7, <1>8, <1>9, <1>10, <1>11, <1>12
     DEF RegistryNext, Decide, Traffic, Add, WriteBack, Anyone

\* Rows whose withdrawal is on its way to the file, or there, are out; where it
\* is there, every pending write repeats it.
LEMMA RulingKept ==
  ASSUME RegistryTypeOK, RegistryTypeOK', StepInv, RowsInv, WriteInv, RulingInv, [RegistryNext]_rvars
  PROVE  RulingInv'
<1> DEFINE Kept(s) ==
      /\ ruling'[s] \in {"pending", "durable"} => \A r \in table' : r.secret = s => Out(r)
      /\ ruling'[s] = "durable" =>
            /\ \A q \in file'.rows : q.secret = s => q.disabled
            /\ \A t \in Anyone : Writing(t)' => \A q \in call'[t].rows : q.secret = s => q.disabled
<1> SUFFICES ASSUME slips' \cap {"adds", "writes"} = {}, NEW s \in Secret \ EnvKey
             PROVE  Kept(s)
  BY DEF RulingInv, Writing, Out
<1> USE StepValues DEF Writing
<1>0. call \in [Anyone -> Call]
  BY DEF RegistryTypeOK, Anyone
<1>1. slips \cap {"adds", "writes"} = {}
  BY SlipsGrow
<1>2. /\ ruling[s] \in {"pending", "durable"} => \A r \in table : r.secret = s => Out(r)
      /\ ruling[s] = "durable" =>
            /\ \A q \in file.rows : q.secret = s => q.disabled
            /\ \A t \in Anyone : Writing(t) => \A q \in call[t].rows : q.secret = s => q.disabled
  BY <1>1 DEF RulingInv
<1>3. /\ \A p, q \in table : p.secret = q.secret /\ p.secret = s => p = q
      /\ \A t \in Anyone : \A p, q \in call[t].rows : p.secret = q.secret /\ p.secret = s => p = q
  BY <1>1 DEF RowsInv, OneEach
<1>4. /\ \A t, u \in Anyone : Writing(t) /\ Writing(u) => t = u
      /\ \A t \in Anyone : call[t].step = "open" => file = Blank
  BY <1>1 DEF WriteInv
<1>5. ruling \in [Secret -> {"never", "none", "pending", "durable"}]
  BY DEF RegistryTypeOK
<1>6. ASSUME NEW t \in Anyone, call'[t].step \notin {"holding", "open"},
             \A u \in Anyone : u # t => call'[u] = call[u],
             file' = file, ruling'[s] = ruling[s],
             \A r \in table' : r.secret = s => r \in table \/ Out(r)
      PROVE  Kept(s)
  BY <1>2, <1>6
<1>7. ASSUME NEW t \in Thread, NEW r \in table,
             Disable(t, r) \/ Enable(t, r) \/ QuotaOut(t, r)
      PROVE  Kept(s)
  <2>1. call' = [call EXCEPT ![t] = Persist] /\ file' = file
    BY <1>7 DEF Disable, Enable, QuotaOut
  <2>2. call'[t].step = "persist" /\ \A u \in Anyone : u # t => call'[u] = call[u]
    BY <1>0, <2>1 DEF Anyone
  <2>3. PICK why : Mark(r, why)
    BY <1>7 DEF Disable, Enable, QuotaOut
  <2>4. [r EXCEPT !.reason = why].secret = r.secret /\ [r EXCEPT !.reason = why].reason = why
    BY DEF RegistryTypeOK, Row
  <2>5. CASE r.secret # s
    <3>1. ruling'[s] = ruling[s]
      BY <1>5, <1>7, <2>5 DEF Disable, Enable, QuotaOut
    <3>2. \A q \in table' : q.secret = s => q \in table
      BY <2>3, <2>4, <2>5 DEF Mark
    <3> QED
      BY <1>6, <2>1, <2>2, <3>1, <3>2 DEF Anyone
  <2>6. CASE r.secret = s
    <3>1. CASE Enable(t, r)
      BY <1>5, <2>6, <3>1 DEF Enable, Lifted
    <3>2. CASE Disable(t, r) \/ QuotaOut(t, r)
      <4>1. ruling'[s] = "pending"
        BY <1>5, <2>6, <3>2 DEF Disable, QuotaOut
      <4>2. PICK w \in {"Manual", "QuotaExceeded"} : Mark(r, w)
        BY <3>2 DEF Disable, QuotaOut
      <4>3. [r EXCEPT !.reason = w].reason = w
        BY DEF RegistryTypeOK, Row
      <4>4. \A q \in table' : q.secret = s => q = [r EXCEPT !.reason = w]
        BY <1>3, <2>6, <4>2 DEF Mark
      <4> QED
        BY <4>1, <4>3, <4>4 DEF Out
    <3> QED
      BY <1>7, <3>1, <3>2
  <2> QED
    BY <2>5, <2>6
<1>8. ASSUME NEW r \in table, Withdraw(r) \/ Return(r)
      PROVE  Kept(s)
  <2>1. ~Out(r)
    BY <1>8 DEF Withdraw, Return, Out
  <2>2. PICK why : Mark(r, why)
    BY <1>8 DEF Withdraw, Return
  <2>3. [r EXCEPT !.reason = why].secret = r.secret
    BY DEF RegistryTypeOK, Row
  <2>4. ruling' = ruling /\ file' = file /\ call' = call
    BY <1>8 DEF Withdraw, Return
  <2>5. CASE r.secret = s
    BY <1>2, <2>1, <2>4, <2>5
  <2>6. CASE r.secret # s
    <3>1. \A q \in table' : q.secret = s => q \in table
      BY <2>2, <2>3, <2>6 DEF Mark
    <3> QED
      BY <1>2, <2>4, <3>1
  <2> QED
    BY <2>5, <2>6
<1>9. ASSUME NEW t \in Thread, NEW r \in table, Delete(t, r)
      PROVE  Kept(s)
  <2>1. call' = [call EXCEPT ![t] = Persist] /\ file' = file /\ table' \subseteq table
    BY <1>9 DEF Delete
  <2>2. ruling'[s] = ruling[s] \/ ruling'[s] \in {"never", "none"}
    BY <1>9 DEF Delete, Lifted
  <2> QED
    BY <1>0, <1>2, <2>1, <2>2 DEF Anyone
<1>10. ASSUME NEW t \in Thread, Touch(t) \/ (\E x \in Secret : BeginAdd(t, x)) \/ RejectAdd(t)
       PROVE  Kept(s)
  <2>1. call'[t].step \notin {"holding", "open"} /\ \A u \in Anyone : u # t => call'[u] = call[u]
    BY <1>0, <1>10 DEF Touch, BeginAdd, RejectAdd, Anyone
  <2>2. table' = table /\ file' = file /\ ruling' = ruling
    BY <1>10 DEF Touch, BeginAdd, RejectAdd
  <2> QED
    BY <1>6, <2>1, <2>2 DEF Anyone
<1>11. ASSUME NEW t \in Thread, Number(t)
       PROVE  Kept(s)
  <2>1. call'[t].step = "numbered" /\ \A u \in Anyone : u # t => call'[u] = call[u]
    BY <1>0, <1>11 DEF Number, Call, Anyone
  <2>2. table' = table /\ file' = file /\ ruling' = ruling
    BY <1>11 DEF Number
  <2> QED
    BY <1>6, <2>1, <2>2 DEF Anyone
<1>12. ASSUME NEW t \in Thread, Push(t)
       PROVE  Kept(s)
  <2>1. PICK x \in call[t].secret :
          /\ table' = table \cup {[id |-> call[t].id, secret |-> x, by |-> t, reason |-> "None"]}
          /\ ruling' = [ruling EXCEPT ![x] = Lifted(x)]
    BY <1>12 DEF Push
  <2>2. CASE x = s
    BY <1>5, <2>1, <2>2 DEF Lifted
  <2>3. CASE x # s
    <3>1. \A r \in table' : r.secret = s => r \in table
      BY <2>1, <2>3
    <3>2. ruling'[s] = ruling[s]
      BY <1>5, <2>1, <2>3
    <3>3. call'[t].step = "persist" /\ \A u \in Anyone : u # t => call'[u] = call[u]
      BY <1>0, <1>12 DEF Push, Anyone
    <3> QED
      BY <1>6, <1>12, <3>1, <3>2, <3>3 DEF Push, Anyone
  <2> QED
    BY <2>2, <2>3
<1>13. ASSUME NEW t \in Anyone, Snapshot(t)
       PROVE  Kept(s)
  <2>1. call'[t].rows = Image /\ \A u \in Anyone : u # t => call'[u] = call[u]
    BY <1>13, WriteBackCall
  <2>2. table' = table /\ file' = file /\ ruling' = ruling
    BY <1>13 DEF Snapshot
  <2>3. ruling[s] = "durable" => \A q \in Image : q.secret = s => q.disabled
    <3>1. \A r : Out(r) => r.reason # "None"
      BY DEF Out
    <3> QED
      BY <1>2, <3>1, RecordedFields DEF Image
  <2> QED
    BY <1>2, <2>1, <2>2, <2>3
<1>14. ASSUME NEW t \in Anyone, OpenFails(t)
       PROVE  Kept(s)
  BY <1>6, <1>14, WriteBackCall DEF OpenFails
<1>15. ASSUME NEW t \in Anyone, Truncate(t)
       PROVE  Kept(s)
  <2>1. call'[t].rows = call[t].rows /\ \A u \in Anyone : u # t => call'[u] = call[u]
    BY <1>15, WriteBackCall
  <2>2. table' = table /\ ruling' = ruling /\ file'.rows = {} /\ Writing(t)
    BY <1>15 DEF Truncate, Blank
  <2> QED
    BY <1>2, <2>1, <2>2
<1>16. ASSUME NEW t \in Anyone, Write(t)
       PROVE  Kept(s)
  <2>1. call'[t] = Idle /\ \A u \in Anyone : u # t => call'[u] = call[u]
    BY <1>16, WriteBackCall
  <2>2. \A u \in Anyone : ~Writing(u)'
    BY <1>4, <1>16, <2>1 DEF Write
  <2>3. file.kind = "blank"
    BY <1>4, <1>16 DEF Write, Blank
  <2>4. PICK f : /\ f.rows = call[t].rows /\ file' = f
                 /\ ruling' = [x \in Secret |->
                                 IF /\ ruling[x] = "pending"
                                    /\ \E q \in f.rows : q.secret = x /\ q.disabled
                                   THEN "durable" ELSE ruling[x]]
    <3>1. Whole(call[t].rows).rows = call[t].rows
      BY DEF Whole
    <3> QED
      BY <1>16, <2>3, <3>1 DEF Write
  <2>5. ruling'[s] \in {"pending", "durable"} => ruling[s] \in {"pending", "durable"}
    BY <2>4
  <2>6. ruling'[s] = "durable" => \A q \in f.rows : q.secret = s => q.disabled
    <3>1. CASE ruling[s] = "durable"
      BY <1>2, <1>16, <2>4, <3>1 DEF Write
    <3>2. CASE ruling[s] # "durable" /\ ruling'[s] = "durable"
      <4>1. PICK p \in f.rows : p.secret = s /\ p.disabled
        BY <2>4, <3>2
      <4> QED
        BY <1>3, <2>4, <4>1
    <3> QED
      BY <3>1, <3>2
  <2>7. table' = table
    BY <1>16 DEF Write
  <2> QED
    BY <1>2, <2>2, <2>4, <2>5, <2>6, <2>7
<1>17. ASSUME NEW t \in Anyone, WriteFails(t)
       PROVE  Kept(s)
  <2>1. call'[t] = Idle /\ \A u \in Anyone : u # t => call'[u] = call[u]
    BY <1>17, WriteBackCall
  <2>2. table' = table /\ ruling' = ruling /\ file' \in {file, Torn} /\ Torn.rows = {}
    BY <1>17 DEF WriteFails, Torn
  <2> QED
    BY <1>2, <2>1, <2>2
<1>18. ASSUME Crash
       PROVE  Kept(s)
  <2>1. table' = {} /\ file' \in {file, Torn} /\ Torn.rows = {}
    BY <1>18 DEF Crash, Torn
  <2>2. \A u \in Anyone : ~Writing(u)'
    BY <1>18 DEF Crash, Anyone
  <2>3. ruling'[s] = "durable" => ruling[s] = "durable"
    BY <1>18 DEF Crash
  <2> QED
    BY <1>2, <2>1, <2>2, <2>3
<1>19. ASSUME Start
       PROVE  Kept(s)
  <2>1. ruling' = ruling /\ ruling[s] # "pending" /\ file' = file
    BY <1>19 DEF Start, StepInv
  <2>2. \A u \in Anyone : ~Writing(u)'
    BY <1>0, <1>19 DEF Start, StepInv, Anyone
  <2>3. PICK f : table' = {Entered(q, q.id) : q \in Named} \cup {Entered(q, f[q]) : q \in Nameless}
    BY <1>19 DEF Start
  <2>4. ASSUME ruling[s] = "durable", NEW r \in table', r.secret = s
        PROVE  Out(r)
    <3>1. PICK q \in Given : \E i : r = Entered(q, i)
      BY <2>3, <2>4 DEF Named, Nameless
    <3>2. q.secret = s
      BY <2>4, <3>1 DEF Entered
    <3>3. q \in file.rows
      BY <3>2 DEF Given
    <3>4. q.disabled
      BY <1>2, <2>4, <3>2, <3>3
    <3> QED
      BY <3>1, <3>4 DEF Entered, Out
  <2> QED
    BY <1>2, <2>1, <2>2, <2>4
<1>20. CASE UNCHANGED rvars
  BY <1>2, <1>20 DEF rvars
<1> QED
  BY <1>7, <1>8, <1>9, <1>10, <1>11, <1>12, <1>13, <1>14, <1>15, <1>16, <1>17, <1>18, <1>19, <1>20
     DEF RegistryNext, Decide, Traffic, Add, WriteBack, Anyone

\* Agreement of records with rows survives a reason that is not for good.
LEMMA MarkAgrees ==
  ASSUME RegistryTypeOK, NEW r \in table, NEW why \in {"None", "RateLimited"}, Mark(r, why),
         NEW rows, Agrees(table, rows)
  PROVE  Agrees(table', rows)
<1> DEFINE m == [r EXCEPT !.reason = why]
<1>1. m.id = r.id /\ m.secret = r.secret /\ m.reason = why
  BY DEF RegistryTypeOK, Row
<1>2. table' = (table \ {r}) \cup {m}
  BY DEF Mark
<1>3. ~Out(m)
  BY <1>1 DEF Out
<1> HIDE DEF m
<1>4. ASSUME NEW p \in table' PROVE \E q \in rows : q.id = p.id /\ q.secret = p.secret /\ (Out(p) => q.disabled)
  BY <1>1, <1>2, <1>3 DEF Agrees
<1>5. ASSUME NEW q \in rows PROVE \E p \in table' : q.id = p.id /\ q.secret = p.secret
  BY <1>1, <1>2 DEF Agrees
<1> QED
  BY <1>4, <1>5 DEF Agrees

LEMMA ImageAgrees == Agrees(table, Image)
<1>1. \A r : Out(r) => r.reason # "None"
  BY DEF Out
<1>2. ASSUME NEW r \in table
      PROVE  \E q \in Image : q.id = r.id /\ q.secret = r.secret /\ (Out(r) => q.disabled)
  <2>1. Recorded(r) \in Image
    BY DEF Image
  <2> QED
    BY <1>1, <2>1, RecordedFields
<1>3. ASSUME NEW q \in Image
      PROVE  \E r \in table : q.id = r.id /\ q.secret = r.secret
  BY RecordedFields DEF Image
<1> QED
  BY <1>2, <1>3 DEF Agrees

LEMMA StartAgrees ==
  ASSUME Start, Nameless = {}
  PROVE  Agrees(table', file.rows)
<1>1. \A s \in EnvKey : [id |-> NoId, secret |-> s, by |-> Boot, disabled |-> FALSE] \in Nameless
  BY DEF Nameless, Given
<1>2. Named = file.rows
  BY <1>1 DEF Named, Given
<1>3. table' = {Entered(q, q.id) : q \in file.rows}
  BY <1>2 DEF Start
<1>4. \A q : /\ Entered(q, q.id).id = q.id /\ Entered(q, q.id).secret = q.secret
             /\ Out(Entered(q, q.id)) => q.disabled
  BY DEF Entered, Out
<1> QED
  BY <1>3, <1>4 DEF Agrees

\* While the file lags behind the table, some thread still owes a write.
LEMMA LagKept ==
  ASSUME RegistryTypeOK, StepInv, WriteInv, LagInv, [RegistryNext]_rvars
  PROVE  LagInv'
<1> DEFINE Goal == \/ \E t \in Anyone : call'[t].step = "persist"
                   \/ \E t \in Anyone : Writing(t)' /\ Agrees(table', call'[t].rows)
                   \/ (\A t \in Anyone : ~Writing(t)') /\ Agrees(table', file'.rows)
<1> SUFFICES ASSUME up', slips' \subseteq {"adds"}
             PROVE  Goal
  BY DEF LagInv, Writing, Agrees, Out
<1> USE StepValues DEF Writing
<1>0. call \in [Anyone -> Call]
  BY DEF RegistryTypeOK, Anyone
<1>1. slips \subseteq {"adds"}
  BY SlipsGrow
<1>2. \A t, u \in Anyone : Writing(t) /\ Writing(u) => t = u
  BY <1>1 DEF WriteInv
<1>3. ~Start => up
  <2>1. CASE Decide
    BY <2>1 DEF Decide, Disable, Enable, QuotaOut, Delete
  <2>2. CASE Traffic
    BY <2>2 DEF Traffic, Withdraw, Return
  <2>3. CASE (\E t \in Thread : Touch(t)) \/ Add
    BY <2>3 DEF Add, Touch, BeginAdd, RejectAdd, Number, Push
  <2>4. CASE WriteBack
    BY <2>4, WriteBackCall DEF WriteBack, Anyone
  <2>5. CASE Crash \/ UNCHANGED rvars
    BY <2>5 DEF Crash, rvars
  <2> QED
    BY <2>1, <2>2, <2>3, <2>4, <2>5 DEF RegistryNext
<1>4. ~Start =>
        \/ \E t \in Anyone : call[t].step = "persist"
        \/ \E t \in Anyone : Writing(t) /\ Agrees(table, call[t].rows)
        \/ (\A t \in Anyone : ~Writing(t)) /\ Agrees(table, file.rows)
  BY <1>1, <1>3 DEF LagInv
<1>5. ASSUME NEW t \in Thread, call' = [call EXCEPT ![t] = Persist]
      PROVE  Goal
  BY <1>0, <1>5 DEF Anyone
<1>6. CASE Decide \/ \E t \in Thread : Touch(t) \/ Push(t)
  BY <1>5, <1>6 DEF Decide, Disable, Enable, QuotaOut, Delete, Touch, Push
<1>7. ASSUME NEW r \in table, Withdraw(r) \/ Return(r)
      PROVE  Goal
  <2>1. \A rows : Agrees(table, rows) => Agrees(table', rows)
    BY <1>7, MarkAgrees DEF Withdraw, Return
  <2>2. call' = call /\ file' = file /\ ~Start
    BY <1>7 DEF Withdraw, Return, Ready, Start
  <2> QED
    BY <1>4, <2>1, <2>2
<1>8. ASSUME NEW t \in Thread, (\E s \in Secret : BeginAdd(t, s)) \/ RejectAdd(t) \/ Number(t)
      PROVE  Goal
  <2>1. ~Start
    BY <1>8, <1>0 DEF BeginAdd, RejectAdd, Number, Free, Ready, Start, StepInv, Anyone
  <2>2. call[t].step \notin {"persist", "holding", "open"} /\ \A u \in Anyone : u # t => call'[u] = call[u]
    BY <1>0, <1>8 DEF BeginAdd, RejectAdd, Number, Free, Anyone
  <2>3. call'[t].step \notin {"holding", "open"}
    <3>1. CASE Number(t)
      BY <1>0, <3>1 DEF Number, Call, Anyone
    <3>2. CASE (\E s \in Secret : BeginAdd(t, s)) \/ RejectAdd(t)
      BY <1>0, <3>2 DEF BeginAdd, RejectAdd, Anyone
    <3> QED
      BY <1>8, <3>1, <3>2
  <2>4. table' = table /\ file' = file
    BY <1>8 DEF BeginAdd, RejectAdd, Number
  <2> QED
    BY <1>4, <2>1, <2>2, <2>3, <2>4
<1>9. ASSUME NEW t \in Anyone, Snapshot(t)
      PROVE  Goal
  <2>1. call'[t].step = "holding" /\ call'[t].rows = Image /\ table' = table
    BY <1>9, WriteBackCall
  <2> QED
    BY <2>1, ImageAgrees
<1>10. ASSUME NEW t \in Anyone, OpenFails(t) \/ WriteFails(t)
       PROVE  Goal
  BY <1>10 DEF OpenFails, WriteFails
<1>11. ASSUME NEW t \in Anyone, Truncate(t) \/ Write(t)
       PROVE  Goal
  <2>1. Writing(t)
    BY <1>11 DEF Truncate, Write
  <2>2. ~Start
    BY <2>1 DEF Start, StepInv
  <2>3. (\A u \in Anyone : u # t => call'[u] = call[u]) /\ table' = table
    BY <1>11, WriteBackCall
  <2>4. CASE \E u \in Anyone : call[u].step = "persist"
    BY <2>1, <2>3, <2>4
  <2>5. CASE Agrees(table, call[t].rows)
    <3>1. CASE Truncate(t)
      BY <2>3, <2>5, <3>1, WriteBackCall
    <3>2. CASE Write(t)
      <4>1. file.kind = "blank"
        BY <1>1, <3>2 DEF Write, WriteInv, Blank
      <4>2. file'.rows = call[t].rows
        BY <3>2, <4>1 DEF Write, Whole
      <4>3. \A u \in Anyone : ~Writing(u)'
        BY <1>2, <2>1, <2>3, <3>2, WriteBackCall
      <4> QED
        BY <2>3, <2>5, <4>2, <4>3
    <3> QED
      BY <1>11, <3>1, <3>2
  <2> QED
    BY <1>2, <1>4, <2>1, <2>2, <2>4, <2>5
<1>12. CASE Crash
  BY <1>12 DEF Crash
<1>13. CASE Start
  <2>1. CASE call'[Boot].step = "persist"
    BY <2>1 DEF Anyone
  <2>2. CASE call'[Boot].step # "persist"
    <3>1. Nameless = {} /\ call' = [call EXCEPT ![Boot] = Idle]
      BY <1>0, <1>13, <2>2 DEF Start, Anyone
    <3>2. \A u \in Anyone : ~Writing(u)'
      BY <1>0, <1>13, <3>1 DEF Start, StepInv, Anyone
    <3> QED
      BY <1>13, <3>1, <3>2, StartAgrees DEF Start
  <2> QED
    BY <2>1, <2>2
<1>14. CASE UNCHANGED rvars
  <2>1. ~Start
    BY <1>14 DEF rvars, Start
  <2> QED
    BY <1>4, <1>14, <2>1 DEF rvars
<1> QED
  BY <1>6, <1>7, <1>8, <1>9, <1>10, <1>11, <1>12, <1>13, <1>14
     DEF RegistryNext, Traffic, Add, WriteBack, Anyone

-----------------------------------------------------------------------------
LEMMA RegistryInvInit ==
  ASSUME RegistryInit
  PROVE  RegistryInv
<1> USE StepValues DEF Anyone, Adding, Writing
<1>1. \A t \in Anyone : call[t] = Idle
  BY DEF RegistryInit
<1>2. Good(file.rows) /\ Good(table) /\ \A t \in Anyone : Good(call[t].rows)
  <2>1. Good(file.rows)
    BY DEF RegistryInit, FirstFile, Blank, Whole, Good, UniqueBy, OneEach
  <2> QED
    BY <1>1, <2>1 DEF RegistryInit, Good, UniqueBy, OneEach
<1>3. StepInv
  BY <1>1 DEF RegistryInit, StepInv
<1>4. AddInv
  BY <1>1 DEF AddInv
<1>5. RowsInv
  BY <1>2 DEF RowsInv, Good
<1>6. WriteInv
  BY <1>1 DEF WriteInv
<1>7. RulingInv
  <2> SUFFICES ASSUME NEW s \in Secret \ EnvKey, ruling[s] = "durable"
               PROVE  \A q \in file.rows : q.secret = s => q.disabled
    BY <1>1 DEF RulingInv, RegistryInit
  <2>1. PICK p \in file.rows : p.secret = s /\ p.disabled
    BY DEF RegistryInit
  <2> QED
    BY <1>2, <2>1 DEF Good, OneEach
<1>8. LagInv
  BY DEF LagInv, RegistryInit
<1> QED
  BY <1>3, <1>4, <1>5, <1>6, <1>7, <1>8 DEF RegistryInv

\* The inductive invariant holds throughout.
THEOREM RegistryInvariant == RegistrySpec => []RegistryInv
<1>1. RegistryInit => RegistryInv
  BY RegistryInvInit
<1>2. RegistryTypeOK /\ RegistryTypeOK' /\ RegistryInv /\ [RegistryNext]_rvars => RegistryInv'
  BY StepKept, AddKept, RowsKept, WriteKept, RulingKept, LagKept DEF RegistryInv
<1> QED
  BY <1>1, <1>2, RegistryTypeCorrect, PTL DEF RegistrySpec

\* Without overlapping additions an id names one entry.
THEOREM IdsStayUnique == RegistrySpec => []UniqueIds
<1>1. RegistryInv => UniqueIds
  BY DEF RegistryInv, RowsInv, UniqueIds
<1> QED
  BY <1>1, RegistryInvariant, PTL

\* Nor is a credential entered twice, except the one of the environment.
THEOREM SecretsStayUnique == RegistrySpec => []UniqueSecrets
<1>1. RegistryInv => UniqueSecrets
  BY DEF RegistryInv, RowsInv, OneEach, UniqueSecrets
<1> QED
  BY <1>1, RegistryInvariant, PTL

\* A withdrawal that reached the file outlives the program.
THEOREM WithdrawalsSurvive == RegistrySpec => []WithdrawalSurvives
<1>1. RegistryTypeOK /\ RegistryInv => WithdrawalSurvives
  BY DEF RegistryTypeOK, Row, RegistryInv, RulingInv, WithdrawalSurvives, Out
<1> QED
  BY <1>1, RegistryTypeCorrect, RegistryInvariant, PTL

\* When all is quiet the file is up to date.
THEOREM FileIsCurrent == RegistrySpec => []FileFollows
<1>1. RegistryInv => FileFollows
  BY DEF RegistryInv, LagInv, FileFollows, Ready, Anyone, Writing
<1> QED
  BY <1>1, RegistryInvariant, PTL
=============================================================================
