-------------------------- MODULE Dispatch_proofs --------------------------
(***************************************************************************)
(* Proofs about Dispatch, for every set of credentials, requests, groups   *)
(* and operators, and every retry budget.                                  *)
(***************************************************************************)
EXTENDS Dispatch, CredentialPool_proofs, FiniteSetTheorems

(* A request that has been given a credential, and not yet given it up.    *)
Given == {"permit", "token", "obtained", "unrefreshed", "revoked", "send",
          "force", "backoff"}

(* What the locals of r, and its pending selection, satisfy between steps: *)
(* GroupIsolation is not inductive, since the credential is chosen several *)
(* steps before the permit is taken.                                       *)
Sound(r, q, choice) ==
  /\ q \in Local
  /\ choice \in Cred \cup {NoId}
  /\ choice # NoId <=> q.pc = "store"
  /\ choice # NoId => choice \in Allowed[r]
  /\ q.pc \in Given => q.cred \in Allowed[r]

RequestsInv ==
  /\ req \in [Request -> Local]
  /\ picked \in [Request -> Cred \cup {NoId}]
  /\ \A r \in Request : Sound(r, req[r], picked[r])

DInv == IInv /\ RequestsInv

-----------------------------------------------------------------------------
(* The values that steps give to a request's locals. *)

LEMMA RestLocal == AtRest \in Local /\ AtRest.pc = "idle"
  BY DEF AtRest, Local, Pc

LEMMA PcLocal ==
  ASSUME NEW q \in Local, NEW pc \in Pc
  PROVE  /\ [q EXCEPT !.pc = pc] \in Local
         /\ [q EXCEPT !.pc = pc].pc = pc
         /\ [q EXCEPT !.pc = pc].cred = q.cred
  BY DEF Local

LEMMA GivenLocal ==
  ASSUME NEW q \in Local, NEW pc \in Pc, NEW c \in Cred
  PROVE  /\ [q EXCEPT !.pc = pc, !.cred = c] \in Local
         /\ [q EXCEPT !.pc = pc, !.cred = c].pc = pc
         /\ [q EXCEPT !.pc = pc, !.cred = c].cred = c
  BY DEF Local

(* The fields but pc and cred, one by one. *)
LEMMA FieldLocal ==
  ASSUME NEW q \in Local
  PROVE  /\ \A n \in Nat : /\ [q EXCEPT !.attempt = n] \in Local
                          /\ [q EXCEPT !.attempt = n].pc = q.pc
                          /\ [q EXCEPT !.attempt = n].cred = q.cred
         /\ \A n \in Nat : /\ [q EXCEPT !.budget = n] \in Local
                          /\ [q EXCEPT !.budget = n].pc = q.pc
                          /\ [q EXCEPT !.budget = n].cred = q.cred
         /\ \A n \in Nat : /\ [q EXCEPT !.tries = n] \in Local
                          /\ [q EXCEPT !.tries = n].pc = q.pc
                          /\ [q EXCEPT !.tries = n].cred = q.cred
         /\ \A n \in Nat : /\ [q EXCEPT !.limit = n] \in Local
                          /\ [q EXCEPT !.limit = n].pc = q.pc
                          /\ [q EXCEPT !.limit = n].cred = q.cred
         /\ \A S \in SUBSET Cred : /\ [q EXCEPT !.busy = S] \in Local
                                  /\ [q EXCEPT !.busy = S].pc = q.pc
                                  /\ [q EXCEPT !.busy = S].cred = q.cred
         /\ \A b \in BOOLEAN : /\ [q EXCEPT !.hinted = b] \in Local
                              /\ [q EXCEPT !.hinted = b].pc = q.pc
                              /\ [q EXCEPT !.hinted = b].cred = q.cred
         /\ \A S \in SUBSET Cred : /\ [q EXCEPT !.forced = S] \in Local
                                  /\ [q EXCEPT !.forced = S].pc = q.pc
                                  /\ [q EXCEPT !.forced = S].cred = q.cred
  BY DEF Local

LEMMA AgainLocal ==
  ASSUME NEW q \in Local, NEW busy \in SUBSET Cred, NEW hinted \in BOOLEAN
  PROVE  LET a == [q EXCEPT !.pc = "sweep", !.cred = NoId, !.tries = q.tries + 1,
                            !.busy = busy, !.hinted = hinted]
         IN  a \in Local /\ a.pc = "sweep"
<1> DEFINE a0 == [q EXCEPT !.pc = "sweep"]
           a1 == [a0 EXCEPT !.cred = NoId]
           a2 == [a1 EXCEPT !.tries = q.tries + 1]
           a3 == [a2 EXCEPT !.busy = busy]
           a4 == [a3 EXCEPT !.hinted = hinted]
<1>0. a0 \in Local /\ a0.pc = "sweep" /\ q.tries + 1 \in Nat
  BY DEF Local, Pc
<1>1. a1 \in Local /\ a1.pc = "sweep"
  <2> HIDE DEF a0
  <2>1. QED
    BY <1>0 DEF Local
<1>2. a2 \in Local /\ a2.pc = "sweep"
  <2> DEFINE n == q.tries + 1
  <2>1. n \in Nat
    BY <1>0
  <2> HIDE DEF a1, n
  <2>2. [a1 EXCEPT !.tries = n] \in Local /\ [a1 EXCEPT !.tries = n].pc = "sweep"
    BY <1>1, <2>1, FieldLocal
  <2>3. QED
    BY <2>2 DEF n
<1>3. a3 \in Local /\ a3.pc = "sweep"
  <2> HIDE DEF a2
  <2>1. QED
    BY <1>2, FieldLocal
<1>4. a4 \in Local /\ a4.pc = "sweep"
  <2> HIDE DEF a3
  <2>1. QED
    BY <1>3, FieldLocal
<1>5. QED
  BY <1>4

LEMMA AfterLocal ==
  ASSUME NEW q \in Local
  PROVE  AfterAttempt(q) \in Local /\ AfterAttempt(q).pc \in {"idle", "sweep"}
<1> DEFINE a1 == [AtRest EXCEPT !.pc = "sweep"]
           a2 == [a1 EXCEPT !.attempt = q.attempt + 1]
           a3 == [a2 EXCEPT !.budget = q.budget]
           a4 == [a3 EXCEPT !.forced = q.forced]
<1>1. a1 \in Local /\ a1.pc = "sweep"
  BY DEF AtRest, Local, Pc
<1>2. q.attempt + 1 \in Nat /\ q.budget \in Nat /\ q.forced \in SUBSET Cred
  BY DEF Local
<1>3. a2 \in Local /\ a2.pc = "sweep"
  <2> HIDE DEF a1
  <2>1. QED
    BY <1>1, <1>2, FieldLocal
<1>4. a3 \in Local /\ a3.pc = "sweep"
  <2> HIDE DEF a2
  <2>1. QED
    BY <1>2, <1>3, FieldLocal
<1>5. a4 \in Local /\ a4.pc = "sweep"
  <2> HIDE DEF a3
  <2>1. QED
    BY <1>2, <1>4, FieldLocal
<1>6. AfterAttempt(q) \in {a4, AtRest}
  BY DEF AfterAttempt
<1>7. QED
  <2> HIDE DEF a4
  <2>1. QED
    BY <1>5, <1>6, RestLocal

LEMMA AcquiredLocal ==
  ASSUME NEW q \in Local
  PROVE  LET a == [q EXCEPT !.pc = "send", !.tries = 0, !.limit = 0, !.busy = {},
                            !.hinted = FALSE]
         IN  a \in Local /\ a.pc = "send" /\ a.cred = q.cred
<1> DEFINE a1 == [q EXCEPT !.pc = "send"]
           a2 == [a1 EXCEPT !.tries = 0]
           a3 == [a2 EXCEPT !.limit = 0]
           a4 == [a3 EXCEPT !.busy = {}]
           a5 == [a4 EXCEPT !.hinted = FALSE]
<1>1. a1 \in Local /\ a1.pc = "send" /\ a1.cred = q.cred
  BY PcLocal DEF Pc
<1>2. a2 \in Local /\ a2.pc = "send" /\ a2.cred = q.cred
  <2> HIDE DEF a1
  <2>1. QED
    BY <1>1, FieldLocal
<1>3. a3 \in Local /\ a3.pc = "send" /\ a3.cred = q.cred
  <2> HIDE DEF a2
  <2>1. QED
    BY <1>2, FieldLocal
<1>4. a4 \in Local /\ a4.pc = "send" /\ a4.cred = q.cred
  <2> HIDE DEF a3
  <2>1. QED
    BY <1>3, FieldLocal
<1>5. a5 \in Local /\ a5.pc = "send" /\ a5.cred = q.cred
  <2> HIDE DEF a4
  <2>1. QED
    BY <1>4, FieldLocal
<1>6. QED
  BY <1>5

-----------------------------------------------------------------------------
(* A step of r that leaves its locals sound preserves the invariant of the *)
(* requests.                                                               *)
LEMMA BecomeInv ==
  ASSUME RequestsInv, NEW r \in Request, NEW q, NEW choice, Sound(r, q, choice),
         Become(r, q), picked' = [picked EXCEPT ![r] = choice]
  PROVE  RequestsInv'
<1>1. q \in Local /\ choice \in Cred \cup {NoId}
  BY DEF Sound
<1>2. req' \in [Request -> Local] /\ picked' \in [Request -> Cred \cup {NoId}]
  BY <1>1 DEF RequestsInv, Become
<1>3. ASSUME NEW s \in Request
      PROVE  Sound(s, req'[s], picked'[s])
  BY <1>3 DEF RequestsInv, Become
<1>4. QED
  BY <1>2, <1>3 DEF RequestsInv, Sound

(* The choice is left alone by the steps that neither select nor store.    *)
LEMMA GoOnInv ==
  ASSUME RequestsInv, NEW r \in Request, NEW q \in Local, Become(r, q),
         picked' = picked, req[r].pc # "store", q.pc # "store",
         q.pc \in Given => q.cred \in Allowed[r]
  PROVE  RequestsInv'
<1>1. picked[r] = NoId /\ picked' = [picked EXCEPT ![r] = NoId]
  BY DEF RequestsInv, Sound
<1>2. Sound(r, q, NoId)
  BY DEF Sound
<1>3. QED
  BY <1>1, <1>2, BecomeInv

LEMMA PoolSize ==
  ASSUME DInv
  PROVE  Cardinality(pool) \in Nat
<1>1. pool \in SUBSET Cred
  BY DEF DInv, IInv, TypeOK, TableTypeOK
<1>2. QED
  BY <1>1, FS_Subset, FS_CardinalityType, DispatchAssumption

(* What the invariant says of one request.                                 *)
LEMMA RequestFacts ==
  ASSUME DInv, NEW r \in Request
  PROVE  /\ req[r] \in Local
         /\ req[r].pc \in Given => req[r].cred \in Allowed[r]
         /\ req[r].pc = "store" => picked[r] \in Allowed[r] /\ picked[r] # NoId
         /\ req[r].pc # "store" => picked[r] = NoId
         /\ Allowed[r] \subseteq Cred
         /\ req[r].cred \in Cred \cup {NoId}
         /\ req[r].busy \in SUBSET Cred /\ req[r].forced \in SUBSET Cred
         /\ req[r].hinted \in BOOLEAN
         /\ pool \subseteq Cred /\ current \in Cred \cup {NoId}
  BY DispatchAssumption DEF DInv, RequestsInv, Sound, Local, IInv, TypeOK, TableTypeOK

(* Steps that end or repeat an attempt.                                    *)
LEMMA OverInv ==
  ASSUME DInv, NEW r \in Request, picked' = picked, req[r].pc # "store",
         \/ NextAttempt(r) \/ Answer(r)
         \/ \E busy \in SUBSET Cred, hinted \in BOOLEAN : TryAgain(r, busy, hinted)
  PROVE  RequestsInv'
<1>1. RequestsInv /\ req[r] \in Local
  BY RequestFacts DEF DInv
<1>2. CASE NextAttempt(r)
  <2>1. AfterAttempt(req[r]) \in Local /\ AfterAttempt(req[r]).pc \in {"idle", "sweep"}
    BY <1>1, AfterLocal
  <2>2. QED
    BY <1>1, <1>2, <2>1, GoOnInv DEF NextAttempt, Given
<1>3. CASE Answer(r)
  BY <1>1, <1>3, RestLocal, GoOnInv DEF Answer, Given
<1>4. ASSUME NEW busy \in SUBSET Cred, NEW hinted \in BOOLEAN, TryAgain(r, busy, hinted)
      PROVE  RequestsInv'
  <2> DEFINE a == [req[r] EXCEPT !.pc = "sweep", !.cred = NoId,
                                 !.tries = req[r].tries + 1,
                                 !.busy = busy, !.hinted = hinted]
  <2>1. a \in Local /\ a.pc = "sweep"
    BY <1>1, AgainLocal
  <2>2. Become(r, a)
    BY <1>4 DEF TryAgain
  <2> HIDE DEF a
  <2>3. QED
    BY <1>1, <2>1, <2>2, GoOnInv DEF Given
<1>5. QED
  BY <1>2, <1>3, <1>4

(* Steps that only move pc.                                                *)
LEMMA MoveInv ==
  ASSUME DInv, NEW r \in Request, picked' = picked, req[r].pc # "store",
         NEW pc \in Pc \ {"store"}, GoOn(r, pc),
         pc \in Given => req[r].pc \in Given
  PROVE  RequestsInv'
<1> DEFINE q == [req[r] EXCEPT !.pc = pc]
<1>1. RequestsInv /\ req[r] \in Local /\ (req[r].pc \in Given => req[r].cred \in Allowed[r])
  BY RequestFacts DEF DInv
<1>2. q \in Local /\ q.pc = pc /\ q.cred = req[r].cred
  BY <1>1, PcLocal
<1>3. Become(r, q)
  BY DEF GoOn
<1> HIDE DEF q
<1>4. QED
  BY <1>1, <1>2, <1>3, GoOnInv

(* Steps that give r a credential of its group.                            *)
LEMMA GiveInv ==
  ASSUME DInv, NEW r \in Request, NEW c \in Allowed[r],
         Become(r, [req[r] EXCEPT !.pc = "permit", !.cred = c]),
         picked' = [picked EXCEPT ![r] = NoId]
  PROVE  RequestsInv'
<1> DEFINE q == [req[r] EXCEPT !.pc = "permit", !.cred = c]
<1>1. RequestsInv /\ req[r] \in Local /\ c \in Cred
  BY RequestFacts DEF DInv
<1>2. q \in Local /\ q.pc = "permit" /\ q.cred = c
  BY <1>1, GivenLocal DEF Pc
<1>3. Become(r, q)
  OBVIOUS
<1> HIDE DEF q
<1>4. Sound(r, q, NoId)
  BY <1>2 DEF Sound
<1>5. QED
  BY <1>1, <1>3, <1>4, BecomeInv

-----------------------------------------------------------------------------
(* Every step keeps the requests sound, and is a step of CredentialPool.   *)

LEMMA BeginStep ==
  ASSUME DInv, NEW r \in Request, Begin(r)
  PROVE  RequestsInv' /\ UNCHANGED vars
<1> DEFINE budget == Smaller(Cardinality(pool) * RetriesPerCredential, MaxTotalRetries)
           a1 == [AtRest EXCEPT !.pc = "sweep"]
           a2 == [a1 EXCEPT !.budget = budget]
<1>1. budget \in Nat
  BY PoolSize, DispatchAssumption DEF Smaller
<1>2. a1 \in Local /\ a1.pc = "sweep"
  BY DEF AtRest, Local, Pc
<1>3. a2 \in Local /\ a2.pc = "sweep"
  <2> HIDE DEF a1, budget
  <2>1. QED
    BY <1>1, <1>2, FieldLocal
<1>4. Become(r, a2) /\ picked' = picked /\ req[r].pc = "idle" /\ RequestsInv /\ UNCHANGED vars
  BY DEF Begin, DInv, vars
<1> HIDE DEF a2
<1>5. QED
  BY <1>3, <1>4, GoOnInv DEF Given

LEMMA SweepStep ==
  ASSUME DInv, NEW r \in Request, Sweep(r)
  PROVE  RequestsInv' /\ [Next]_vars
<1> DEFINE q == req[r]
           limit == IF q.tries = 0 THEN Larger(Cardinality(pool) * MaxFailures, 1)
                                   ELSE q.limit
           start == CASE mode = "balanced" -> "select"
                      [] mode = "affinity" /\ ~q.hinted /\ SessionOf[r] # NoId -> "affinity"
                      [] OTHER -> "current"
           hinted == q.hinted \/ mode = "affinity"
           a1 == [q EXCEPT !.pc = start]
           a2 == [a1 EXCEPT !.limit = limit]
           a3 == [a2 EXCEPT !.hinted = hinted]
<1>1. q.pc = "sweep" /\ UNCHANGED <<admin, picked>> /\ q \in Local
  BY RequestFacts DEF Sweep
<1>2. CASE NextAttempt(r) /\ UNCHANGED tableVars
  BY <1>1, <1>2, OverInv DEF tableVars, vars
<1>3. CASE SweepRateLimited /\ Become(r, a3)
  <2>1. limit \in Nat
    BY <1>1, PoolSize, EntriesAssumption DEF Larger, Local
  <2>2. start \in {"select", "affinity", "current"}
    OBVIOUS
  <2>3. hinted \in BOOLEAN
    OBVIOUS
  <2>4. a1 \in Local /\ a1.pc = start
    <3> HIDE DEF start
    <3>1. start \in Pc
      BY <2>2 DEF Pc
    <3>2. QED
      BY <1>1, <3>1, PcLocal
  <2>5. a2 \in Local /\ a2.pc = start
    <3> HIDE DEF a1, limit, start
    <3>1. QED
      BY <2>1, <2>4, FieldLocal
  <2>6. a3 \in Local /\ a3.pc = start
    <3> HIDE DEF a2, hinted, start
    <3>1. QED
      BY <2>3, <2>5, FieldLocal
  <2>7. RequestsInv'
    <3> HIDE DEF a3, start
    <3>1. QED
      BY <1>1, <1>3, <2>2, <2>6, GoOnInv DEF DInv, Given
  <2>8. QED
    BY <1>1, <1>3, <2>7 DEF Next, Traffic
<1>4. QED
  BY <1>2, <1>3 DEF Sweep

LEMMA AffinityStep ==
  ASSUME DInv, NEW r \in Request, Affinity(r)
  PROVE  RequestsInv' /\ UNCHANGED vars
<1>1. req[r].pc = "affinity" /\ UNCHANGED vars
  BY DEF Affinity, vars
<1>2. picked' = picked /\ picked[r] = NoId /\ picked' = [picked EXCEPT ![r] = NoId]
  BY <1>1, RequestFacts DEF vars, DInv, RequestsInv
<1>3. CASE GoOn(r, "current")
  BY <1>1, <1>2, <1>3, MoveInv DEF Pc, Given
<1>4. CASE \E c \in Eligible(r) :
             Become(r, [req[r] EXCEPT !.pc = "permit", !.cred = c])
  BY <1>1, <1>2, <1>4, GiveInv DEF Eligible
<1>5. QED
  BY <1>1, <1>3, <1>4 DEF Affinity, Best

LEMMA CurrentStep ==
  ASSUME DInv, NEW r \in Request, Current(r)
  PROVE  RequestsInv' /\ UNCHANGED vars
<1>1. req[r].pc = "current" /\ UNCHANGED vars
  BY DEF Current, vars
<1>2. picked' = picked /\ picked[r] = NoId /\ picked' = [picked EXCEPT ![r] = NoId]
  BY <1>1, RequestFacts DEF vars, DInv, RequestsInv
<1>3. CASE GoOn(r, "select")
  BY <1>1, <1>2, <1>3, MoveInv DEF Pc, Given
<1>4. CASE /\ current \in Allowed[r]
           /\ Become(r, [req[r] EXCEPT !.pc = "permit", !.cred = current])
  BY <1>1, <1>2, <1>4, GiveInv
<1>5. QED
  BY <1>1, <1>3, <1>4 DEF Current

LEMMA SelectNextStep ==
  ASSUME DInv, NEW r \in Request, SelectNext(r)
  PROVE  RequestsInv' /\ [Next]_vars
<1>1. /\ req[r].pc \in {"select", "reselect"}
      /\ UNCHANGED <<pool, entry, current, admin>>
      /\ picked[r] = NoId /\ req[r] \in Local /\ RequestsInv
  BY RequestFacts DEF SelectNext, DInv
<1>2. CASE picked' = picked /\ (GoOn(r, "heal") \/ GoOn(r, "count"))
  BY <1>1, <1>2, MoveInv DEF Pc, Given, vars
<1>3. ASSUME NEW c \in Eligible(r), picked' = [picked EXCEPT ![r] = c], GoOn(r, "store")
      PROVE  RequestsInv' /\ Next
  <2> DEFINE q == [req[r] EXCEPT !.pc = "store"]
  <2>1. q \in Local /\ q.pc = "store"
    BY <1>1, PcLocal DEF Pc
  <2>2. c \in Serving /\ c \in Allowed[r] /\ c \in Cred /\ c # NoId
    BY <1>3, RequestFacts, EntriesAssumption DEF Eligible
  <2>3. Become(r, q)
    BY <1>3 DEF GoOn
  <2>4. Sound(r, q, c)
    <3> HIDE DEF q
    <3>1. QED
      BY <2>1, <2>2 DEF Sound, Given
  <2>5. RequestsInv'
    <3> HIDE DEF q
    <3>1. QED
      BY <1>1, <1>3, <2>3, <2>4, BecomeInv
  <2>6. Pick(r, c)
    BY <1>1, <1>3, <2>2 DEF Pick
  <2>7. QED
    BY <2>2, <2>5, <2>6 DEF Next
<1>4. QED
  BY <1>1, <1>2, <1>3 DEF SelectNext, Best

LEMMA HealAllStep ==
  ASSUME DInv, NEW r \in Request, HealAll(r)
  PROVE  RequestsInv' /\ [Next]_vars
<1>1. req[r].pc = "heal" /\ UNCHANGED <<admin, picked>>
  BY DEF HealAll
<1>2. GoOn(r, "reselect") \/ GoOn(r, "count")
  BY DEF HealAll
<1>3. RequestsInv'
  BY <1>1, <1>2, MoveInv DEF Pc, Given
<1>4. QED
  BY <1>1, <1>3 DEF HealAll, Next, Traffic, vars, tableVars

LEMMA StoreStep ==
  ASSUME DInv, NEW r \in Request, Store(r)
  PROVE  RequestsInv' /\ Next
<1>1. picked[r] \in Allowed[r] /\ picked[r] # NoId
  BY RequestFacts DEF Store
<1>2. RequestsInv'
  BY <1>1, GiveInv DEF Store
<1>3. StoreCurrent(r)
  BY <1>1 DEF Store, StoreCurrent
<1>4. QED
  BY <1>2, <1>3 DEF Next

LEMMA CountStep ==
  ASSUME DInv, NEW r \in Request, Count(r)
  PROVE  RequestsInv' /\ UNCHANGED vars
<1>1. req[r].pc = "count" /\ UNCHANGED vars /\ picked' = picked
  BY DEF Count, vars
<1>2. NextAttempt(r) \/ TryAgain(r, {}, req[r].hinted)
  BY DEF Count
<1>3. QED
  BY <1>1, <1>2, OverInv, RequestFacts

LEMMA PermitStep ==
  ASSUME DInv, NEW r \in Request, Permit(r)
  PROVE  RequestsInv' /\ UNCHANGED vars
<1>1. req[r].pc = "permit" /\ UNCHANGED vars /\ picked' = picked
  BY DEF Permit, vars
<1>2. CASE GoOn(r, "token")
  BY <1>1, <1>2, MoveInv DEF Pc, Given
<1>3. CASE TryAgain(r, req[r].busy \cup {req[r].cred},
                    req[r].hinted /\ req[r].cred \notin pool)
  <2>1. req[r].cred \in Cred /\ req[r].busy \in SUBSET Cred
    BY <1>1, RequestFacts DEF Given
  <2>2. /\ req[r].busy \cup {req[r].cred} \in SUBSET Cred
        /\ (req[r].hinted /\ req[r].cred \notin pool) \in BOOLEAN
    BY <2>1
  <2>3. QED
    BY <1>1, <1>3, <2>2, OverInv
<1>4. QED
  BY <1>1, <1>2, <1>3 DEF Permit

LEMMA AcquiredInv ==
  ASSUME DInv, NEW r \in Request, picked' = picked, req[r].pc \in Given, Acquired(r)
  PROVE  RequestsInv'
<1> DEFINE a == [req[r] EXCEPT !.pc = "send", !.tries = 0, !.limit = 0, !.busy = {},
                               !.hinted = FALSE]
<1>1. req[r] \in Local /\ req[r].cred \in Allowed[r] /\ RequestsInv
  BY RequestFacts DEF DInv
<1>2. a \in Local /\ a.pc = "send" /\ a.cred = req[r].cred
  BY <1>1, AcquiredLocal
<1>3. Become(r, a)
  BY DEF Acquired
<1> HIDE DEF a
<1>4. QED
  BY <1>1, <1>2, <1>3, GoOnInv DEF Given

LEMMA EnsureTokenStep ==
  ASSUME DInv, NEW r \in Request, EnsureToken(r)
  PROVE  RequestsInv' /\ [Next]_vars
<1>1. /\ req[r].pc = "token" /\ UNCHANGED <<admin, picked>>
      /\ req[r].cred \in Cred /\ req[r].pc \in Given
  BY RequestFacts DEF EnsureToken, Given
<1>2. RequestsInv'
  <2>1. CASE Acquired(r)
    BY <1>1, <2>1, AcquiredInv
  <2>2. ASSUME NEW pc \in {"obtained", "unrefreshed", "revoked"}, GoOn(r, pc)
        PROVE  RequestsInv'
    BY <1>1, <2>2, MoveInv DEF Pc, Given
  <2>3. QED
    BY <2>1, <2>2 DEF EnsureToken
<1>3. UNCHANGED vars \/ Traffic
  BY <1>1 DEF EnsureToken, Traffic, Outcome, vars, tableVars
<1>4. QED
  BY <1>2, <1>3 DEF Next

LEMMA TokenReadyStep ==
  ASSUME DInv, NEW r \in Request, TokenReady(r)
  PROVE  RequestsInv' /\ Next
<1>1. /\ req[r].pc = "obtained" /\ UNCHANGED <<admin, picked>>
      /\ req[r].cred \in Cred /\ req[r].pc \in Given
  BY RequestFacts DEF TokenReady, Given
<1>2. RequestsInv'
  BY <1>1, AcquiredInv DEF TokenReady
<1>3. Traffic
  BY <1>1 DEF TokenReady, Traffic, Outcome
<1>4. QED
  BY <1>2, <1>3 DEF Next

LEMMA TokenFailedStep ==
  ASSUME DInv, NEW r \in Request, TokenFailed(r)
  PROVE  RequestsInv' /\ Next
<1>1. /\ req[r].pc \in {"unrefreshed", "revoked"} /\ UNCHANGED <<admin, picked>>
      /\ req[r].cred \in Cred
      /\ req[r].busy \in SUBSET Cred /\ req[r].hinted \in BOOLEAN
  BY RequestFacts DEF TokenFailed, Given
<1>2. RequestsInv'
  BY <1>1, OverInv DEF TokenFailed
<1>3. Traffic
  BY <1>1 DEF TokenFailed, Traffic, Outcome
<1>4. QED
  BY <1>2, <1>3 DEF Next

(* A report to the pool that ends the attempt or the call.                 *)
LEMMA ReportStep ==
  ASSUME DInv, NEW r \in Request, req[r].pc \in Given, UNCHANGED <<admin, picked>>,
         NextAttempt(r) \/ Answer(r), Outcome(req[r].cred) \/ UNCHANGED tableVars
  PROVE  RequestsInv' /\ [Next]_vars
<1>1. req[r].cred \in Cred
  BY RequestFacts
<1>2. RequestsInv'
  BY OverInv DEF Given
<1>3. QED
  BY <1>1, <1>2 DEF Next, Traffic, vars, tableVars

LEMMA SendStep ==
  ASSUME DInv, NEW r \in Request, Send(r)
  PROVE  RequestsInv' /\ [Next]_vars
<1>1. req[r].pc = "send" /\ UNCHANGED <<admin, picked>> /\ req[r].pc \in Given
  BY DEF Send, Given
<1>2. CASE Succeed(r) \/ Reject(r) \/ QuotaGone(r) \/ Throttle(r) \/ Deny(r) \/ NoEndpoint(r)
  <2>1. NextAttempt(r) \/ Answer(r)
    BY <1>2 DEF Succeed, Reject, QuotaGone, Throttle, Deny, NoEndpoint, FailOverOrFail
  <2>2. Outcome(req[r].cred) \/ UNCHANGED tableVars
    BY <1>2 DEF Succeed, Reject, QuotaGone, Throttle, Deny, NoEndpoint, Outcome
  <2>3. QED
    BY <1>1, <2>1, <2>2, ReportStep
<1>3. CASE StaleToken(r)
  <2> DEFINE a1 == [req[r] EXCEPT !.pc = "force"]
             forced == req[r].forced \cup {req[r].cred}
             a2 == [a1 EXCEPT !.forced = forced]
  <2>1. /\ req[r] \in Local /\ req[r].cred \in Allowed[r] /\ RequestsInv
        /\ forced \in SUBSET Cred
    BY <1>1, RequestFacts DEF DInv
  <2>2. a1 \in Local /\ a1.pc = "force" /\ a1.cred = req[r].cred
    BY <2>1, PcLocal DEF Pc
  <2>3. a2 \in Local /\ a2.pc = "force" /\ a2.cred = req[r].cred
    <3> HIDE DEF a1, forced
    <3>1. QED
      BY <2>1, <2>2, FieldLocal
  <2>4. Become(r, a2) /\ UNCHANGED vars
    BY <1>1, <1>3 DEF StaleToken, vars, tableVars
  <2>5. RequestsInv'
    <3> HIDE DEF a2
    <3>1. QED
      BY <1>1, <2>1, <2>3, <2>4, GoOnInv DEF Given
  <2>6. QED
    BY <2>4, <2>5
<1>4. CASE Transient(r)
  <2>1. CASE GoOn(r, "backoff")
    BY <1>1, <1>4, <2>1, MoveInv DEF Transient, Pc, Given, vars, tableVars
  <2>2. CASE NextAttempt(r)
    BY <1>1, <1>4, <2>2, ReportStep DEF Transient
  <2>3. QED
    BY <1>4, <2>1, <2>2 DEF Transient
<1>5. QED
  BY <1>2, <1>3, <1>4 DEF Send

LEMMA ForceRefreshStep ==
  ASSUME DInv, NEW r \in Request, ForceRefresh(r)
  PROVE  RequestsInv' /\ [Next]_vars
<1>1. req[r].pc \in Given /\ UNCHANGED <<admin, picked>>
  BY DEF ForceRefresh, Given
<1>2. NextAttempt(r) \/ Answer(r)
  BY DEF ForceRefresh, Deny, FailOverOrFail
<1>3. Outcome(req[r].cred)
  BY DEF ForceRefresh, Deny, Outcome
<1>4. QED
  BY <1>1, <1>2, <1>3, ReportStep

LEMMA BackoffStep ==
  ASSUME DInv, NEW r \in Request, Backoff(r)
  PROVE  RequestsInv' /\ [Next]_vars
<1>1. req[r].pc \in Given /\ UNCHANGED <<admin, picked>> /\ UNCHANGED tableVars
  BY DEF Backoff, Given, tableVars
<1>2. QED
  BY <1>1, ReportStep DEF Backoff

-----------------------------------------------------------------------------
(* The inductive invariant and what follows from it. *)

LEMMA DispatchInitInv == DispatchInit => DInv
<1>1. SUFFICES ASSUME DispatchInit PROVE DInv
  OBVIOUS
<1>2. IInv
  BY <1>1, InitInv DEF DispatchInit
<1>3. \A r \in Request : Sound(r, AtRest, NoId)
  BY RestLocal DEF Sound, Given
<1>4. RequestsInv
  BY <1>1, <1>3, RestLocal DEF DispatchInit, Init, RequestsInv
<1>5. QED
  BY <1>2, <1>4 DEF DInv

LEMMA DispatchStep ==
  ASSUME DInv, [DispatchNext]_dvars
  PROVE  RequestsInv' /\ [Next]_vars
<1>1. ASSUME NEW r \in Request, Step(r)
      PROVE  RequestsInv' /\ [Next]_vars
  BY <1>1, SweepStep, AffinityStep, CurrentStep, SelectNextStep, HealAllStep, StoreStep,
     CountStep, PermitStep, EnsureTokenStep, TokenReadyStep, TokenFailedStep, SendStep,
     ForceRefreshStep, BackoffStep DEF Step
<1>2. ASSUME UNCHANGED <<req, picked>>
      PROVE  RequestsInv'
  BY <1>2 DEF DInv, RequestsInv, Sound
<1>3. ASSUME NEW o \in Operator, Operate(o)
      PROVE  RequestsInv' /\ [Next]_vars
  <2>1. Edit(o) /\ req' = req
    BY <1>3 DEF Operate
  <2>2. picked' = picked
    BY <2>1 DEF Edit, BeginDisable, Enabling, Delete, Reprioritise, FinishDisable, Select,
                DropIfEmpty, Switch, Persist
  <2>3. QED
    BY <1>2, <2>1, <2>2 DEF Next, Administer
<1>4. ASSUME NEW o \in Operator, NEW c \in Cred, NEW n \in Limit, Resize(o, c, n)
      PROVE  RequestsInv' /\ [Next]_vars
  BY <1>2, <1>4 DEF Resize, SetMaxConcurrency, Next, Administer
<1>5. ASSUME NEW m \in Mode, SetMode(m)
      PROVE  RequestsInv' /\ [Next]_vars
  BY <1>2, <1>5 DEF SetMode, vars
<1>6. ASSUME NEW c \in Cred, Cooldown(c)
      PROVE  RequestsInv' /\ [Next]_vars
  BY <1>2, <1>6 DEF Cooldown, Tick, Next
<1>7. ASSUME NEW c \in Cred, Renew(c)
      PROVE  RequestsInv' /\ [Next]_vars
  BY <1>2, <1>7 DEF Renew, Next, Traffic, Outcome
<1>8. CASE UNCHANGED dvars
  BY <1>2, <1>8 DEF dvars, vars
<1>9. QED
  BY <1>1, <1>3, <1>4, <1>5, <1>6, <1>7, <1>8, BeginStep DEF DispatchNext

(* The variables that CredentialPool does not have. *)
OwnTypes ==
  /\ mode \in Mode
  /\ primary \in [Session -> Cred \cup {NoId}]
  /\ cap \in [Cred -> Limit]
  /\ stray \subseteq Request

LEMMA OwnTypesInit == DispatchInit => OwnTypes
  BY DEF DispatchInit, OwnTypes

LEMMA OwnTypesStep ==
  ASSUME DInv, OwnTypes, [DispatchNext]_dvars
  PROVE  OwnTypes'
<1>1. ASSUME NEW r \in Request, Begin(r) \/ Step(r), PermitsOnly
      PROVE  OwnTypes'
  <2>1. cap' = cap /\ stray' \subseteq Request
    BY <1>1 DEF PermitsOnly, OwnTypes
  <2>2. mode' = mode
    BY <1>1 DEF Begin, Step, Sweep, Affinity, Current, SelectNext, HealAll, Store, Count,
                Permit, EnsureToken, TokenReady, TokenFailed, Send, ForceRefresh, Backoff
  <2>3. CASE Affinity(r)
    <3>1. /\ Eligible(r) \subseteq Cred
          /\ Best(Eligible(r)) \subseteq Cred
      BY DEF DInv, IInv, TypeOK, TableTypeOK, Eligible, Serving, Best
    <3>2. primary' = primary \/ \E c \in Cred : primary' = [primary EXCEPT ![SessionOf[r]] = c]
      BY <2>3, <3>1 DEF Affinity
    <3>3. QED
      BY <2>1, <2>2, <3>2 DEF OwnTypes
  <2>4. CASE ~Affinity(r)
    <3>1. primary' = primary
      BY <1>1, <2>4 DEF Begin, Step, Sweep, Current, SelectNext, HealAll, Store, Count,
                Permit, EnsureToken, TokenReady, TokenFailed, Send, ForceRefresh, Backoff
    <3>2. QED
      BY <2>1, <2>2, <3>1 DEF OwnTypes
  <2>5. QED
    BY <2>3, <2>4
<1>2. ASSUME NEW o \in Operator, Operate(o)
      PROVE  OwnTypes'
  BY <1>2, DispatchAssumption DEF Operate, OwnTypes
<1>3. ASSUME NEW o \in Operator, NEW c \in Cred, NEW n \in Limit, Resize(o, c, n)
      PROVE  OwnTypes'
  BY <1>3 DEF Resize, OwnTypes, Holders
<1>4. ASSUME NEW m \in Mode, SetMode(m)
      PROVE  OwnTypes'
  BY <1>4 DEF SetMode, OwnTypes
<1>5. ASSUME NEW c \in Cred, Cooldown(c) \/ Renew(c)
      PROVE  OwnTypes'
  BY <1>5 DEF Cooldown, Renew, OwnTypes
<1>6. CASE UNCHANGED dvars
  BY <1>6 DEF dvars, OwnTypes
<1>7. QED
  BY <1>1, <1>2, <1>3, <1>4, <1>5, <1>6 DEF DispatchNext

LEMMA DispatchInvariance == DispatchSpec => []DInv
<1>1. DInv /\ [DispatchNext]_dvars => DInv'
  BY DispatchStep, NextInv DEF DInv
<1>2. QED
  BY <1>1, DispatchInitInv, PTL DEF DispatchSpec

(* The loop is type correct, and a selection is pending exactly between    *)
(* select_next_credential and the store to current_id.                     *)
THEOREM DispatchTypeCorrect == DispatchSpec => []DispatchTypeOK
<1>1. DInv /\ OwnTypes /\ [DispatchNext]_dvars => OwnTypes'
  BY OwnTypesStep
<1>2. DispatchSpec => []OwnTypes
  BY <1>1, OwnTypesInit, DispatchInvariance, PTL DEF DispatchSpec
<1>3. DInv /\ OwnTypes => DispatchTypeOK
  BY DEF DInv, IInv, RequestsInv, Sound, OwnTypes, DispatchTypeOK
<1>4. QED
  BY <1>2, <1>3, DispatchInvariance, PTL

(* Whichever way a request was given a credential, it belongs to the       *)
(* request's group when a permit is taken and as long as it is held.       *)
THEOREM GroupsIsolated == DispatchSpec => []GroupIsolation
<1>1. DInv => GroupIsolation
  BY RequestFacts DEF GroupIsolation, Using, Given
<1>2. QED
  BY <1>1, DispatchInvariance, PTL

(* The retry loop is one of the traffics that CredentialPool allows: every *)
(* theorem about the pool holds of the loop.                               *)
THEOREM DispatchImplementsPool == DispatchSpec => ImplementsPool
<1>1. DispatchInit => Init
  BY DEF DispatchInit
<1>2. DInv /\ [DispatchNext]_dvars => [Next]_vars
  BY DispatchStep
<1>3. QED
  BY <1>1, <1>2, DispatchInvariance, PTL DEF DispatchSpec, Spec, ImplementsPool

(* In particular no request is given a credential whose failure counters   *)
(* have reached the threshold, and what an operator, a quota or a dead     *)
(* token has put out of service stays out under the retry loop.            *)
THEOREM DispatchKeepsThePool ==
  DispatchSpec => /\ []ReasonOnRecord /\ []ThresholdEnforced
                  /\ OnlyOperatorLifts /\ ImplementsLifecycle
<1>1. ImplementsPool <=> Spec
  BY DEF ImplementsPool
<1>2. QED
  BY <1>1, DispatchImplementsPool, ReasonRecorded, ThresholdHolds, LatchedIsOperators,
     PoolImplementsLifecycle, PTL DEF ImplementsPool
=============================================================================
