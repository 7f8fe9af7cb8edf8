-------------------------- MODULE Services_proofs ---------------------------
(***************************************************************************)
(* Proofs about the components beside the request loop.                    *)
(*                                                                         *)
(* RequestLog, for any limits and any number of requests, restarts and     *)
(* errors: sinceTrim counts the rows that the next trim accounts for; what *)
(* a restart or a failed trim forgets is at most TrimEvery rows.           *)
(*                                                                         *)
(* TokenRefresh, for any number of threads, accounts and rotations: only   *)
(* the holder of the lock changes what the upstream service accepts and    *)
(* writes credentials back, so what it read under the lock is still true   *)
(* when it calls.                                                          *)
(*                                                                         *)
(* AccessKeys, for any keys, groups, credentials and handlers and any      *)
(* number of operations: an operation that was alone from its check to its *)
(* end found the table as it left it; and a request under way has seen the *)
(* binding of its key at every moment.                                     *)
(*                                                                         *)
(* LiveConfig, for any settings, wishes and calls and any number of        *)
(* crashes and failures: while no two calls have overlapped there is one   *)
(* that may be at work, and the place it has come to says how the values   *)
(* in memory and those of the file differ.                                 *)
(***************************************************************************)
EXTENDS RequestLog, TokenRefresh, AccessKeys, LiveConfig, FiniteSetTheorems, SequenceTheorems,
        TLAPS

-----------------------------------------------------------------------------
(* RequestLog. *)

CallStage  == {"open", "none", "gone", "error", "success"}
LoggedCall == [stage : CallStage, path : Path \cup {""}, ts : Nat]

\* Where the writer is and what it holds.
WriterOK ==
    /\ writer \in [at : {"recv", "insert", "trim", "gone"}, rec : Nat]
    /\ writer.at = "insert" => writer.rec \in Request
    /\ writer.at # "insert" => writer.rec = 0

\* The rows by what has been counted since the last trim, and what has been forgotten.
RowsAccounted ==
    /\ restarts \in Nat /\ failedTrims \in Nat
    /\ sinceTrim \in 0 .. TrimEvery
    /\ sinceTrim = TrimEvery <=> writer.at = "trim"
    /\ Cardinality(rows) <= MaxRecords + TrimEvery * (restarts + failedTrims) + sinceTrim

LogTypes ==
    /\ calls \in Seq(LoggedCall) /\ channel \in Seq(Request)
    /\ rows \subseteq written /\ written \subseteq Request /\ missed \subseteq Request

LogIInv == LogTypes /\ WriterOK /\ RowsAccounted /\ AnsweredIsLogged

OnTheWay == {channel[i] : i \in DOMAIN channel}

\* The written records that are no older than c's.
Younger(c) == {d \in written \ {c} : calls[d].ts >= calls[c].ts}

Accounted(c) ==
    \/ calls[c].stage = "gone"
    \/ calls[c].stage = "none" /\ calls[c].path \in {"buffered", "whole"}
    \/ (calls[c].stage = "success" /\ errorsOnly)
    \/ c \in missed \cup rows \cup {writer.rec} \cup OnTheWay
    \/ Cardinality(Younger(c)) >= MaxRecords

LEMMA AnsweredByCall == AnsweredIsLogged <=> \A c \in Request \ Open : Accounted(c)
BY DEF AnsweredIsLogged, Accounted, Younger, OnTheWay

LEMMA FiniteRun ==
    ASSUME NEW n \in Nat, NEW S \in SUBSET (1 .. n)
    PROVE  IsFiniteSet(S) /\ Cardinality(S) \in Nat
<1>1. IsFiniteSet(1 .. n)
  BY FS_Interval
<1> QED BY <1>1, FS_Subset, FS_CardinalityType

LEMMA SmallerRun ==
    ASSUME NEW n \in Nat, NEW S \in SUBSET (1 .. n), NEW T \in SUBSET S
    PROVE  /\ Cardinality(S) \in Nat /\ Cardinality(T) \in Nat
           /\ Cardinality(T) <= Cardinality(S)
BY FiniteRun, FS_Subset, FS_CardinalityType

LEMMA LastOf ==
    ASSUME NEW S, NEW s \in Seq(S), s # <<>>
    PROVE  s[Len(s)] \in S
OBVIOUS

LEMMA Appended ==
    ASSUME NEW S, NEW s \in Seq(S), NEW e \in S
    PROVE  /\ Append(s, e) \in Seq(S) /\ Len(Append(s, e)) = Len(s) + 1 /\ Len(s) \in Nat
           /\ Append(s, e)[Len(s) + 1] = e /\ \A i \in 1 .. Len(s) : Append(s, e)[i] = s[i]
OBVIOUS

LEMMA Requests ==
    ASSUME LogTypes
    PROVE  Len(calls) \in Nat /\ DOMAIN calls = Request /\ Request = 1 .. Len(calls)
<1>1. calls \in Seq(LoggedCall)
  BY DEF LogTypes
<1> QED BY <1>1 DEF Request

-----------------------------------------------------------------------------
(* Once accounted for, a request stays so while nothing but the records    *)
(* written grows.                                                          *)

\* Times of requests never change, and the written records are never fewer.
KeepsWritten ==
    /\ Request \subseteq Request' /\ written \subseteq written' /\ written' \subseteq Request'
    /\ \A c \in Request : calls'[c].ts = calls[c].ts

LEMMA YoungerKept ==
    ASSUME LogTypes, LogTypes', KeepsWritten, NEW c \in Request,
           Cardinality(Younger(c)) >= MaxRecords
    PROVE  Cardinality(Younger(c)') >= MaxRecords
<1>1. Younger(c) \subseteq Younger(c)'
  BY DEF Younger, KeepsWritten, LogTypes
<1>2. Younger(c)' \subseteq Request'
  BY DEF Younger, KeepsWritten
<1>3. Len(calls') \in Nat /\ Request' = 1 .. Len(calls')
  BY DEF LogTypes, Request
<1>4. Younger(c)' \in SUBSET (1 .. Len(calls')) /\ Younger(c) \in SUBSET Younger(c)'
  BY <1>1, <1>2, <1>3
<1>5. /\ Cardinality(Younger(c)') \in Nat /\ Cardinality(Younger(c)) \in Nat
      /\ Cardinality(Younger(c)) <= Cardinality(Younger(c)')
  BY <1>3, <1>4, SmallerRun
<1> QED BY <1>5, LogAssumption

\* A step that keeps the record of a request where it counts, or moves it along.
LEMMA AccountedKept ==
    ASSUME LogTypes, LogTypes', KeepsWritten, NEW c \in Request, Accounted(c),
           calls'[c] = calls[c], errorsOnly' = errorsOnly,
           c \in missed \cup rows \cup {writer.rec} \cup OnTheWay => Accounted(c)'
    PROVE  Accounted(c)'
<1>1. CASE Cardinality(Younger(c)) >= MaxRecords
  BY <1>1, YoungerKept DEF Accounted
<1> QED BY <1>1 DEF Accounted

-----------------------------------------------------------------------------
(* Each action. *)

LEMMA InitLog == LogInit => LogIInv
<1> SUFFICES ASSUME LogInit PROVE LogIInv
  OBVIOUS
<1>1. LogTypes /\ WriterOK /\ Request = {}
  BY DEF LogInit, LogTypes, WriterOK, Idle, Request
<1>2. RowsAccounted
  BY LogAssumption, FS_EmptySet DEF LogInit, RowsAccounted, Idle
<1>3. AnsweredIsLogged
  BY <1>1 DEF AnsweredIsLogged
<1> QED BY <1>1, <1>2, <1>3 DEF LogIInv

LEMMA BeginKeeps == ASSUME LogIInv, Begin PROVE LogIInv'
<1> USE DEF LogIInv
<1>1. PICK later \in {0, 1} :
        calls' = Append(calls,
                        [stage |-> "open", path |-> "",
                         ts |-> later + IF calls = <<>> THEN 0 ELSE calls[Len(calls)].ts])
  BY DEF Begin
<1> DEFINE new == [stage |-> "open", path |-> "",
                   ts |-> later + IF calls = <<>> THEN 0 ELSE calls[Len(calls)].ts]
<1>2. new \in LoggedCall
  <2>1. calls \in Seq(LoggedCall)
    BY DEF LogTypes
  <2>2. calls # <<>> => calls[Len(calls)] \in LoggedCall
    BY <2>1, LastOf
  <2>3. calls # <<>> => calls[Len(calls)].ts \in Nat
    BY <2>2 DEF LoggedCall
  <2>4. later \in Nat
    OBVIOUS
  <2> QED BY <2>3, <2>4 DEF LoggedCall, CallStage
<1>a. calls' = Append(calls, new) /\ new.stage = "open"
  BY <1>1
<1> HIDE DEF new
<1>3. /\ calls' \in Seq(LoggedCall) /\ Len(calls') = Len(calls) + 1 /\ Len(calls) \in Nat
      /\ calls'[Len(calls) + 1] = new /\ \A c \in Request : calls'[c] = calls[c]
  <2>1. calls \in Seq(LoggedCall) /\ Request = 1 .. Len(calls)
    BY Requests DEF LogTypes
  <2> QED BY <1>a, <1>2, <2>1
<1>4. Request' = Request \cup {Len(calls) + 1} /\ Request \subseteq Request'
  BY <1>3 DEF Request
<1>5. UNCHANGED <<errorsOnly, channel, writer, rows, sinceTrim, written, missed, restarts,
                  failedTrims>>
  BY DEF Begin
<1>6. LogTypes'
  BY <1>3, <1>4, <1>5, SeqMonotonic DEF LogTypes
<1>7. WriterOK' /\ RowsAccounted'
  BY <1>4, <1>5 DEF WriterOK, RowsAccounted
<1>8. KeepsWritten
  BY <1>3, <1>4, <1>5 DEF KeepsWritten, LogTypes
<1>9. ASSUME NEW c \in Request' \ Open' PROVE Accounted(c)'
  <2>1. c \in Request \ Open
    <3>1. c # Len(calls) + 1
      BY <1>a, <1>3, <1>4, <1>9 DEF Open
    <3>2. c \in Request /\ calls'[c] = calls[c]
      BY <1>3, <1>4, <1>9, <3>1
    <3> QED BY <1>4, <1>9, <3>2 DEF Open
  <2>2. Accounted(c)
    BY <2>1, AnsweredByCall
  <2>3. calls'[c] = calls[c]
    BY <1>3, <2>1
  <2>4. OnTheWay' = OnTheWay
    BY <1>5 DEF OnTheWay
  <2> QED BY <1>5, <1>6, <1>8, <2>1, <2>2, <2>3, <2>4, AccountedKept DEF Accounted
<1> QED BY <1>6, <1>7, <1>9 DEF AnsweredIsLogged, Accounted, Younger, OnTheWay

\* What a step that leaves the requests alone has to show.
LEMMA CallsKept ==
    ASSUME LogTypes, calls' = calls
    PROVE  Request' = Request /\ Open' = Open
BY DEF Request, Open

LEMMA AnswerKeeps ==
    ASSUME LogIInv, NEW c \in Open, NEW path \in Path, NEW ending \in Ending,
           Answer(c, path, ending)
    PROVE  LogIInv'
<1> DEFINE kind == RecordOf(path, ending)
           told == [calls[c] EXCEPT
                      !.stage = IF kind = "none" /\ ending = "gone" THEN "gone" ELSE kind,
                      !.path  = IF kind = "none" /\ ending # "gone" THEN path ELSE ""]
<1>1. LogTypes /\ WriterOK /\ RowsAccounted /\ AnsweredIsLogged
  BY DEF LogIInv
<1>2. calls \in Seq(LoggedCall) /\ c \in 1 .. Len(calls) /\ Request = 1 .. Len(calls)
  BY <1>1, Requests DEF LogTypes, Open
<1>3. /\ kind \in CallStage /\ kind # "open"
      /\ kind = "none" /\ ending # "gone" => path \in {"buffered", "whole"}
  BY DEF RecordOf, CallStage, Path, Ending
<1>4. calls[c] \in LoggedCall
  BY <1>2
<1>5. told \in LoggedCall /\ told.ts = calls[c].ts /\ told.stage # "open"
      /\ (told.stage = "none" => told.path \in {"buffered", "whole"})
      /\ told.stage = (IF kind = "none" /\ ending = "gone" THEN "gone" ELSE kind)
  BY <1>3, <1>4 DEF LoggedCall, CallStage, Path
<1> HIDE DEF told
<1>6. calls' = [calls EXCEPT ![c] = told]
  BY <1>2, <1>4 DEF Answer, LoggedCall, told
<1> HIDE DEF kind
<1>7. /\ calls' \in Seq(LoggedCall) /\ Request' = Request /\ calls'[c] = told
      /\ \A d \in Request \ {c} : calls'[d] = calls[d]
  BY <1>2, <1>5, <1>6, ExceptSeq DEF Request
<1>8. /\ UNCHANGED <<errorsOnly, writer, rows, sinceTrim, written, restarts, failedTrims>>
      /\ \/ kind = "none" /\ UNCHANGED <<channel, missed>>
         \/ kind # "none" /\ missed' = missed \cup {c} /\ UNCHANGED channel
         \/ kind # "none" /\ channel' = Append(channel, c) /\ UNCHANGED missed
  BY DEF Answer, kind
<1>9. channel \in Seq(Request) /\ channel' \in Seq(Request)
  BY <1>1, <1>2, <1>8 DEF LogTypes
<1>10. LogTypes'
  BY <1>1, <1>2, <1>7, <1>8, <1>9 DEF LogTypes
<1>11. WriterOK' /\ RowsAccounted'
  BY <1>1, <1>7, <1>8 DEF WriterOK, RowsAccounted
<1>12. KeepsWritten
  BY <1>1, <1>5, <1>7, <1>8 DEF KeepsWritten, LogTypes
<1>13. OnTheWay \subseteq OnTheWay' /\ (kind # "none" => c \in missed' \cup OnTheWay')
  <2>1. CASE UNCHANGED channel
    BY <1>8, <2>1, Appended DEF OnTheWay
  <2>2. CASE channel' = Append(channel, c)
    <3>1. /\ Len(channel') = Len(channel) + 1 /\ channel'[Len(channel) + 1] = c
          /\ Len(channel) \in Nat
          /\ DOMAIN channel = 1 .. Len(channel) /\ DOMAIN channel' = 1 .. Len(channel')
          /\ \A i \in 1 .. Len(channel) : channel'[i] = channel[i]
      BY <1>2, <1>9, <2>2
    <3> QED BY <3>1 DEF OnTheWay
  <2> QED BY <1>8, <2>1, <2>2
<1>14. ASSUME NEW d \in Request' \ Open' PROVE Accounted(d)'
  <2>1. CASE d = c
    BY <1>3, <1>5, <1>7, <1>13, <2>1 DEF Accounted
  <2>2. CASE d # c
    <3>1. d \in Request \ Open /\ calls'[d] = calls[d]
      BY <1>7, <1>14, <2>2 DEF Open
    <3>2. Accounted(d)
      BY <1>1, <3>1, AnsweredByCall
    <3> QED BY <1>1, <1>8, <1>10, <1>12, <1>13, <3>1, <3>2, AccountedKept DEF Accounted
  <2> QED BY <2>1, <2>2
<1> QED BY <1>10, <1>11, <1>14 DEF LogIInv, AnsweredIsLogged, Accounted, Younger, OnTheWay

Recorded == missed \cup rows \cup {writer.rec} \cup OnTheWay

\* A step that changes neither the requests nor the mode, and moves or keeps every record
\* that counts, unless the mode leaves it out.
LEMMA MoveKeeps ==
    ASSUME LogTypes, AnsweredIsLogged, LogTypes', calls' = calls, errorsOnly' = errorsOnly,
           written \subseteq written',
           \A c \in Recorded \cap Request :
              c \in Recorded' \/ (calls[c].stage = "success" /\ errorsOnly)
    PROVE  AnsweredIsLogged'
<1>1. Request' = Request /\ Open' = Open /\ KeepsWritten
  BY CallsKept DEF KeepsWritten, LogTypes
<1>2. ASSUME NEW c \in Request' \ Open' PROVE Accounted(c)'
  <2>1. c \in Request \ Open /\ Accounted(c)
    BY <1>1, AnsweredByCall
  <2> QED BY <1>1, <2>1, AccountedKept DEF Accounted, Recorded
<1> QED BY <1>2 DEF AnsweredIsLogged, Accounted, Younger, OnTheWay

LEMMA TakeRecordKeeps == ASSUME LogIInv, TakeRecord PROVE LogIInv'
<1>1. LogTypes /\ WriterOK /\ RowsAccounted /\ AnsweredIsLogged
  BY DEF LogIInv
<1>2. /\ channel \in Seq(Request) /\ channel # <<>> /\ channel' = Tail(channel)
      /\ UNCHANGED <<errorsOnly, calls, rows, sinceTrim, written, missed, restarts, failedTrims>>
      /\ writer.at = "recv" /\ Request' = Request
      /\ writer' = IF errorsOnly /\ calls[Head(channel)].stage = "success" THEN Idle
                   ELSE [at |-> "insert", rec |-> Head(channel)]
  BY <1>1, CallsKept DEF TakeRecord, LogTypes
<1>3. /\ Head(channel) \in Request /\ channel' \in Seq(Request)
      /\ Len(channel') = Len(channel) - 1 /\ Len(channel) \in Nat \ {0}
      /\ channel[1] = Head(channel)
      /\ \A i \in 1 .. Len(channel') : channel'[i] = channel[i + 1]
  BY <1>2, HeadTailProperties, EmptySeq
<1>4. Head(channel) \in Nat /\ Head(channel) # 0
  BY <1>1, <1>3, Requests
<1>5. LogTypes'
  BY <1>1, <1>2, <1>3 DEF LogTypes
<1>6. WriterOK' /\ RowsAccounted'
  BY <1>1, <1>2, <1>3, <1>4 DEF WriterOK, RowsAccounted, Idle
<1>7. OnTheWay \subseteq OnTheWay' \cup {Head(channel)}
  <2>1. ASSUME NEW i \in DOMAIN channel, i # 1 PROVE channel[i] \in OnTheWay'
    <3>1. DOMAIN channel = 1 .. Len(channel) /\ DOMAIN channel' = 1 .. Len(channel')
      BY <1>2, <1>3, LenProperties
    <3>2. i - 1 \in DOMAIN channel' /\ channel'[i - 1] = channel[i]
      BY <1>3, <2>1, <3>1
    <3> QED BY <3>2 DEF OnTheWay
  <2> QED BY <1>3, <2>1 DEF OnTheWay
<1>8. writer.rec = 0
  BY <1>1, <1>2 DEF WriterOK
<1>9. 0 \notin Request
  BY <1>1, Requests
<1>10. AnsweredIsLogged'
  <2>1. ASSUME NEW c \in Recorded \cap Request
        PROVE  c \in Recorded' \/ (calls[c].stage = "success" /\ errorsOnly)
    <3> DEFINE skipped == errorsOnly /\ calls[Head(channel)].stage = "success"
    <3>1. CASE c = Head(channel) /\ skipped
      BY <3>1
    <3>2. CASE c = Head(channel) /\ ~skipped
      <4>1. writer'.rec = c
        BY <1>2, <3>2
      <4> QED BY <4>1 DEF Recorded
    <3>3. CASE c # Head(channel)
      <4>1. c \in missed \cup rows \cup OnTheWay'
        BY <1>7, <1>8, <1>9, <3>3 DEF Recorded
      <4> QED BY <1>2, <4>1 DEF Recorded
    <3> QED BY <3>1, <3>2, <3>3
  <2> QED BY <1>1, <1>2, <1>5, <2>1, MoveKeeps
<1> QED BY <1>5, <1>6, <1>10 DEF LogIInv

LEMMA InsertKeeps == ASSUME LogIInv, Insert PROVE LogIInv'
<1>1. LogTypes /\ WriterOK /\ RowsAccounted /\ AnsweredIsLogged
  BY DEF LogIInv
<1>2. /\ writer.at = "insert" /\ writer.rec \in Request /\ Request' = Request
      /\ UNCHANGED <<errorsOnly, calls, channel, restarts, failedTrims>>
  BY <1>1, CallsKept DEF Insert, WriterOK
<1>3. OnTheWay' = OnTheWay
  BY <1>2 DEF OnTheWay
<1>4. CASE /\ rows' = rows \cup {writer.rec} /\ written' = written \cup {writer.rec}
           /\ sinceTrim' = sinceTrim + 1 /\ writer' = [at |-> Inserted(sinceTrim'), rec |-> 0]
           /\ UNCHANGED missed
  <2>1. LogTypes'
    BY <1>1, <1>2, <1>4 DEF LogTypes
  <2>2. sinceTrim \in 0 .. TrimEvery - 1
    BY <1>1, <1>2, LogAssumption DEF RowsAccounted
  <2>3. WriterOK' /\ (sinceTrim' = TrimEvery <=> writer'.at = "trim")
    BY <1>4, <2>2, LogAssumption DEF WriterOK, Inserted
  <2>4. Cardinality(rows') \in Nat /\ Cardinality(rows') <= Cardinality(rows) + 1
        /\ Cardinality(rows) \in Nat
    <3>1. IsFiniteSet(rows)
      BY <1>1, Requests, FiniteRun DEF LogTypes
    <3>2. /\ IsFiniteSet(rows \cup {writer.rec})
          /\ Cardinality(rows \cup {writer.rec}) =
                IF writer.rec \in rows THEN Cardinality(rows) ELSE Cardinality(rows) + 1
      BY <3>1, FS_AddElement
    <3>3. Cardinality(rows) \in Nat
      BY <3>1, FS_CardinalityType
    <3> QED BY <1>4, <3>2, <3>3
  <2>5. TrimEvery * (restarts + failedTrims) \in Nat
    BY <1>1, LogAssumption DEF RowsAccounted
  <2>6. RowsAccounted'
    <3> DEFINE k == TrimEvery * (restarts + failedTrims)
    <3>1. Cardinality(rows) <= MaxRecords + k + sinceTrim
      BY <1>1 DEF RowsAccounted
    <3>2. k' = k
      BY <1>2
    <3> HIDE DEF k
    <3>3. Cardinality(rows') <= MaxRecords + k + sinceTrim'
      BY <1>4, <2>2, <2>4, <2>5, <3>1, LogAssumption DEF k
    <3> QED BY <1>1, <1>2, <1>4, <2>2, <2>3, <3>2, <3>3, LogAssumption DEF RowsAccounted, k
  <2>7. AnsweredIsLogged'
    <3>1. Recorded \cap Request \subseteq Recorded'
      BY <1>1, <1>2, <1>3, <1>4, Requests DEF Recorded, Idle
    <3>2. \A c \in Recorded \cap Request :
             c \in Recorded' \/ (calls[c].stage = "success" /\ errorsOnly)
      BY <3>1
    <3>3. calls' = calls /\ errorsOnly' = errorsOnly /\ written \subseteq written'
      BY <1>2, <1>4
    <3> QED BY <1>1, <2>1, <3>2, <3>3, MoveKeeps
  <2> QED BY <2>1, <2>3, <2>6, <2>7 DEF LogIInv
<1>5. CASE /\ missed' = missed \cup {writer.rec} /\ writer' = Idle
           /\ UNCHANGED <<rows, written, sinceTrim>>
  <2>1. LogTypes'
    BY <1>1, <1>2, <1>5 DEF LogTypes
  <2>2. WriterOK' /\ RowsAccounted'
    BY <1>1, <1>2, <1>5 DEF WriterOK, RowsAccounted, Idle
  <2>3. AnsweredIsLogged'
    <3>1. Recorded \cap Request \subseteq Recorded'
      BY <1>1, <1>2, <1>3, <1>5, Requests DEF Recorded, Idle
    <3>2. \A c \in Recorded \cap Request :
             c \in Recorded' \/ (calls[c].stage = "success" /\ errorsOnly)
      BY <3>1
    <3>3. calls' = calls /\ errorsOnly' = errorsOnly /\ written \subseteq written'
      BY <1>2, <1>5
    <3> QED BY <1>1, <2>1, <3>2, <3>3, MoveKeeps
  <2> QED BY <2>1, <2>2, <2>3 DEF LogIInv
<1> QED BY <1>4, <1>5 DEF Insert

LEMMA RestartKeeps == ASSUME LogIInv, Restart PROVE LogIInv'
<1>1. LogTypes /\ WriterOK /\ RowsAccounted /\ AnsweredIsLogged
  BY DEF LogIInv
<1>2. /\ restarts' = restarts + 1 /\ channel' = <<>> /\ sinceTrim' = 0
      /\ calls' = [c \in Request |->
                      IF c \in Open THEN [calls[c] EXCEPT !.stage = "gone"] ELSE calls[c]]
      /\ missed' = missed \cup OnTheWay \cup ({writer.rec} \ {0})
      /\ writer' \in {Idle, [at |-> "gone", rec |-> 0]}
      /\ UNCHANGED <<errorsOnly, rows, written, failedTrims>>
  BY DEF Restart, OnTheWay
<1>3. calls \in Seq(LoggedCall) /\ Request = 1 .. Len(calls) /\ Len(calls) \in Nat
  BY <1>1, Requests DEF LogTypes
<1>4. \A c \in Request : calls'[c] \in LoggedCall /\ calls'[c].ts = calls[c].ts
                         /\ (c \notin Open => calls'[c] = calls[c])
                         /\ (c \in Open => calls'[c].stage = "gone")
  <2>1. ASSUME NEW c \in Request
        PROVE  /\ [calls[c] EXCEPT !.stage = "gone"] \in LoggedCall /\ calls[c] \in LoggedCall
               /\ [calls[c] EXCEPT !.stage = "gone"].ts = calls[c].ts
               /\ [calls[c] EXCEPT !.stage = "gone"].stage = "gone"
    <3>1. calls[c] \in LoggedCall
      BY <1>3
    <3> QED BY <3>1 DEF LoggedCall, CallStage
  <2> QED BY <1>2, <2>1
<1>5. calls' \in Seq(LoggedCall) /\ Len(calls') = Len(calls)
  BY <1>2, <1>3, <1>4
<1>6. Request' = Request
  BY <1>3, <1>5 DEF Request
<1>7. OnTheWay \subseteq Request
  BY <1>1 DEF OnTheWay, LogTypes
<1>8. LogTypes'
  <2>1. {writer.rec} \ {0} \subseteq Request
    BY <1>1 DEF WriterOK
  <2>2. channel' \in Seq(Request')
    BY <1>2
  <2> QED BY <1>1, <1>2, <1>5, <1>6, <1>7, <2>1, <2>2 DEF LogTypes
<1>9. WriterOK'
  BY <1>2 DEF WriterOK, Idle
<1>10. RowsAccounted'
  <2>1. /\ restarts \in Nat /\ failedTrims \in Nat /\ sinceTrim \in 0 .. TrimEvery
        /\ Cardinality(rows) <= MaxRecords + TrimEvery * (restarts + failedTrims) + sinceTrim
        /\ Cardinality(rows) \in Nat
    BY <1>1, <1>3, FiniteRun DEF RowsAccounted, LogTypes
  <2>2. /\ TrimEvery * (restarts + failedTrims) \in Nat
        /\ TrimEvery * ((restarts + failedTrims) + 1) = TrimEvery * (restarts + failedTrims) + TrimEvery
    BY <2>1, LogAssumption
  <2>3. restarts' + failedTrims' = (restarts + failedTrims) + 1
    BY <1>2, <2>1
  <2>4. Cardinality(rows') <= MaxRecords + TrimEvery * (restarts' + failedTrims') + sinceTrim'
    <3> DEFINE k == TrimEvery * (restarts + failedTrims)
               l == TrimEvery * (restarts' + failedTrims')
    <3>1. l = k + TrimEvery /\ k \in Nat /\ Cardinality(rows) <= MaxRecords + k + sinceTrim
      BY <2>1, <2>2, <2>3
    <3> HIDE DEF k, l
    <3>2. Cardinality(rows') <= MaxRecords + l + sinceTrim'
      BY <1>2, <2>1, <3>1, LogAssumption
    <3> QED BY <3>2 DEF l
  <2> QED BY <1>2, <2>1, <2>4, LogAssumption DEF RowsAccounted, Idle
<1>11. KeepsWritten
  BY <1>1, <1>2, <1>4, <1>6 DEF KeepsWritten, LogTypes
<1>12. ASSUME NEW c \in Request' \ Open' PROVE Accounted(c)'
  <2>1. CASE c \in Open
    BY <1>4, <1>6, <2>1 DEF Accounted, Open
  <2>2. CASE c \notin Open
    <3>1. c \in Request /\ calls'[c] = calls[c] /\ Accounted(c)
      BY <1>1, <1>4, <1>6, <1>12, <2>2, AnsweredByCall
    <3>2. c # 0
      BY <1>3, <3>1
    <3> QED BY <1>1, <1>2, <1>8, <1>11, <3>1, <3>2, AccountedKept DEF Accounted
  <2> QED BY <2>1, <2>2
<1> QED BY <1>8, <1>9, <1>10, <1>12 DEF LogIInv, AnsweredIsLogged, Accounted, Younger, OnTheWay

\* A row leaves the table only when MaxRecords rows that are no older stay in it.
LEMMA TrimmedIsOlder ==
    ASSUME LogTypes, NEW n \in Nat, n = Cardinality(rows),
           NEW old \in Excess(IF n > MaxRecords THEN n - MaxRecords ELSE 0)
    PROVE  /\ Cardinality(rows \ old) <= MaxRecords
           /\ \A c \in old : Cardinality(Younger(c)) >= MaxRecords
<1>1. /\ IsFiniteSet(rows) /\ IsFiniteSet(written) /\ Request = 1 .. Len(calls)
      /\ Len(calls) \in Nat /\ old \subseteq rows
      /\ Cardinality(old) = IF n > MaxRecords THEN n - MaxRecords ELSE 0
      /\ \A x \in old, y \in rows \ old : calls[x].ts <= calls[y].ts
  BY Requests, FiniteRun DEF LogTypes, Excess
<1>2. IsFiniteSet(old) /\ rows \cap old = old
  BY <1>1, FS_Subset
<1>3. Cardinality(rows \ old) = Cardinality(rows) - Cardinality(old)
  BY <1>1, <1>2, FS_Difference
<1>4. Cardinality(rows \ old) = IF n > MaxRecords THEN MaxRecords ELSE n
  BY <1>1, <1>3, LogAssumption
<1>5. ASSUME NEW c \in old PROVE Cardinality(Younger(c)) >= MaxRecords
  <2>1. n > MaxRecords
    <3>1. old # {}
      BY <1>5
    <3> QED BY <1>1, <1>2, <3>1, FS_EmptySet
  <2>2. \A y \in rows \ old : calls[y].ts >= calls[c].ts
    <3> SUFFICES ASSUME NEW y \in rows \ old PROVE calls[y].ts >= calls[c].ts
      OBVIOUS
    <3>1. calls \in Seq(LoggedCall) /\ y \in 1 .. Len(calls) /\ c \in 1 .. Len(calls)
      BY <1>1 DEF LogTypes
    <3>2. calls[y] \in LoggedCall /\ calls[c] \in LoggedCall
      BY <3>1, ElementOfSeq
    <3>3. calls[y].ts \in Nat /\ calls[c].ts \in Nat
      BY <3>2 DEF LoggedCall
    <3> QED BY <1>1, <3>3
  <2>3. rows \ old \subseteq Younger(c) /\ Younger(c) \subseteq Request
    BY <2>2 DEF Younger, LogTypes
  <2> QED BY <1>1, <1>4, <2>1, <2>3, SmallerRun
<1> QED BY <1>4, <1>5, LogAssumption

LEMMA TrimKeeps == ASSUME LogIInv, Trim PROVE LogIInv'
<1> DEFINE n == Cardinality(rows)
           k == TrimEvery * (restarts + failedTrims)
<1>1. LogTypes /\ WriterOK /\ RowsAccounted /\ AnsweredIsLogged
  BY DEF LogIInv
<1>2. /\ writer.at = "trim" /\ writer' = Idle /\ sinceTrim' = 0 /\ writer.rec = 0
      /\ errorsOnly' = errorsOnly /\ calls' = calls /\ channel' = channel
      /\ written' = written /\ missed' = missed /\ restarts' = restarts
  BY <1>1 DEF Trim, WriterOK
<1>3. /\ n \in Nat /\ k \in Nat /\ n <= MaxRecords + k + TrimEvery
      /\ restarts \in Nat /\ failedTrims \in Nat
  <2>1. Cardinality(rows) \in Nat
    BY <1>1, Requests, FiniteRun DEF LogTypes
  <2> QED BY <1>1, <1>2, <2>1, LogAssumption DEF RowsAccounted
<1>4. Request' = Request /\ Open' = Open /\ OnTheWay' = OnTheWay
  BY <1>1, <1>2, CallsKept DEF OnTheWay
<1>5. WriterOK'
  BY <1>2 DEF WriterOK, Idle
<1>6. CASE /\ \E old \in Excess(IF n > MaxRecords THEN n - MaxRecords ELSE 0) : rows' = rows \ old
           /\ failedTrims' = failedTrims
  <2>1. PICK old \in Excess(IF n > MaxRecords THEN n - MaxRecords ELSE 0) : rows' = rows \ old
    BY <1>6
  <2>2. /\ Cardinality(rows \ old) <= MaxRecords
        /\ \A c \in old : Cardinality(Younger(c)) >= MaxRecords
    BY <1>1, <1>3, TrimmedIsOlder
  <2>3. LogTypes'
    BY <1>1, <1>2, <1>4, <2>1 DEF LogTypes
  <2>4. RowsAccounted'
    <3>1. Cardinality(rows') \in Nat
      BY <2>3, <1>1, <1>2, <1>4, Requests, FiniteRun DEF LogTypes
    <3>2. k' = k
      BY <1>2, <1>6
    <3>3. Cardinality(rows') <= MaxRecords + k' + 0
      BY <1>3, <2>1, <2>2, <3>1, <3>2, LogAssumption
    <3> QED BY <1>2, <1>3, <1>6, <3>3, LogAssumption DEF RowsAccounted, Idle
  <2>5. ASSUME NEW c \in Request' \ Open' PROVE Accounted(c)'
    <3>1. Accounted(c) /\ Younger(c)' = Younger(c)
      BY <1>1, <1>2, <1>4, AnsweredByCall DEF Younger
    <3>2. CASE c \in old
      BY <1>2, <2>2, <3>1, <3>2 DEF Accounted
    <3>3. CASE c \notin old /\ c # 0
      BY <1>2, <1>4, <2>1, <3>1, <3>3 DEF Accounted, Idle
    <3>4. c # 0
      BY <1>1, <1>4, Requests
    <3> QED BY <3>2, <3>3, <3>4
  <2> QED BY <1>5, <2>3, <2>4, <2>5 DEF LogIInv, AnsweredIsLogged, Accounted, Younger, OnTheWay
<1>7. CASE failedTrims' = failedTrims + 1 /\ rows' = rows
  <2>1. LogTypes'
    BY <1>1, <1>2, <1>4, <1>7 DEF LogTypes
  <2>2. RowsAccounted'
    <3>1. restarts' + failedTrims' = (restarts + failedTrims) + 1
      BY <1>2, <1>3, <1>7
    <3>2. TrimEvery * ((restarts + failedTrims) + 1) = k + TrimEvery
      BY <1>3, LogAssumption
    <3>3. k' = k + TrimEvery
      BY <3>1, <3>2
    <3>4. Cardinality(rows') <= MaxRecords + k' + 0
      BY <1>3, <1>7, <3>3, LogAssumption
    <3> QED BY <1>2, <1>3, <1>7, <3>4, LogAssumption DEF RowsAccounted, Idle
  <2>3. AnsweredIsLogged'
    <3>1. \A c \in Recorded \cap Request :
             c \in Recorded' \/ (calls[c].stage = "success" /\ errorsOnly)
      BY <1>2, <1>4, <1>7, <1>1, Requests DEF Recorded, Idle
    <3>2. written \subseteq written'
      BY <1>2
    <3> QED BY <1>1, <1>2, <2>1, <3>1, <3>2, MoveKeeps
  <2> QED BY <1>5, <2>1, <2>2, <2>3 DEF LogIInv
<1> QED BY <1>6, <1>7 DEF Trim

LEMMA StutterKeeps == ASSUME LogIInv, UNCHANGED logVars PROVE LogIInv'
<1>1. Request' = Request /\ Open' = Open
  BY DEF Request, Open, logVars
<1>2. LogTypes' /\ WriterOK' /\ RowsAccounted'
  BY <1>1 DEF LogIInv, LogTypes, WriterOK, RowsAccounted, logVars
<1>3. AnsweredIsLogged'
  BY <1>1 DEF LogIInv, AnsweredIsLogged, logVars
<1> QED BY <1>2, <1>3 DEF LogIInv

-----------------------------------------------------------------------------

\* What the request log keeps true, in every run.
THEOREM LogInvariant == LogSpec => []LogIInv
<1>1. ASSUME LogIInv, [LogNext]_logVars PROVE LogIInv'
  <2> USE <1>1
  <2>1. CASE Begin
    BY <2>1, BeginKeeps
  <2>2. ASSUME NEW c \in Open, NEW path \in Path, NEW ending \in Ending, Answer(c, path, ending)
        PROVE  LogIInv'
    BY <2>2, AnswerKeeps
  <2>3. CASE TakeRecord
    BY <2>3, TakeRecordKeeps
  <2>4. CASE Insert
    BY <2>4, InsertKeeps
  <2>5. CASE Trim
    BY <2>5, TrimKeeps
  <2>6. CASE Restart
    BY <2>6, RestartKeeps
  <2>7. CASE UNCHANGED logVars
    BY <2>7, StutterKeeps
  <2> QED BY <2>1, <2>2, <2>3, <2>4, <2>5, <2>6, <2>7 DEF LogNext
<1> QED BY <1>1, InitLog, PTL DEF LogSpec

\* The types of the log's variables (db/recorder.rs, db/writer.rs).
THEOREM LogTypeCorrect == LogSpec => []LogTypeOK
<1>1. LogIInv => LogTypeOK
  <2> SUFFICES ASSUME LogIInv PROVE LogTypeOK
    OBVIOUS
  <2>1. LogTypes /\ WriterOK
    BY DEF LogIInv
  <2>2. \A c \in Request : calls[c] \in LoggedCall
    <3>1. calls \in Seq(LoggedCall) /\ Request = 1 .. Len(calls)
      BY <2>1, Requests DEF LogTypes
    <3> QED BY <3>1, ElementOfSeq
  <2>3. \A c \in Request : calls[c].stage \in {"open", "none", "gone", "error", "success"}
    BY <2>2 DEF LoggedCall, CallStage
  <2> QED BY <2>1, <2>3 DEF LogTypes, WriterOK, LogTypeOK
<1> QED BY <1>1, LogInvariant, PTL

\* The table keeps near its size, however many requests, restarts and failed trims there
\* are (writer.rs:20-21, 92-117).
THEOREM LogStaysBounded == LogSpec => []LogBounded
<1>1. LogIInv => LogBounded
  <2> SUFFICES ASSUME LogIInv PROVE LogBounded
    OBVIOUS
  <2> DEFINE k == TrimEvery * (restarts + failedTrims)
  <2>1. LogTypes /\ RowsAccounted
    BY DEF LogIInv
  <2>2. Cardinality(rows) \in Nat /\ k \in Nat
    <3>1. Cardinality(rows) \in Nat
      BY <2>1, Requests, FiniteRun DEF LogTypes
    <3> QED BY <2>1, <3>1, LogAssumption DEF RowsAccounted
  <2>3. /\ Cardinality(rows) <= MaxRecords + k + sinceTrim
        /\ sinceTrim \in 0 .. TrimEvery /\ (sinceTrim = TrimEvery <=> writer.at = "trim")
    BY <2>1 DEF RowsAccounted
  <2> HIDE DEF k
  <2>4. Cardinality(rows) <= MaxRecords + (TrimEvery - 1) + k
                                + (IF writer.at = "trim" THEN 1 ELSE 0)
    BY <2>2, <2>3, LogAssumption
  <2> QED BY <2>4 DEF k, LogBounded
<1> QED BY <1>1, LogInvariant, PTL

\* An answered request is in the log or on its way to it, but for the exceptions that
\* AnsweredIsLogged names, whatever the limits (handlers.rs:515-517, writer.rs:81-117).
THEOREM AnsweredStaysLogged == LogSpec => []AnsweredIsLogged
<1>1. LogIInv => AnsweredIsLogged
  BY DEF LogIInv
<1> QED BY <1>1, LogInvariant, PTL

-----------------------------------------------------------------------------
(* TokenRefresh. *)

Stands(t, stages) == threads[t].at \in stages

\* The lock has one holder at most.
OneHolder ==
    \A t, u \in Thread :
        Stands(t, {"calling", "answered"}) /\ Stands(u, {"calling", "answered"}) => t = u

\* Work beyond waiting is about an account, and a forced refresh is from the start.
CopyNamed ==
    \A t \in Thread :
        \/ Stands(t, {"calling", "answered", "fetching", "storing"})
        \/ Stands(t, {"waiting"}) /\ threads[t].kind = "force"
        => threads[t].copy.account \in Account

\* A thread at rest has no account in mind.
IdleNamesNone ==
    \A t \in Thread : Stands(t, {"idle"}) => threads[t].copy.account = 0

\* What the service answered is what it accepts now.
AnswerValid ==
    \A t \in Thread :
        Stands(t, {"answered"}) => threads[t].refresh = valid[threads[t].copy.account]

\* The table holds a valid refresh token, or the answer with the valid one is at hand.
EntryValid ==
    Present /\ ~lost =>
        \/ entry.refresh = valid[entry.account]
        \/ \E t \in Thread : /\ Stands(t, {"answered"})
                             /\ threads[t].copy.account = entry.account
                             /\ threads[t].refresh # threads[t].copy.refresh

\* A call that read the credential under the lock bears a valid refresh token.
CallValid ==
    \A t \in Thread :
        Stands(t, {"calling"}) /\ threads[t].kind # "force" /\ ~lost
        => threads[t].copy.refresh = valid[threads[t].copy.account]

\* No copy of the present account that will be written back misses the operator's choice.
CopiesChosen ==
    \A t \in Thread :
        Copying(t) /\ ~overlapped /\ threads[t].copy.account = accounts
        => threads[t].copy.setting = chosen

\* Accounts are met after they were added.
AccountsKnown ==
    /\ entry.account <= accounts
    /\ \A t \in Thread : threads[t].copy.account <= accounts

\* While no deletion crossed a thread, every thread works for the present account.
WorkForLive ==
    ~crossed => \A t \in Thread : threads[t].copy.account \in {0, entry.account}

\* The inductive invariant.
RefreshInv ==
    /\ RefreshTypeOK /\ OneHolder /\ CopyNamed /\ IdleNamesNone /\ AnswerValid /\ EntryValid
    /\ CallValid /\ DemandNotRefused /\ CopiesChosen /\ SettingSurvivesRefresh /\ AccountsKnown
    /\ WorkForLive /\ BalanceOfLive

-----------------------------------------------------------------------------
LEMMA Swap ==
    ASSUME threads \in [Thread -> Work], NEW t \in Thread, NEW w \in Work, To(t, w)
    PROVE  /\ threads' \in [Thread -> Work]
           /\ \A u \in Thread : threads'[u] = IF u = t THEN w ELSE threads[u]
BY DEF To

LEMMA RestingWork == /\ Resting \in Work /\ Resting.at = "idle" /\ Resting.copy.account = 0
                     /\ NoEntry \in Entry
BY RefreshAssumption DEF Resting, NoEntry, Work, Entry, Kind, Stage, Token

LEMMA ServedWork ==
    ASSUME NEW t \in Thread, NEW kind \in Kind, NEW cred \in Entry, Served(t, kind, cred)
    PROVE  \E w \in Work : /\ To(t, w)
                           /\ \/ w.at = "idle" /\ w.copy.account = 0
                              \/ w.at = "fetching" /\ w.copy.account = cred.account
<1> DEFINE named == [NoEntry EXCEPT !.account = cred.account]
           fetching == [Resting EXCEPT !.at = "fetching", !.copy = named]
<1>1. named \in Entry /\ named.account = cred.account
  BY RestingWork DEF Entry, NoEntry
<1>2. fetching \in Work /\ fetching.at = "fetching" /\ fetching.copy = named
  BY <1>1, RestingWork DEF Work, Stage, Resting
<1>3. CASE kind = "balance"
  <2>1. To(t, fetching)
    BY <1>3 DEF Served
  <2> QED BY <1>1, <1>2, <2>1
<1>4. CASE kind # "balance"
  <2>1. To(t, Resting)
    BY <1>4 DEF Served
  <2> QED BY RestingWork, <2>1
<1> QED BY <1>3, <1>4

LEMMA StartKeeps ==
    ASSUME RefreshInv, NEW t \in Thread, NEW kind \in Kind, Start(t, kind)
    PROVE  RefreshInv'
<1>1. /\ RefreshTypeOK /\ entry \in Entry /\ threads \in [Thread -> Work]
      /\ entry.account \in Account /\ threads[t].at = "idle"
  BY DEF RefreshInv, RefreshTypeOK, Start, Present, Entry, Account
<1>2. PICK w \in Work :
        /\ To(t, w)
        /\ \/ w.at = "idle" /\ w.copy.account = 0
           \/ w.at = "fetching" /\ w.copy.account = entry.account
           \/ w.at = "waiting" /\ w.kind = "force" /\ w.copy = entry
           \/ w.at = "waiting" /\ w.kind # "force" /\ w.copy.account = 0
  <2>1. CASE entry.fresh /\ kind # "force"
    <3>1. Served(t, kind, entry)
      BY <2>1 DEF Start
    <3> QED BY <1>1, <3>1, ServedWork
  <2>2. CASE ~(entry.fresh /\ kind # "force")
    <3> DEFINE c == IF kind = "force" THEN entry ELSE NoEntry
               w == [Resting EXCEPT !.kind = kind, !.at = "waiting", !.copy = c]
    <3>1. c \in Entry /\ (kind = "force" => c = entry) /\ (kind # "force" => c.account = 0)
      BY <1>1, RestingWork DEF NoEntry
    <3>2. w \in Work /\ w.kind = kind /\ w.at = "waiting" /\ w.copy = c
      BY <3>1, RestingWork DEF Work, Stage, Resting
    <3>3. To(t, w)
      BY <2>2 DEF Start
    <3> QED BY <3>1, <3>2, <3>3
  <2> QED BY <2>1, <2>2
<1>3. \A u \in Thread : threads'[u] = IF u = t THEN w ELSE threads[u]
  BY <1>1, <1>2, Swap
<1>4. UNCHANGED <<entry, valid, balance, cleaning, accounts, lost, refused, chosen, overlapped,
                  crossed, unclean>>
  BY DEF Start
<1>a. RefreshTypeOK'
  BY <1>1, <1>2, <1>4, Swap DEF RefreshTypeOK
<1>b. OneHolder' /\ CopyNamed' /\ IdleNamesNone' /\ AnswerValid' /\ CallValid'
  BY <1>1, <1>2, <1>3, <1>4
     DEF RefreshInv, OneHolder, CopyNamed, IdleNamesNone, AnswerValid, CallValid, Stands
<1>c. EntryValid' /\ DemandNotRefused'
  BY <1>1, <1>2, <1>3, <1>4 DEF RefreshInv, EntryValid, DemandNotRefused, Present, Stands
<1>d. CopiesChosen' /\ SettingSurvivesRefresh'
  BY <1>1, <1>2, <1>3, <1>4 DEF RefreshInv, CopiesChosen, SettingSurvivesRefresh, Copying
<1>e. AccountsKnown'
  BY <1>1, <1>2, <1>3, <1>4 DEF RefreshInv, AccountsKnown, RefreshTypeOK, Account
<1>f. WorkForLive' /\ BalanceOfLive'
  BY <1>1, <1>2, <1>3, <1>4 DEF RefreshInv, WorkForLive, BalanceOfLive
<1> QED BY <1>a, <1>b, <1>c, <1>d, <1>e, <1>f DEF RefreshInv

LEMMA EnterKeeps ==
    ASSUME RefreshInv, NEW t \in Thread, Enter(t)
    PROVE  RefreshInv'
<1>1. /\ RefreshTypeOK /\ entry \in Entry /\ threads \in [Thread -> Work] /\ accounts \in Account
      /\ threads[t].at = "waiting" /\ threads[t].kind \in Kind
      /\ \A u \in Thread : threads[u].at \notin {"calling", "answered"}
  BY DEF RefreshInv, RefreshTypeOK, Enter, Locked, Work
<1>2. PICK w \in Work :
        /\ To(t, w)
        /\ \/ w.at = "idle" /\ w.copy.account = 0
           \/ w.at = "fetching" /\ Present /\ w.copy.account = entry.account
           \/ /\ w.at = "calling" /\ w.kind = "force"
              /\ threads[t].kind = "force" /\ w.copy = threads[t].copy
           \/ w.at = "calling" /\ w.kind # "force" /\ Present /\ w.copy = entry
  <2> DEFINE called == [threads[t] EXCEPT !.at = "calling"]
             read   == [threads[t] EXCEPT !.at = "calling", !.copy = entry]
  <2>1. /\ called \in Work /\ called.at = "calling" /\ called.kind = threads[t].kind
        /\ called.copy = threads[t].copy
        /\ read \in Work /\ read.at = "calling" /\ read.kind = threads[t].kind
        /\ read.copy = entry
    BY <1>1 DEF Work, Stage
  <2>2. CASE threads[t].kind = "force"
    <3>1. To(t, called)
      BY <2>2 DEF Enter
    <3> QED BY <2>1, <2>2, <3>1
  <2>3. CASE threads[t].kind # "force" /\ ~Present
    <3>1. To(t, Resting)
      BY <2>3 DEF Enter
    <3> QED BY <3>1, RestingWork
  <2>4. CASE threads[t].kind # "force" /\ Present /\ entry.fresh
    <3>1. Served(t, threads[t].kind, entry)
      BY <2>4 DEF Enter
    <3> QED BY <1>1, <2>4, <3>1, ServedWork
  <2>5. CASE threads[t].kind # "force" /\ Present /\ ~entry.fresh
    <3>1. To(t, read)
      BY <2>5 DEF Enter
    <3> QED BY <2>1, <2>5, <3>1
  <2> QED BY <2>2, <2>3, <2>4, <2>5
<1>3. \A u \in Thread : threads'[u] = IF u = t THEN w ELSE threads[u]
  BY <1>1, <1>2, Swap
<1>4. UNCHANGED <<entry, valid, balance, cleaning, accounts, lost, refused, chosen, overlapped,
                  crossed, unclean>>
  BY DEF Enter
<1>5. Present => entry.account \in Account
  BY <1>1 DEF Present, Entry, Account
<1>a. RefreshTypeOK'
  BY <1>1, <1>2, <1>4, Swap DEF RefreshTypeOK
<1>b. OneHolder'
  BY <1>1, <1>2, <1>3 DEF OneHolder, Stands
<1>c. CopyNamed' /\ IdleNamesNone' /\ AnswerValid'
  BY <1>1, <1>2, <1>3, <1>4, <1>5 DEF RefreshInv, CopyNamed, IdleNamesNone, AnswerValid, Stands
<1>d. EntryValid' /\ DemandNotRefused'
  BY <1>1, <1>2, <1>3, <1>4 DEF RefreshInv, EntryValid, DemandNotRefused, Present, Stands
<1>e. CallValid'
  BY <1>1, <1>2, <1>3, <1>4 DEF RefreshInv, EntryValid, CallValid, Present, Stands
<1>f. CopiesChosen' /\ SettingSurvivesRefresh'
  BY <1>1, <1>2, <1>3, <1>4 DEF RefreshInv, CopiesChosen, SettingSurvivesRefresh, Copying
<1>g. AccountsKnown'
  BY <1>1, <1>2, <1>3, <1>4 DEF RefreshInv, AccountsKnown, Account
<1>h. WorkForLive' /\ BalanceOfLive'
  BY <1>1, <1>2, <1>3, <1>4 DEF RefreshInv, WorkForLive, BalanceOfLive
<1> QED BY <1>a, <1>b, <1>c, <1>d, <1>e, <1>f, <1>g, <1>h DEF RefreshInv

LEMMA AcceptKeeps ==
    ASSUME RefreshInv, NEW t \in Thread, Accept(t)
    PROVE  RefreshInv'
<1> DEFINE c == threads[t].copy
<1>1. /\ RefreshTypeOK /\ OneHolder /\ threads \in [Thread -> Work] /\ valid \in [Account -> Token]
      /\ entry \in Entry /\ accounts \in Account /\ threads[t].at = "calling"
      /\ c \in Entry /\ c.account \in Account
      /\ c.refresh = valid[c.account]
  BY DEF RefreshInv, RefreshTypeOK, CopyNamed, Accept, Work, Stands
<1>2. \A u \in Thread : threads[u].at \in {"calling", "answered"} => u = t
  BY <1>1 DEF OneHolder, Stands
<1>3. PICK next \in Token, fresh \in BOOLEAN :
        /\ valid' = [valid EXCEPT ![c.account] = next]
        /\ \/ /\ To(t, [threads[t] EXCEPT !.at = "answered", !.refresh = next, !.fresh = fresh])
              /\ UNCHANGED lost
           \/ /\ To(t, Resting)
              /\ lost' = (lost \/ next # c.refresh)
  BY DEF Accept
<1>4. /\ valid' \in [Account -> Token] /\ valid'[c.account] = next
      /\ \A a \in Account \ {c.account} : valid'[a] = valid[a]
  BY <1>1, <1>3
<1>5. PICK w \in Work :
        /\ To(t, w)
        /\ \/ /\ w.at = "answered" /\ w.copy = c /\ w.refresh = next
              /\ lost' = lost
           \/ /\ w.at = "idle" /\ w.copy.account = 0
              /\ lost' = (lost \/ next # c.refresh)
  <2> DEFINE answered == [threads[t] EXCEPT !.at = "answered", !.refresh = next, !.fresh = fresh]
  <2>1. /\ answered \in Work /\ answered.at = "answered" /\ answered.copy = c
        /\ answered.refresh = next
    BY <1>1, <1>3 DEF Work, Stage
  <2>2. CASE To(t, answered) /\ UNCHANGED lost
    BY <2>1, <2>2
  <2>3. CASE To(t, Resting) /\ lost' = (lost \/ next # c.refresh)
    BY <2>3, RestingWork
  <2> QED BY <1>3, <2>2, <2>3
<1>6. \A u \in Thread : threads'[u] = IF u = t THEN w ELSE threads[u]
  BY <1>1, <1>5, Swap
<1>7. UNCHANGED <<entry, balance, cleaning, accounts, refused, chosen, overlapped, crossed, unclean>>
  BY DEF Accept
<1>8. lost' \in BOOLEAN /\ (lost => lost')
  <2>1. lost \in BOOLEAN
    BY <1>1 DEF RefreshTypeOK
  <2>2. CASE lost' = lost
    BY <2>1, <2>2
  <2>3. CASE lost' = (lost \/ next # c.refresh)
    BY <2>3
  <2> QED BY <1>5, <2>2, <2>3
<1>a. RefreshTypeOK'
  BY <1>1, <1>4, <1>5, <1>7, <1>8, Swap DEF RefreshTypeOK
<1>b. OneHolder' /\ CopyNamed' /\ IdleNamesNone' /\ AnswerValid' /\ CallValid'
  BY <1>1, <1>2, <1>4, <1>5, <1>6
     DEF RefreshInv, OneHolder, CopyNamed, IdleNamesNone, AnswerValid, CallValid, Stands
<1>c. EntryValid'
  <2> SUFFICES ASSUME Present, ~lost', entry.refresh # valid'[entry.account]
               PROVE  /\ threads'[t].at = "answered"
                      /\ threads'[t].copy.account = entry.account
                      /\ threads'[t].refresh # threads'[t].copy.refresh
    BY <1>7 DEF EntryValid, Present, Stands
  <2>1. entry.account \in Account /\ entry.refresh = valid[entry.account]
    BY <1>1, <1>2, <1>8 DEF RefreshInv, EntryValid, Present, Entry, Account, Stands
  <2>2. entry.account = c.account /\ next # c.refresh
    BY <1>1, <1>4, <2>1
  <2> QED BY <1>5, <1>6, <2>2
<1>d. DemandNotRefused'
  BY <1>7, <1>8 DEF RefreshInv, DemandNotRefused
<1>e. CopiesChosen' /\ SettingSurvivesRefresh'
  BY <1>1, <1>5, <1>6, <1>7 DEF RefreshInv, CopiesChosen, SettingSurvivesRefresh, Copying
<1>f. AccountsKnown'
  BY <1>1, <1>5, <1>6, <1>7 DEF RefreshInv, AccountsKnown, Account
<1>g. WorkForLive' /\ BalanceOfLive'
  BY <1>5, <1>6, <1>7 DEF RefreshInv, WorkForLive, BalanceOfLive
<1> QED BY <1>a, <1>b, <1>c, <1>d, <1>e, <1>f, <1>g DEF RefreshInv

LEMMA WriteBackKeeps ==
    ASSUME RefreshInv, NEW t \in Thread, WriteBack(t)
    PROVE  RefreshInv'
<1> DEFINE old == threads[t]
           new == [old.copy EXCEPT !.refresh = old.refresh, !.fresh = old.fresh]
           dropped == old.kind = "demand" /\ ~old.fresh
<1>1. /\ RefreshTypeOK /\ OneHolder /\ threads \in [Thread -> Work] /\ entry \in Entry
      /\ accounts \in Account /\ old \in Work /\ old.at = "answered"
      /\ old.copy \in Entry /\ old.copy.account \in Account /\ lost \in BOOLEAN
      /\ old.refresh = valid[old.copy.account]
  BY DEF RefreshInv, RefreshTypeOK, CopyNamed, AnswerValid, WriteBack, Work, Stands
<1>2. \A u \in Thread : threads[u].at \in {"calling", "answered"} => u = t
  BY <1>1 DEF OneHolder, Stands
<1>3. /\ new \in Entry /\ new.account = old.copy.account /\ new.refresh = old.refresh
      /\ new.setting = old.copy.setting
  BY <1>1 DEF Entry, Work
<1>4. PICK w \in Work :
        /\ To(t, w)
        /\ \/ w.at = "idle" /\ w.copy.account = 0
           \/ w.at = "fetching" /\ w.copy.account = new.account
  <2>1. old.kind \in Kind /\ Served(t, old.kind, new)
    BY <1>1 DEF WriteBack, Work
  <2> QED BY <1>3, <2>1, ServedWork
<1>5. \A u \in Thread : threads'[u] = IF u = t THEN w ELSE threads[u]
  BY <1>1, <1>4, Swap
<1>6. UNCHANGED <<valid, balance, cleaning, accounts, refused, chosen, overlapped, crossed, unclean>>
  BY DEF WriteBack
<1>7. /\ dropped => entry' = entry /\ lost' = (lost \/ old.refresh # old.copy.refresh)
      /\ ~dropped => entry' = (IF Present THEN new ELSE entry) /\ lost' = lost
  BY DEF WriteBack
<1>8. entry' \in Entry /\ lost' \in BOOLEAN /\ (lost => lost')
  <2>1. CASE dropped
    <3>1. entry' = entry /\ lost' = (lost \/ old.refresh # old.copy.refresh)
      BY <1>7, <2>1
    <3>2. lost' \in BOOLEAN /\ (lost => lost')
      BY <3>1
    <3> QED BY <1>1, <3>1, <3>2
  <2>2. CASE ~dropped
    BY <1>1, <1>3, <1>7, <2>2
  <2> QED BY <2>1, <2>2
<1>9. \/ entry' = entry
      \/ entry' = new /\ Present
  BY <1>7
<1>10. Present => entry.account \in Account
  BY <1>1 DEF Present, Entry, Account
<1>a. RefreshTypeOK'
  BY <1>1, <1>4, <1>6, <1>8, Swap DEF RefreshTypeOK
<1>b. OneHolder' /\ CopyNamed' /\ IdleNamesNone' /\ AnswerValid' /\ CallValid'
  BY <1>1, <1>2, <1>3, <1>4, <1>5, <1>6
     DEF RefreshInv, OneHolder, CopyNamed, IdleNamesNone, AnswerValid, CallValid, Stands
<1>c. EntryValid'
  <2> SUFFICES ASSUME Present', ~lost'
               PROVE  entry'.refresh = valid[entry'.account]
    BY <1>6 DEF EntryValid
  <2>1. CASE ~dropped /\ Present
    BY <1>1, <1>3, <1>7, <2>1
  <2>2. CASE dropped
    <3>1. old.refresh = old.copy.refresh /\ entry' = entry
      BY <1>7, <2>2
    <3> QED BY <1>2, <1>8, <3>1 DEF RefreshInv, EntryValid, Present, Stands
  <2>3. CASE ~Present
    BY <1>9, <2>3 DEF Present
  <2> QED BY <2>1, <2>2, <2>3
<1>d. DemandNotRefused'
  BY <1>6, <1>8 DEF RefreshInv, DemandNotRefused
<1>e. CopiesChosen'
  BY <1>4, <1>5, <1>6 DEF RefreshInv, CopiesChosen, Copying
<1>f. SettingSurvivesRefresh'
  BY <1>1, <1>3, <1>6, <1>9 DEF RefreshInv, CopiesChosen, SettingSurvivesRefresh, Copying
<1>g. AccountsKnown'
  <2>1. entry'.account \in {entry.account, old.copy.account}
    BY <1>3, <1>9
  <2>2. w.copy.account \in {0, old.copy.account}
    BY <1>3, <1>4
  <2>3. old.copy.account <= accounts /\ 0 <= accounts
    BY <1>1 DEF RefreshInv, AccountsKnown, Account
  <2> QED BY <1>5, <1>6, <2>1, <2>2, <2>3 DEF RefreshInv, AccountsKnown
<1>h. WorkForLive' /\ BalanceOfLive'
  <2>1. ~crossed => old.copy.account = entry.account
    BY <1>1 DEF RefreshInv, WorkForLive, Account
  <2>2. ~crossed => entry'.account = entry.account
    BY <1>3, <1>9, <2>1
  <2>3. ~crossed => w.copy.account \in {0, entry.account}
    BY <1>3, <1>4, <2>1
  <2>4. WorkForLive'
    BY <1>5, <1>6, <2>2, <2>3 DEF RefreshInv, WorkForLive
  <2>5. BalanceOfLive'
    BY <1>6, <2>2 DEF RefreshInv, BalanceOfLive
  <2> QED BY <2>4, <2>5
<1> QED BY <1>a, <1>b, <1>c, <1>d, <1>e, <1>f, <1>g, <1>h DEF RefreshInv

\* A thread that gives up, or goes on from a fetched balance, touches nothing but itself and
\* perhaps the cached balance.
LEMMA LeaveKeeps ==
    ASSUME RefreshInv, NEW t \in Thread, NEW w \in Work, To(t, w),
           \/ w.at = "idle" /\ w.copy.account = 0
           \/ w.at = "storing" /\ Stands(t, {"fetching"}) /\ w.copy = threads[t].copy,
           \/ balance' = balance
           \/ balance' = threads[t].copy.account /\ Stands(t, {"storing"}),
           \/ refused' = refused
           \/ refused' = (refused \/ threads[t].kind # "force") /\ Stands(t, {"calling"})
                /\ threads[t].copy.refresh # valid[threads[t].copy.account],
           \A u \in Thread : Stands(u, {"answered"}) => u # t,
           UNCHANGED <<entry, valid, cleaning, accounts, lost, chosen, overlapped, crossed, unclean>>
    PROVE  RefreshInv'
<1>1. /\ RefreshTypeOK /\ threads \in [Thread -> Work] /\ entry \in Entry /\ accounts \in Account
      /\ Stands(t, {"storing"}) => threads[t].copy.account \in Account
  BY DEF RefreshInv, RefreshTypeOK, CopyNamed, Stands
<1>2. \A u \in Thread : threads'[u] = IF u = t THEN w ELSE threads[u]
  BY <1>1, Swap
<1>3. refused' \in BOOLEAN /\ balance' \in 0 .. MaxAccounts
  <2>1. refused \in BOOLEAN /\ balance \in 0 .. MaxAccounts
    BY <1>1 DEF RefreshTypeOK
  <2>2. refused' \in BOOLEAN
    <3>1. CASE refused' = refused
      BY <2>1, <3>1
    <3>2. CASE refused' = (refused \/ threads[t].kind # "force")
      BY <3>2
    <3> QED BY <3>1, <3>2
  <2>3. balance' \in 0 .. MaxAccounts
    BY <1>1, <2>1, RefreshAssumption DEF Account
  <2> QED BY <2>2, <2>3
<1>a. RefreshTypeOK'
  BY <1>1, <1>3, Swap DEF RefreshTypeOK
<1>b. OneHolder' /\ CopyNamed' /\ IdleNamesNone' /\ AnswerValid' /\ CallValid'
  BY <1>2
     DEF RefreshInv, OneHolder, CopyNamed, IdleNamesNone, AnswerValid, CallValid, Stands
<1>c. EntryValid'
  BY <1>2 DEF RefreshInv, EntryValid, Present, Stands
<1>d. DemandNotRefused'
  BY DEF RefreshInv, DemandNotRefused, CallValid
<1>e. CopiesChosen' /\ SettingSurvivesRefresh'
  BY <1>2 DEF RefreshInv, CopiesChosen, SettingSurvivesRefresh, Copying
<1>f. AccountsKnown'
  BY <1>1, <1>2 DEF RefreshInv, AccountsKnown, Account
<1>g. WorkForLive' /\ BalanceOfLive'
  BY <1>1, <1>2 DEF RefreshInv, WorkForLive, BalanceOfLive, Account
<1> QED BY <1>a, <1>b, <1>c, <1>d, <1>e, <1>f, <1>g DEF RefreshInv

LEMMA ThreadKeeps ==
    ASSUME RefreshInv, NEW t \in Thread,
           Refuse(t) \/ CallFails(t) \/ Fetched(t) \/ StoreBalance(t)
    PROVE  RefreshInv'
<1>1. threads[t] \in Work
  BY DEF RefreshInv, RefreshTypeOK
<1>2. CASE Refuse(t)
  BY <1>2, RestingWork, LeaveKeeps DEF Refuse, Stands
<1>3. CASE CallFails(t)
  BY <1>3, RestingWork, LeaveKeeps DEF CallFails, Stands
<1>4. CASE Fetched(t)
  <2> DEFINE storing == [threads[t] EXCEPT !.at = "storing"]
  <2>1. storing \in Work /\ storing.at = "storing" /\ storing.copy = threads[t].copy
    BY <1>1 DEF Work, Stage
  <2>2. CASE To(t, storing)
    BY <1>4, <2>1, <2>2, LeaveKeeps DEF Fetched, Stands
  <2>3. CASE To(t, Resting)
    BY <1>4, <2>3, RestingWork, LeaveKeeps DEF Fetched, Stands
  <2> QED BY <1>4, <2>2, <2>3 DEF Fetched
<1>5. CASE StoreBalance(t)
  BY <1>5, RestingWork, LeaveKeeps DEF StoreBalance, Stands
<1> QED BY <1>2, <1>3, <1>4, <1>5

\* Time and the operator.
LEMMA OperatorKeeps ==
    ASSUME RefreshInv,
           Expire \/ BalanceExpires \/ SetSetting \/ DeleteEntry \/ DeletionFails \/ CleanBalance
             \/ AddAccount
    PROVE  RefreshInv'
<1>1. /\ RefreshTypeOK /\ entry \in Entry /\ threads \in [Thread -> Work] /\ accounts \in Account
      /\ valid \in [Account -> Token]
      /\ threads' = threads /\ valid' = valid /\ lost' = lost /\ refused' = refused
  BY DEF RefreshInv, RefreshTypeOK, Expire, BalanceExpires, SetSetting, DeleteEntry,
         DeletionFails, CleanBalance, AddAccount
<1>2. OneHolder' /\ CopyNamed' /\ IdleNamesNone' /\ AnswerValid' /\ CallValid' /\ DemandNotRefused'
  BY <1>1
     DEF RefreshInv, OneHolder, CopyNamed, IdleNamesNone, AnswerValid, CallValid,
         DemandNotRefused, Stands
<1>3. CASE Expire
  <2>1. /\ entry' \in Entry /\ entry'.account = entry.account /\ entry'.refresh = entry.refresh
        /\ entry'.setting = entry.setting
    BY <1>1, <1>3 DEF Expire, Entry
  <2>2. UNCHANGED <<balance, cleaning, accounts, chosen, overlapped, crossed, unclean>>
    BY <1>3 DEF Expire
  <2>a. RefreshTypeOK'
    BY <1>1, <2>1, <2>2 DEF RefreshTypeOK
  <2>b. EntryValid' /\ AccountsKnown' /\ WorkForLive' /\ BalanceOfLive'
    BY <1>1, <2>1, <2>2 DEF RefreshInv, EntryValid, AccountsKnown, WorkForLive, BalanceOfLive,
                            Present, Stands
  <2>c. CopiesChosen' /\ SettingSurvivesRefresh'
    BY <1>1, <2>1, <2>2 DEF RefreshInv, CopiesChosen, SettingSurvivesRefresh, Copying
  <2> QED BY <1>2, <2>a, <2>b, <2>c DEF RefreshInv
<1>4. CASE BalanceExpires \/ CleanBalance
  <2>1. /\ balance' = 0 /\ UNCHANGED <<entry, accounts, chosen, overlapped, crossed, unclean>>
        /\ cleaning' \in 0 .. MaxAccounts
    BY <1>1, <1>4, RefreshAssumption DEF BalanceExpires, CleanBalance, RefreshTypeOK
  <2>a. RefreshTypeOK'
    BY <1>1, <2>1, RefreshAssumption DEF RefreshTypeOK
  <2>b. EntryValid' /\ AccountsKnown' /\ WorkForLive' /\ BalanceOfLive'
    BY <1>1, <2>1 DEF RefreshInv, EntryValid, AccountsKnown, WorkForLive, BalanceOfLive, Present, Stands
  <2>c. CopiesChosen' /\ SettingSurvivesRefresh'
    BY <1>1, <2>1 DEF RefreshInv, CopiesChosen, SettingSurvivesRefresh, Copying
  <2> QED BY <1>2, <2>a, <2>b, <2>c DEF RefreshInv
<1>5. CASE SetSetting
  <2>1. /\ entry' \in Entry /\ entry'.account = entry.account /\ entry'.refresh = entry.refresh
        /\ chosen' = entry'.setting /\ chosen' \in {0, 1}
    BY <1>1, <1>5 DEF SetSetting, Entry
  <2>2. /\ UNCHANGED <<balance, cleaning, accounts, crossed, unclean>>
        /\ overlapped' = (\E t \in Thread : Copying(t))
    BY <1>5 DEF SetSetting
  <2>a. RefreshTypeOK'
    BY <1>1, <2>1, <2>2 DEF RefreshTypeOK
  <2>b. EntryValid' /\ AccountsKnown' /\ WorkForLive' /\ BalanceOfLive'
    BY <1>1, <2>1, <2>2 DEF RefreshInv, EntryValid, AccountsKnown, WorkForLive, BalanceOfLive,
                            Present, Stands
  <2>c. CopiesChosen' /\ SettingSurvivesRefresh'
    BY <1>1, <2>1, <2>2 DEF CopiesChosen, SettingSurvivesRefresh, Copying
  <2> QED BY <1>2, <2>a, <2>b, <2>c DEF RefreshInv
<1>6. CASE DeleteEntry
  <2>1. /\ entry' = NoEntry /\ entry'.account = 0 /\ entry' \in Entry /\ cleaning' = entry.account /\ cleaning = 0
        /\ crossed' = (crossed \/ \E t \in Thread : threads[t].at # "idle")
        /\ UNCHANGED <<balance, accounts, chosen, overlapped, unclean>>
    BY <1>6, RestingWork DEF DeleteEntry, NoEntry
  <2>a. RefreshTypeOK'
    BY <1>1, <2>1 DEF RefreshTypeOK, Entry
  <2>b. EntryValid' /\ AccountsKnown'
    BY <1>1, <2>1 DEF RefreshInv, EntryValid, AccountsKnown, Present, Account
  <2>c. WorkForLive' /\ BalanceOfLive'
    BY <1>1, <2>1 DEF RefreshInv, IdleNamesNone, WorkForLive, BalanceOfLive, Stands
  <2>d. CopiesChosen' /\ SettingSurvivesRefresh'
    BY <1>1, <2>1 DEF RefreshInv, CopiesChosen, SettingSurvivesRefresh, Copying, Account
  <2> QED BY <1>2, <2>a, <2>b, <2>c, <2>d DEF RefreshInv
<1>7. CASE AddAccount
  <2>1. /\ ~Present /\ accounts' = accounts + 1 /\ accounts' \in Account
        /\ entry'.account = accounts' /\ entry'.refresh = valid[accounts'] /\ entry'.setting = 0
        /\ entry' \in Entry /\ chosen' = 0 /\ overlapped' = FALSE
        /\ UNCHANGED <<balance, cleaning, crossed, unclean>>
    BY <1>1, <1>7, RefreshAssumption DEF AddAccount, Account, Entry
  <2>2. \A t \in Thread : threads[t].copy.account <= accounts /\ threads[t].copy.account \in Nat
    BY <1>1, RefreshAssumption DEF RefreshInv, AccountsKnown, Work, Entry
  <2>a. RefreshTypeOK'
    BY <1>1, <2>1 DEF RefreshTypeOK
  <2>b. EntryValid' /\ AccountsKnown'
    BY <1>1, <2>1, <2>2 DEF RefreshInv, EntryValid, AccountsKnown, Account
  <2>c. WorkForLive' /\ BalanceOfLive'
    BY <1>1, <2>1 DEF RefreshInv, WorkForLive, BalanceOfLive, Present
  <2>d. CopiesChosen' /\ SettingSurvivesRefresh'
    BY <1>1, <2>1, <2>2 DEF CopiesChosen, SettingSurvivesRefresh, Account
  <2> QED BY <1>2, <2>a, <2>b, <2>c, <2>d DEF RefreshInv
<1>8. CASE DeletionFails
  <2>1. /\ UNCHANGED <<entry, balance, accounts, chosen, overlapped, crossed>>
        /\ cleaning \in Account /\ cleaning' = 0 /\ unclean' = unclean \cup {cleaning}
    BY <1>1, <1>8, RefreshAssumption DEF DeletionFails, RefreshTypeOK, Account
  <2>a. RefreshTypeOK'
    BY <1>1, <2>1, RefreshAssumption DEF RefreshTypeOK
  <2>b. EntryValid' /\ AccountsKnown' /\ WorkForLive' /\ BalanceOfLive'
    BY <1>1, <2>1 DEF RefreshInv, EntryValid, AccountsKnown, WorkForLive, BalanceOfLive, Present, Stands
  <2>c. CopiesChosen' /\ SettingSurvivesRefresh'
    BY <1>1, <2>1 DEF RefreshInv, CopiesChosen, SettingSurvivesRefresh, Copying
  <2> QED BY <1>2, <2>a, <2>b, <2>c DEF RefreshInv
<1> QED BY <1>3, <1>4, <1>5, <1>6, <1>7, <1>8

LEMMA RefreshInitInv == ASSUME RefreshInit PROVE RefreshInv
<1>1. /\ valid \in [Account -> Token] /\ 0 \in Token /\ accounts = 1 /\ accounts \in Account
      /\ \A a \in Account : valid[a] = 0
  BY RefreshAssumption DEF RefreshInit, Account, Token
<1>2. entry \in Entry /\ entry.account = 1 /\ entry.refresh = 0 /\ entry.setting = 0
  BY <1>1, RefreshAssumption DEF RefreshInit, Entry, Token
<1>3. /\ threads \in [Thread -> Work]
      /\ \A t \in Thread : threads[t].at = "idle" /\ threads[t].copy.account = 0
  BY RestingWork DEF RefreshInit
<1>4. RefreshTypeOK
  <2>1. {lost, refused, overlapped, crossed} \subseteq BOOLEAN
    BY Zenon DEF RefreshInit
  <2>2. {balance, cleaning} \subseteq 0 .. MaxAccounts /\ chosen \in {0, 1} /\ unclean \subseteq Account
    BY RefreshAssumption DEF RefreshInit
  <2> QED BY <1>1, <1>2, <1>3, <2>1, <2>2 DEF RefreshTypeOK
<1>5. OneHolder /\ CopyNamed /\ IdleNamesNone /\ AnswerValid /\ CallValid /\ DemandNotRefused
  BY <1>3 DEF RefreshInit, OneHolder, CopyNamed, IdleNamesNone, AnswerValid, CallValid,
              DemandNotRefused, Stands
<1>6. EntryValid /\ AccountsKnown /\ WorkForLive /\ BalanceOfLive
  BY <1>1, <1>2, <1>3 DEF RefreshInit, EntryValid, AccountsKnown, WorkForLive, BalanceOfLive
<1>7. CopiesChosen /\ SettingSurvivesRefresh
  BY <1>2, <1>3 DEF RefreshInit, CopiesChosen, SettingSurvivesRefresh, Copying
<1> QED BY <1>4, <1>5, <1>6, <1>7 DEF RefreshInv

LEMMA RefreshStepInv == ASSUME RefreshInv, [RefreshNext]_refreshVars PROVE RefreshInv'
<1>1. ASSUME NEW t \in Thread, NEW kind \in Kind, Start(t, kind)
      PROVE  RefreshInv'
  BY <1>1, StartKeeps
<1>2. ASSUME NEW t \in Thread,
             \/ Enter(t) \/ Accept(t) \/ WriteBack(t)
             \/ Refuse(t) \/ CallFails(t) \/ Fetched(t) \/ StoreBalance(t)
      PROVE  RefreshInv'
  BY <1>2, EnterKeeps, AcceptKeeps, WriteBackKeeps, ThreadKeeps
<1>3. CASE Expire \/ BalanceExpires \/ SetSetting \/ DeleteEntry \/ DeletionFails \/ CleanBalance
             \/ AddAccount
  BY <1>3, OperatorKeeps
<1>4. CASE UNCHANGED refreshVars
  <2> USE <1>4 DEF refreshVars
  <2>1. RefreshTypeOK' /\ DemandNotRefused'
    BY DEF RefreshInv, RefreshTypeOK, DemandNotRefused
  <2>2. OneHolder' /\ CopyNamed' /\ IdleNamesNone' /\ AnswerValid' /\ CallValid'
    BY DEF RefreshInv, OneHolder, CopyNamed, IdleNamesNone, AnswerValid, CallValid, Stands
  <2>3. EntryValid'
    BY DEF RefreshInv, EntryValid, Present, Stands
  <2>4. CopiesChosen' /\ SettingSurvivesRefresh'
    BY DEF RefreshInv, CopiesChosen, SettingSurvivesRefresh, Copying
  <2>5. AccountsKnown' /\ WorkForLive' /\ BalanceOfLive'
    BY DEF RefreshInv, AccountsKnown, WorkForLive, BalanceOfLive
  <2> QED BY <2>1, <2>2, <2>3, <2>4, <2>5 DEF RefreshInv
<1> QED BY <1>1, <1>2, <1>3, <1>4 DEF RefreshNext

\* The invariant that carries the others: what lock holders, copies and the table rely on.
THEOREM RefreshInvariant == RefreshSpec => []RefreshInv
BY RefreshInitInv, RefreshStepInv, PTL DEF RefreshSpec

\* Type correctness of the refresh (kiro/token_manager.rs, try_ensure_token and its kin).
THEOREM RefreshTypeCorrect == RefreshSpec => []RefreshTypeOK
<1>1. RefreshInv => RefreshTypeOK
  BY DEF RefreshInv
<1> QED BY <1>1, RefreshInvariant, PTL

\* For any number of threads, the lock and the second look under it (token_manager.rs:1243-1254)
\* suffice: no refresh on demand bears a token that another has spent.
THEOREM DemandsAccepted == RefreshSpec => []DemandNotRefused
<1>1. RefreshInv => DemandNotRefused
  BY DEF RefreshInv
<1> QED BY <1>1, RefreshInvariant, PTL

\* What the operator sets is overwritten only by a refresh that had copied it before.
THEOREM SettingsSurvive == RefreshSpec => []SettingSurvivesRefresh
<1>1. RefreshInv => SettingSurvivesRefresh
  BY DEF RefreshInv
<1> QED BY <1>1, RefreshInvariant, PTL

\* A cached balance belongs to the credential that bears the id, to one being deleted or to
\* one whose deletion failed to write the file, unless a deletion crossed a thread at work.
THEOREM BalancesLive == RefreshSpec => []BalanceOfLive
<1>1. RefreshInv => BalanceOfLive
  BY DEF RefreshInv
<1> QED BY <1>1, RefreshInvariant, PTL

-----------------------------------------------------------------------------
(* AccessKeys and LiveConfig. *)

RowType     == [state : {"none", "on", "off"}, group : Group \cup {0}]
HandlerType == [at : {"free", "read", "write"} \cup KeyOp, key : Key, read : SUBSET Key,
                alone : BOOLEAN]
VisitType   == [at : {"none", "matched", "found", "done"}, key : Key, group : Group \cup {0},
                allowed : SUBSET Credential, limited : BOOLEAN, failed : BOOLEAN,
                bindings : SUBSET (Group \cup {0}), moved : BOOLEAN]

TableTypes ==
    /\ keyRows \in [Key -> RowType]
    /\ groups \subseteq Group
    /\ member \in [Credential -> groups \cup {0}]

WorkTypes ==
    /\ accepted \subseteq Key
    /\ handlers \in [Handler -> HandlerType]
    /\ {stale, raced, besideOff} \subseteq BOOLEAN

\* An operation without company has none at all.
AloneIsAlone ==
    \A h, g \in Handler : Working(h) /\ handlers[h].alone /\ Working(g) => g = h

\* Whoever is about to read the keys back, or to write them, knows that memory is stale.
ReadersKnow == \A h \in Handler : handlers[h].at \in {"read", "write"} => stale

\* What was read without company is what the table has.
ReadIsCurrent ==
    \A h \in Handler : handlers[h].at = "write" /\ handlers[h].alone => handlers[h].read = Enabled

\* A check made without company still holds.
CheckHolds ==
    \A h \in Handler :
        /\ handlers[h].alone
        /\ handlers[h].at \in {"delete", "disable"}
        => Checked(handlers[h].at, handlers[h].key)

\* Memory that is not stale has the enabled keys.
MemoryCurrent ==
    ~stale => accepted = Enabled \/ (Enabled = {} /\ accepted = {ConfigKey})

\* The half of the invariant that is about operations.
KeysInv ==
    /\ WorkTypes /\ AloneIsAlone /\ ReadersKnow /\ ReadIsCurrent /\ CheckHolds
    /\ MemoryCurrent /\ NoLockout

\* A request that is looking has seen the present binding of its key.
BindingSeen ==
    visit.at \in {"matched", "found"} =>
        /\ Binding(keyRows, visit.key) \in visit.bindings
        /\ ~visit.limited /\ ~visit.failed /\ ~visit.moved
        /\ visit.at = "found" => visit.group \in visit.bindings

\* The half that is about requests.
VisitInv == visit \in VisitType /\ BindingSeen /\ StaysInGroup

\* The inductive invariant.
AccessInv == TableTypes /\ KeysInv /\ VisitInv

-----------------------------------------------------------------------------
(* Requests. *)

LEMMA BindingType ==
    ASSUME NEW table \in [Key -> RowType], NEW k \in Key
    PROVE  Binding(table, k) \in Group \cup {0}
BY DEF Binding, RowType

\* What a change of the tables does to a request.
LEMMA SeenKeeps ==
    ASSUME VisitInv, TableTypes, TableTypes', Seen(keyRows', member')
    PROVE  VisitInv'
<1> DEFINE more == IF visit.at \in {"matched", "found"} THEN {Binding(keyRows', visit.key)} ELSE {}
           gone == visit.limited /\ member' # member
<1>1. visit \in VisitType /\ visit.key \in Key
  BY DEF VisitInv, VisitType
<1>2. Binding(keyRows', visit.key) \in Group \cup {0}
  BY <1>1, BindingType DEF TableTypes
<1>3. more \subseteq Group \cup {0} /\ gone \in BOOLEAN
  BY <1>2
<1>4. visit' = [visit EXCEPT !.bindings = @ \cup more, !.moved = @ \/ gone]
  BY DEF Seen
<1> HIDE DEF more, gone
<1>5. /\ visit' \in VisitType
      /\ visit'.bindings = visit.bindings \cup more
      /\ visit'.moved = (visit.moved \/ gone)
      /\ visit'.at = visit.at /\ visit'.key = visit.key /\ visit'.group = visit.group
      /\ visit'.allowed = visit.allowed /\ visit'.limited = visit.limited
      /\ visit'.failed = visit.failed
  BY <1>1, <1>3, <1>4 DEF VisitType
<1>6. BindingSeen'
  <2> SUFFICES ASSUME visit'.at \in {"matched", "found"}
               PROVE  /\ Binding(keyRows', visit.key) \in visit'.bindings
                      /\ ~visit'.limited /\ ~visit'.failed /\ ~visit'.moved
                      /\ visit'.at = "found" => visit'.group \in visit'.bindings
    BY <1>5 DEF BindingSeen, Binding
  <2>1. ~visit.limited /\ ~visit.failed /\ ~visit.moved
        /\ (visit.at = "found" => visit.group \in visit.bindings)
    BY <1>5 DEF VisitInv, BindingSeen
  <2>2. more = {Binding(keyRows', visit.key)} /\ ~gone
    BY <1>5, <2>1 DEF more, gone
  <2> QED BY <1>5, <2>1, <2>2
<1>7. StaysInGroup'
  <2>1. CASE visit'.at # "done"
    BY <2>1 DEF StaysInGroup
  <2>2. CASE visit'.at = "done" /\ ~visit.limited
    <3>1. visit.failed \/ 0 \in visit.bindings
      BY <1>5, <2>2 DEF VisitInv, StaysInGroup
    <3> QED BY <1>5, <2>2, <3>1 DEF StaysInGroup
  <2>3. CASE visit'.at = "done" /\ visit.limited
    <3>1. visit.group \in visit.bindings /\ (~visit.moved => visit.allowed = Members(visit.group))
      BY <1>5, <2>3 DEF VisitInv, StaysInGroup
    <3>2. CASE gone
      <4>1. visit'.moved
        BY <1>5, <3>2
      <4> QED BY <1>5, <2>3, <3>1, <4>1 DEF StaysInGroup
    <3>3. CASE ~gone
      <4>1. member' = member
        BY <2>3, <3>3 DEF gone
      <4>2. visit'.moved = visit.moved
        BY <1>1, <1>5, <3>3 DEF VisitType
      <4> QED BY <1>5, <2>3, <3>1, <4>1, <4>2 DEF StaysInGroup, Members
    <3> QED BY <3>2, <3>3
  <2> QED BY <1>1, <1>5, <2>1, <2>2, <2>3 DEF VisitType
<1> QED BY <1>5, <1>6, <1>7 DEF VisitInv

LEMMA UnseenKeeps ==
    ASSUME VisitInv, UNCHANGED <<keyRows, member, visit>>
    PROVE  VisitInv'
BY DEF VisitInv, BindingSeen, StaysInGroup, Members, Binding

\* A new visit, or none.
LEMMA NoVisitSound ==
    ASSUME visit' = NoVisit
    PROVE  VisitInv'
BY KeysAssumption DEF VisitInv, VisitType, NoVisit, BindingSeen, StaysInGroup

LEMMA AuthenticateKeeps ==
    ASSUME AccessInv, Authenticate
    PROVE  AccessInv'
<1>1. PICK k \in accepted :
        visit' = [NoVisit EXCEPT !.at = "matched", !.key = k, !.bindings = {Binding(keyRows, k)}]
  BY DEF Authenticate
<1>2. k \in Key /\ Binding(keyRows, k) \in Group \cup {0}
  BY BindingType DEF AccessInv, KeysInv, WorkTypes, TableTypes
<1>3. UNCHANGED <<keyRows, groups, member, accepted, handlers, stale, raced, besideOff>>
  BY DEF Authenticate
<1>4. VisitInv'
  BY <1>1, <1>2, <1>3 DEF VisitInv, VisitType, NoVisit, BindingSeen, StaysInGroup, Binding
<1> QED
  BY <1>3, <1>4
     DEF AccessInv, TableTypes, KeysInv, WorkTypes, AloneIsAlone, ReadersKnow, ReadIsCurrent,
         CheckHolds, MemoryCurrent, NoLockout, Working, Enabled, Rows, Checked

LEMMA LookKeeps ==
    ASSUME AccessInv, FindGroup \/ FindMembers \/ LookupFails
    PROVE  AccessInv'
<1>1. UNCHANGED <<keyRows, groups, member, accepted, handlers, stale, raced, besideOff>>
  BY DEF FindGroup, FindMembers, LookupFails
<1>2. /\ visit \in VisitType /\ BindingSeen /\ keyRows \in [Key -> RowType]
      /\ member \in [Credential -> groups \cup {0}]
  BY DEF AccessInv, VisitInv, TableTypes
<1>3. visit.at \in {"matched", "found"} /\ visit.key \in Key
  BY <1>2 DEF FindGroup, FindMembers, LookupFails, VisitType
<1>4. /\ Binding(keyRows, visit.key) \in visit.bindings
      /\ ~visit.limited /\ ~visit.failed /\ ~visit.moved
      /\ visit.at = "found" => visit.group \in visit.bindings
  BY <1>2, <1>3 DEF BindingSeen
<1>5. Unlimited \in VisitType /\ Unlimited.at = "done" /\ Unlimited.limited = visit.limited
      /\ Unlimited.bindings = visit.bindings
  BY <1>2 DEF Unlimited, VisitType
<1>6. VisitInv'
  <2>1. CASE FindGroup /\ Binding(keyRows, visit.key) = 0
    <3>1. visit' = Unlimited /\ 0 \in visit.bindings
      BY <1>4, <2>1 DEF FindGroup
    <3> QED BY <1>4, <1>5, <3>1 DEF VisitInv, BindingSeen, StaysInGroup
  <2>2. CASE FindGroup /\ Binding(keyRows, visit.key) # 0
    <3>1. visit' = [visit EXCEPT !.at = "found", !.group = Binding(keyRows, visit.key)]
      BY <2>2 DEF FindGroup
    <3>2. Binding(keyRows, visit.key) \in Group \cup {0}
      BY <1>2, <1>3, BindingType
    <3>3. /\ visit' \in VisitType /\ visit'.at = "found"
          /\ visit'.group = Binding(keyRows, visit.key) /\ visit'.key = visit.key
          /\ visit'.bindings = visit.bindings /\ visit'.limited = visit.limited
          /\ visit'.failed = visit.failed /\ visit'.moved = visit.moved
      BY <1>2, <3>1, <3>2 DEF VisitType
    <3> QED BY <1>1, <1>4, <3>3 DEF VisitInv, BindingSeen, StaysInGroup, Binding
  <2>3. CASE FindMembers
    <3>1. visit' = [visit EXCEPT !.at = "done", !.allowed = Members(visit.group), !.limited = TRUE]
          /\ visit.at = "found"
      BY <2>3 DEF FindMembers
    <3>2. Members(visit.group) \subseteq Credential
      BY DEF Members
    <3>3. /\ visit' \in VisitType /\ visit'.at = "done" /\ visit'.limited
          /\ visit'.allowed = Members(visit.group) /\ visit'.group = visit.group
          /\ visit'.bindings = visit.bindings
      BY <1>2, <3>1, <3>2 DEF VisitType
    <3> QED BY <1>1, <1>4, <3>1, <3>3 DEF VisitInv, BindingSeen, StaysInGroup, Members
  <2>4. CASE LookupFails
    <3>1. visit' = [Unlimited EXCEPT !.failed = TRUE]
      BY <2>4 DEF LookupFails
    <3>2. visit' \in VisitType /\ visit'.at = "done" /\ visit'.failed /\ ~visit'.limited
      BY <1>4, <1>5, <3>1 DEF VisitType
    <3> QED BY <3>2 DEF VisitInv, BindingSeen, StaysInGroup
  <2> QED BY <2>1, <2>2, <2>3, <2>4
<1> QED
  BY <1>1, <1>6
     DEF AccessInv, TableTypes, KeysInv, WorkTypes, AloneIsAlone, ReadersKnow, ReadIsCurrent,
         CheckHolds, MemoryCurrent, NoLockout, Working, Enabled, Rows, Checked

-----------------------------------------------------------------------------
(* Operations on keys. *)

LEMMA HandlerIs ==
    ASSUME WorkTypes, NEW h \in Handler
    PROVE  handlers[h] \in HandlerType
BY DEF WorkTypes

\* A check for a deletion leaves another row, one for a disabling another enabled key.
LEMMA AnotherRow ==
    ASSUME Cardinality(Rows) > 1, NEW k \in Key
    PROVE  Rows \ {k} # {}
<1> SUFFICES ASSUME Rows \ {k} = {} PROVE FALSE
  OBVIOUS
<1>1. Rows \subseteq {k}
  OBVIOUS
<1>2. IsFiniteSet({k}) /\ Cardinality({k}) = 1
  BY FS_Singleton
<1>3. IsFiniteSet(Rows) /\ Cardinality(Rows) \in Nat /\ Cardinality(Rows) <= 1
  BY <1>1, <1>2, FS_Subset, FS_CardinalityType
<1> QED BY <1>3

\* Steps that leave every key's state alone.
LEMMA SameKeys ==
    ASSUME KeysInv, UNCHANGED <<accepted, handlers, stale, raced, besideOff, Rows, Enabled>>
    PROVE  KeysInv'
BY DEF KeysInv, WorkTypes, AloneIsAlone, ReadersKnow, ReadIsCurrent, CheckHolds, MemoryCurrent,
       NoLockout, Working, Checked

LEMMA BeginOpKeeps ==
    ASSUME AccessInv, NEW h \in Handler, NEW op \in KeyOp, NEW k \in Key, BeginOp(h, op, k)
    PROVE  AccessInv'
<1>1. UNCHANGED <<keyRows, groups, member, accepted, visit, stale, raced, besideOff>>
  BY DEF BeginOp
<1>2. KeysInv /\ TableTypes /\ VisitInv
  BY DEF AccessInv
<1>3. handlers'[h] = [at |-> op, key |-> k, read |-> {}, alone |-> Undisturbed]
  BY DEF BeginOp
<1>4. ASSUME NEW x \in Handler, x # h
      PROVE  handlers'[x] = [handlers[x] EXCEPT !.alone = @ /\ ~Working(x)]
  BY <1>4 DEF BeginOp
<1>5. WorkTypes'
  <2>1. handlers'[h] \in HandlerType
    BY <1>3 DEF HandlerType, Undisturbed
  <2>2. ASSUME NEW x \in Handler, x # h PROVE handlers'[x] \in HandlerType
    <3>1. handlers[x] \in HandlerType
      BY <1>2, HandlerIs DEF KeysInv
    <3>2. (handlers[x].alone /\ ~Working(x)) \in BOOLEAN
      BY DEF Working
    <3> QED BY <1>4, <2>2, <3>1, <3>2 DEF HandlerType
  <2>3. \E f : handlers' = [x \in Handler |-> f[x]]
    <3> DEFINE f == handlers'
    <3>1. handlers' = [x \in Handler |-> f[x]]
      BY DEF BeginOp
    <3> QED BY <3>1
  <2> QED BY <1>1, <1>2, <2>1, <2>2, <2>3 DEF KeysInv, WorkTypes
<1>6. ASSUME NEW x \in Handler, x # h
      PROVE  /\ handlers'[x].at = handlers[x].at
             /\ handlers'[x].alone => ~Working(x)
  <2>1. handlers[x] \in HandlerType
    BY <1>2, HandlerIs DEF KeysInv
  <2> QED BY <1>4, <1>6, <2>1 DEF HandlerType
<1>7. handlers'[h].at = op /\ op \in {"add", "delete", "disable", "enable"} /\ handlers'[h].key = k
  BY <1>3 DEF KeyOp
<1>8. AloneIsAlone'
  <2> SUFFICES ASSUME NEW x \in Handler, NEW y \in Handler,
                      handlers'[x].at # "free", handlers'[x].alone, handlers'[y].at # "free"
               PROVE  y = x
    BY DEF AloneIsAlone, Working
  <2>1. x = h
    BY <1>6 DEF Working
  <2>2. handlers'[h].alone = Undisturbed
    BY <1>3
  <2> QED BY <1>6, <2>1, <2>2 DEF Undisturbed, Working
<1>9. ReadersKnow'
  BY <1>1, <1>2, <1>6, <1>7 DEF KeysInv, ReadersKnow
<1>10. ReadIsCurrent'
  <2> SUFFICES ASSUME NEW x \in Handler, handlers'[x].at = "write", handlers'[x].alone
               PROVE  FALSE
    BY DEF ReadIsCurrent
  <2>1. x # h
    BY <1>7
  <2> QED BY <1>6, <2>1 DEF Working
<1>11. CheckHolds'
  <2> SUFFICES ASSUME NEW x \in Handler, handlers'[x].alone,
                      handlers'[x].at \in {"delete", "disable"}
               PROVE  Checked(handlers[x].at, handlers[x].key)'
    BY DEF CheckHolds
  <2>1. x = h
    BY <1>6 DEF Working
  <2>2. Checked(op, k)
    BY DEF BeginOp
  <2> QED BY <1>1, <1>7, <2>1, <2>2 DEF Checked, Rows, Enabled
<1>12. MemoryCurrent' /\ NoLockout'
  BY <1>1, <1>2 DEF KeysInv, MemoryCurrent, NoLockout, Enabled
<1>13. TableTypes' /\ VisitInv'
  BY <1>1, <1>2, UnseenKeeps DEF TableTypes
<1> QED BY <1>5, <1>8, <1>9, <1>10, <1>11, <1>12, <1>13 DEF AccessInv, KeysInv

\* Whoever works without company is the one that works.
LEMMA OnlyOne ==
    ASSUME AloneIsAlone, NEW h \in Handler, Working(h), NEW x \in Handler, x # h
    PROVE  Working(x) => ~handlers[x].alone
BY DEF AloneIsAlone

\* A step of an operation that leaves the list to others.
LEMMA StepKeepsWork ==
    ASSUME KeysInv, NEW h \in Handler, Working(h), NEW w \in HandlerType, Does(h, w),
           w.at \in {"free", "read", "write"}, w.at # "free" => w.alone = handlers[h].alone,
           stale' \in BOOLEAN, raced' \in BOOLEAN, besideOff' \in BOOLEAN, accepted' \subseteq Key,
           w.at \in {"read", "write"} => stale',
           stale => stale' \/ handlers[h].alone,
           w.at = "write" /\ w.alone => w.read = Enabled'
    PROVE  WorkTypes' /\ AloneIsAlone' /\ ReadersKnow' /\ ReadIsCurrent' /\ CheckHolds'
<1>1. WorkTypes /\ AloneIsAlone /\ ReadersKnow
  BY DEF KeysInv
<1>2. handlers'[h] = w /\ \A x \in Handler : x # h => handlers'[x] = handlers[x]
  BY <1>1 DEF Does, WorkTypes
<1>3. WorkTypes'
  BY <1>1 DEF Does, WorkTypes
<1>4. AloneIsAlone'
  BY <1>1, <1>2 DEF AloneIsAlone, Working
<1>5. ASSUME NEW x \in Handler, x # h, handlers[x].at # "free"
      PROVE  ~handlers'[x].alone /\ ~handlers[h].alone
  BY <1>1, <1>2, <1>5 DEF AloneIsAlone, Working
<1>6. ReadersKnow'
  <2> SUFFICES ASSUME NEW x \in Handler, handlers'[x].at \in {"read", "write"}
               PROVE  stale'
    BY DEF ReadersKnow
  <2>1. CASE x = h
    BY <1>2, <2>1
  <2>2. CASE x # h
    BY <1>1, <1>2, <1>5, <2>2 DEF ReadersKnow
  <2> QED BY <2>1, <2>2
<1>7. ReadIsCurrent'
  <2> SUFFICES ASSUME NEW x \in Handler, handlers'[x].at = "write", handlers'[x].alone
               PROVE  handlers'[x].read = Enabled'
    BY DEF ReadIsCurrent
  <2>1. x = h
    BY <1>2, <1>5
  <2> QED BY <1>2, <2>1
<1>8. CheckHolds'
  <2> SUFFICES ASSUME NEW x \in Handler, handlers'[x].alone,
                      handlers'[x].at \in {"delete", "disable"}
               PROVE  FALSE
    BY DEF CheckHolds
  <2> QED BY <1>2, <1>5
<1> QED BY <1>3, <1>4, <1>6, <1>7, <1>8

LEMMA ChangedType ==
    ASSUME TableTypes, NEW op \in KeyOp, NEW k \in Key
    PROVE  /\ Changed(op, k) \in [Key -> RowType]
           /\ Changed(op, k)[k].state =
                 CASE op \in {"add", "enable"} -> "on" [] op = "delete" -> "none" [] OTHER -> "off"
           /\ \A x \in Key : x # k => Changed(op, k)[x] = keyRows[x]
<1>1. keyRows \in [Key -> RowType] /\ keyRows[k] \in RowType
  BY DEF TableTypes
<1>2. NoRow \in RowType /\ NoRow.state = "none"
  BY DEF NoRow, RowType
<1>3. CASE op = "add"
  BY <1>1, <1>3 DEF Changed, RowType
<1>4. CASE op = "delete"
  BY <1>1, <1>2, <1>4 DEF Changed
<1>5. CASE op = "disable"
  BY <1>1, <1>5 DEF Changed, RowType
<1>6. CASE op = "enable"
  BY <1>1, <1>6 DEF Changed, RowType
<1> QED BY <1>3, <1>4, <1>5, <1>6 DEF KeyOp

\* The key that remains: the check that was made in advance, if it still holds.
LEMMA OneRemains ==
    ASSUME KeysInv, TableTypes, NEW h \in Handler, ChangeRow(h),
           Applies(handlers[h].at, handlers[h].key)
    PROVE  NoLockout'
<1> DEFINE op == handlers[h].at
           k  == handlers[h].key
<1>1. op \in KeyOp /\ k \in Key /\ handlers[h].alone \in BOOLEAN
  BY HandlerIs DEF KeysInv, ChangeRow, HandlerType
<1>2. /\ keyRows' = Changed(op, k)
      /\ raced' = (raced \/ (op \in {"delete", "disable"} /\ ~handlers[h].alone))
      /\ besideOff' = (besideOff \/ (op = "delete" /\ Rows \ {k} # Enabled \ {k}))
  BY DEF ChangeRow
<1> HIDE DEF op, k
<1>3. /\ keyRows'[k].state =
            CASE op \in {"add", "enable"} -> "on" [] op = "delete" -> "none" [] OTHER -> "off"
      /\ \A x \in Key : x # k => keyRows'[x] = keyRows[x]
  BY <1>1, <1>2, ChangedType
<1>4. Enabled \ {k} \subseteq Enabled'
  BY <1>3 DEF Enabled
<1>5. CASE op \in {"add", "enable"}
  BY <1>1, <1>3, <1>5 DEF NoLockout, Enabled
<1>6. CASE op \in {"delete", "disable"} /\ ~handlers[h].alone
  BY <1>2, <1>6 DEF NoLockout
<1>7. CASE op \in {"delete", "disable"} /\ handlers[h].alone
  <2>1. Checked(op, k)
    BY <1>7 DEF KeysInv, CheckHolds, op, k
  <2>2. CASE op = "disable"
    BY <1>4, <2>1, <2>2 DEF NoLockout, Checked
  <2>3. CASE op = "delete"
    <3>1. Rows \ {k} # {}
      BY <1>1, <2>1, <2>3, AnotherRow DEF Checked
    <3>2. CASE Rows \ {k} # Enabled \ {k}
      BY <1>2, <2>3, <3>2 DEF NoLockout
    <3>3. CASE Rows \ {k} = Enabled \ {k}
      BY <1>4, <3>1, <3>3 DEF NoLockout
    <3> QED BY <3>2, <3>3
  <2> QED BY <1>7, <2>2, <2>3
<1> QED BY <1>1, <1>5, <1>6, <1>7 DEF KeyOp

LEMMA ChangeRowKeeps ==
    ASSUME AccessInv, NEW h \in Handler, ChangeRow(h)
    PROVE  AccessInv'
<1> DEFINE op == handlers[h].at
           k  == handlers[h].key
           w  == [handlers[h] EXCEPT !.at = "read"]
<1>1. KeysInv /\ TableTypes /\ VisitInv /\ WorkTypes
  BY DEF AccessInv, KeysInv
<1>2. /\ handlers[h] \in HandlerType /\ op \in KeyOp /\ k \in Key /\ Working(h)
      /\ handlers[h].alone \in BOOLEAN
  BY <1>1, HandlerIs DEF ChangeRow, HandlerType, Working, KeyOp
<1>3. /\ UNCHANGED <<groups, member, accepted>>
      /\ Seen(keyRows', member) /\ accepted' \subseteq Key
  BY <1>1 DEF ChangeRow, WorkTypes
<1>4. CASE ~Applies(op, k)
  <2>1. Does(h, Free) /\ UNCHANGED <<keyRows, stale, raced, besideOff>>
    BY <1>4 DEF ChangeRow
  <2>2. Free \in HandlerType /\ Free.at = "free"
    BY KeysAssumption DEF Free, HandlerType
  <2>3. stale' \in BOOLEAN /\ raced' \in BOOLEAN /\ besideOff' \in BOOLEAN /\ (stale => stale')
    BY <1>1, <2>1 DEF WorkTypes
  <2>4. WorkTypes' /\ AloneIsAlone' /\ ReadersKnow' /\ ReadIsCurrent' /\ CheckHolds'
    BY <1>1, <1>2, <1>3, <2>1, <2>2, <2>3, StepKeepsWork
  <2>5. MemoryCurrent' /\ NoLockout'
    BY <1>1, <1>3, <2>1 DEF KeysInv, MemoryCurrent, NoLockout, Enabled
  <2>6. TableTypes'
    BY <1>1, <1>3, <2>1 DEF TableTypes
  <2>7. VisitInv'
    BY <1>1, <1>3, <2>6, SeenKeeps
  <2> QED BY <2>4, <2>5, <2>6, <2>7 DEF AccessInv, KeysInv
<1>5. CASE Applies(op, k)
  <2>1. /\ Does(h, w) /\ stale' = TRUE /\ keyRows' = Changed(op, k)
        /\ raced' = (raced \/ (op \in {"delete", "disable"} /\ ~handlers[h].alone))
        /\ besideOff' = (besideOff \/ (op = "delete" /\ Rows \ {k} # Enabled \ {k}))
    BY <1>5 DEF ChangeRow
  <2>2. w \in HandlerType /\ w.at = "read" /\ w.alone = handlers[h].alone
    BY <1>2 DEF HandlerType
  <2>3. stale' \in BOOLEAN /\ raced' \in BOOLEAN /\ besideOff' \in BOOLEAN
    BY <1>1, <1>2, <2>1 DEF WorkTypes
  <2>4. NoLockout'
    BY <1>1, <1>5, OneRemains
  <2> HIDE DEF w
  <2>5. WorkTypes' /\ AloneIsAlone' /\ ReadersKnow' /\ ReadIsCurrent' /\ CheckHolds'
    BY <1>1, <1>2, <1>3, <2>1, <2>2, <2>3, StepKeepsWork
  <2>6. MemoryCurrent'
    BY <2>1 DEF MemoryCurrent
  <2>7. TableTypes'
    BY <1>1, <1>2, <1>3, <2>1, ChangedType DEF TableTypes
  <2>8. VisitInv'
    BY <1>1, <1>3, <2>7, SeenKeeps
  <2> QED BY <2>4, <2>5, <2>6, <2>7, <2>8 DEF AccessInv, KeysInv
<1> QED BY <1>4, <1>5

LEMMA ReadRowsKeeps ==
    ASSUME AccessInv, NEW h \in Handler, ReadRows(h)
    PROVE  AccessInv'
<1> DEFINE w == [handlers[h] EXCEPT !.at = "write", !.read = Enabled]
<1>1. KeysInv /\ TableTypes /\ VisitInv /\ WorkTypes
  BY DEF AccessInv, KeysInv
<1>2. UNCHANGED <<keyRows, groups, member, accepted, visit, stale, raced, besideOff>>
  BY DEF ReadRows
<1>3. handlers[h] \in HandlerType /\ handlers[h].at = "read" /\ Working(h) /\ stale
  BY <1>1, HandlerIs DEF ReadRows, Working, KeysInv, ReadersKnow
<1>4. Enabled \subseteq Key /\ Enabled' = Enabled
  BY <1>2 DEF Enabled
<1>5. /\ w \in HandlerType /\ w.at = "write" /\ w.alone = handlers[h].alone
      /\ w.read = Enabled
  BY <1>3, <1>4 DEF HandlerType
<1>6. Free \in HandlerType /\ Free.at = "free"
  BY KeysAssumption DEF Free, HandlerType
<1>7. Does(h, w) \/ Does(h, Free)
  BY DEF ReadRows
<1>8. stale' \in BOOLEAN /\ raced' \in BOOLEAN /\ besideOff' \in BOOLEAN /\ accepted' \subseteq Key
  BY <1>1, <1>2 DEF WorkTypes
<1> HIDE DEF w
<1>9. WorkTypes' /\ AloneIsAlone' /\ ReadersKnow' /\ ReadIsCurrent' /\ CheckHolds'
  <2>1. CASE Does(h, w)
    BY <1>1, <1>2, <1>3, <1>4, <1>5, <1>8, <2>1, StepKeepsWork
  <2>2. CASE Does(h, Free)
    BY <1>1, <1>2, <1>3, <1>6, <1>8, <2>2, StepKeepsWork
  <2> QED BY <1>7, <2>1, <2>2
<1>10. MemoryCurrent' /\ NoLockout'
  BY <1>1, <1>2 DEF KeysInv, MemoryCurrent, NoLockout, Enabled
<1>11. TableTypes' /\ VisitInv'
  BY <1>1, <1>2, UnseenKeeps DEF TableTypes
<1> QED BY <1>9, <1>10, <1>11 DEF AccessInv, KeysInv

LEMMA WriteMemoryKeeps ==
    ASSUME AccessInv, NEW h \in Handler, WriteMemory(h)
    PROVE  AccessInv'
<1>1. KeysInv /\ TableTypes /\ VisitInv /\ WorkTypes
  BY DEF AccessInv, KeysInv
<1>2. /\ UNCHANGED <<keyRows, groups, member, visit, raced, besideOff>>
      /\ accepted' = handlers[h].read
      /\ stale' = (stale /\ ~handlers[h].alone) /\ Does(h, Free)
  BY DEF WriteMemory
<1>3. handlers[h] \in HandlerType /\ handlers[h].at = "write" /\ Working(h) /\ stale
  BY <1>1, HandlerIs DEF WriteMemory, Working, KeysInv, ReadersKnow
<1>4. /\ handlers[h].alone \in BOOLEAN /\ accepted' \subseteq Key
      /\ stale' \in BOOLEAN /\ raced' \in BOOLEAN /\ besideOff' \in BOOLEAN
      /\ stale => stale' \/ handlers[h].alone
  BY <1>1, <1>2, <1>3 DEF WorkTypes, HandlerType
<1>5. Free \in HandlerType /\ Free.at = "free"
  BY KeysAssumption DEF Free, HandlerType
<1>6. WorkTypes' /\ AloneIsAlone' /\ ReadersKnow' /\ ReadIsCurrent' /\ CheckHolds'
  BY <1>1, <1>2, <1>3, <1>4, <1>5, StepKeepsWork
<1>7. Enabled' = Enabled
  BY <1>2 DEF Enabled
<1>8. MemoryCurrent'
  BY <1>1, <1>2, <1>3, <1>4, <1>7 DEF KeysInv, ReadIsCurrent, MemoryCurrent
<1>9. NoLockout'
  BY <1>1, <1>2, <1>7 DEF KeysInv, NoLockout
<1>10. TableTypes' /\ VisitInv'
  BY <1>1, <1>2, UnseenKeeps DEF TableTypes
<1> QED BY <1>6, <1>8, <1>9, <1>10 DEF AccessInv, KeysInv

LEMMA RestartServerKeeps ==
    ASSUME AccessInv, RestartServer
    PROVE  AccessInv'
<1> DEFINE entered == [keyRows EXCEPT ![ConfigKey] = [state |-> "on", group |-> 0]]
<1>1. KeysInv /\ TableTypes /\ WorkTypes /\ ConfigKey \in Key
  BY KeysAssumption DEF AccessInv, KeysInv
<1>2. /\ UNCHANGED <<groups, member, raced, besideOff>>
      /\ handlers' = [h \in Handler |-> Free] /\ visit' = NoVisit
  BY DEF RestartServer
<1>3. VisitInv'
  BY <1>2, NoVisitSound
<1>4. Free \in HandlerType /\ Free.at = "free"
  BY KeysAssumption DEF Free, HandlerType
<1>5. AloneIsAlone' /\ ReadersKnow' /\ ReadIsCurrent' /\ CheckHolds'
  BY <1>2, <1>4 DEF AloneIsAlone, ReadersKnow, ReadIsCurrent, CheckHolds, Working
<1>6. /\ keyRows' = keyRows \/ (keyRows' = entered /\ Enabled = {} /\ ConfigKey \notin Rows)
      /\ \/ /\ accepted' = (IF Enabled = {} THEN {ConfigKey} ELSE Enabled)
            /\ keyRows' = (IF Enabled = {} /\ ConfigKey \notin Rows THEN entered ELSE keyRows)
            /\ stale' = FALSE
         \/ accepted' = {ConfigKey} /\ stale' = TRUE /\ keyRows' = keyRows
  BY DEF RestartServer
<1>7. entered \in [Key -> RowType] /\ entered[ConfigKey].state = "on"
      /\ \A k \in Key : k # ConfigKey => entered[k] = keyRows[k]
  BY <1>1 DEF TableTypes, RowType
<1> HIDE DEF entered
<1>8. TableTypes'
  BY <1>1, <1>2, <1>6, <1>7 DEF TableTypes
<1>9. WorkTypes'
  BY <1>1, <1>2, <1>4, <1>6 DEF WorkTypes, Enabled
<1>10. NoLockout' /\ MemoryCurrent'
  <2>1. CASE keyRows' = keyRows
    <3>1. Enabled' = Enabled
      BY <2>1 DEF Enabled
    <3>2. NoLockout'
      BY <1>1, <1>2, <3>1 DEF KeysInv, NoLockout
    <3>3. MemoryCurrent'
      BY <1>6, <3>1 DEF MemoryCurrent
    <3> QED BY <3>2, <3>3
  <2>2. CASE keyRows' = entered /\ Enabled = {} /\ ConfigKey \notin Rows
    <3>1. Enabled' = {ConfigKey}
      BY <1>1, <1>7, <2>2 DEF Enabled
    <3> QED BY <1>6, <2>2, <3>1 DEF NoLockout, MemoryCurrent
  <2> QED BY <1>6, <2>1, <2>2
<1> QED BY <1>3, <1>5, <1>8, <1>9, <1>10 DEF AccessInv, KeysInv

-----------------------------------------------------------------------------
(* Operations on groups. *)

\* Whatever they do to the bindings, the same keys are there, and the same are enabled.
LEMMA SameStates ==
    ASSUME \A k \in Key : keyRows'[k].state = keyRows[k].state
    PROVE  UNCHANGED <<Rows, Enabled>>
BY DEF Rows, Enabled

LEMMA AddGroupKeeps ==
    ASSUME AccessInv, NEW g \in Group, AddGroup(g)
    PROVE  AccessInv'
<1>1. UNCHANGED <<keyRows, member, accepted, handlers, visit, stale, raced, besideOff>>
      /\ groups' = groups \cup {g}
  BY DEF AddGroup
<1>2. TableTypes'
  BY <1>1 DEF AccessInv, TableTypes
<1>3. KeysInv'
  BY <1>1, SameStates, SameKeys DEF AccessInv
<1>4. VisitInv'
  BY <1>1, UnseenKeeps DEF AccessInv
<1> QED BY <1>2, <1>3, <1>4 DEF AccessInv

LEMMA DeleteGroupKeeps ==
    ASSUME AccessInv, NEW g \in Group, DeleteGroup(g)
    PROVE  AccessInv'
<1>1. UNCHANGED <<accepted, handlers, stale, raced, besideOff>> /\ Seen(keyRows', member')
      /\ groups' = groups \ {g}
      /\ keyRows' = [k \in Key |-> IF keyRows[k].group = g THEN [keyRows[k] EXCEPT !.group = 0]
                                   ELSE keyRows[k]]
      /\ member' = [c \in Credential |-> IF member[c] = g THEN 0 ELSE member[c]]
  BY DEF DeleteGroup
<1>2. TableTypes
  BY DEF AccessInv
<1>3. TableTypes'
  <2>1. keyRows' \in [Key -> RowType]
    BY <1>1, <1>2 DEF TableTypes, RowType
  <2>2. member' \in [Credential -> (groups \ {g}) \cup {0}]
    BY <1>1, <1>2 DEF TableTypes
  <2> QED BY <1>1, <1>2, <2>1, <2>2 DEF TableTypes
<1>4. \A k \in Key : keyRows'[k].state = keyRows[k].state
  BY <1>1, <1>2 DEF TableTypes, RowType
<1>5. KeysInv'
  BY <1>1, <1>4, SameStates, SameKeys DEF AccessInv
<1>6. VisitInv'
  BY <1>1, <1>2, <1>3, SeenKeeps DEF AccessInv
<1> QED BY <1>3, <1>5, <1>6 DEF AccessInv

LEMMA SetCredentialGroupKeeps ==
    ASSUME AccessInv, NEW c \in Credential, NEW g \in Group \cup {0}, SetCredentialGroup(c, g)
    PROVE  AccessInv'
<1>1. UNCHANGED <<keyRows, groups, accepted, handlers, stale, raced, besideOff>>
      /\ Seen(keyRows', member') /\ member' = [member EXCEPT ![c] = g] /\ g \in groups \cup {0}
  BY DEF SetCredentialGroup
<1>2. TableTypes /\ TableTypes'
  BY <1>1 DEF AccessInv, TableTypes
<1>3. KeysInv'
  BY <1>1, SameStates, SameKeys DEF AccessInv
<1>4. VisitInv'
  BY <1>1, <1>2, SeenKeeps DEF AccessInv
<1> QED BY <1>2, <1>3, <1>4 DEF AccessInv

LEMMA SetKeyGroupKeeps ==
    ASSUME AccessInv, NEW k \in Key, NEW g \in Group \cup {0}, SetKeyGroup(k, g)
    PROVE  AccessInv'
<1>1. UNCHANGED <<groups, member, accepted, handlers, stale, raced, besideOff>>
      /\ Seen(keyRows', member') /\ keyRows' = [keyRows EXCEPT ![k].group = g]
  BY DEF SetKeyGroup
<1>2. TableTypes
  BY DEF AccessInv
<1>3. TableTypes' /\ \A x \in Key : keyRows'[x].state = keyRows[x].state
  BY <1>1, <1>2 DEF TableTypes, RowType
<1>4. KeysInv'
  BY <1>1, <1>3, SameStates, SameKeys DEF AccessInv
<1>5. VisitInv'
  BY <1>1, <1>2, <1>3, SeenKeeps DEF AccessInv
<1> QED BY <1>3, <1>4, <1>5 DEF AccessInv

-----------------------------------------------------------------------------
(* The specification. *)

LEMMA AccessInit ==
    ASSUME KeysInit
    PROVE  AccessInv
<1>1. /\ keyRows = [k \in Key |-> IF k = ConfigKey THEN [state |-> "on", group |-> 0] ELSE NoRow]
      /\ groups \subseteq Group /\ member \in [Credential -> groups \cup {0}]
      /\ accepted = {ConfigKey} /\ handlers = [h \in Handler |-> Free] /\ visit = NoVisit
      /\ stale = FALSE /\ raced = FALSE /\ besideOff = FALSE /\ ConfigKey \in Key
  BY KeysAssumption DEF KeysInit
<1>2. TableTypes /\ Enabled = {ConfigKey}
  BY <1>1 DEF TableTypes, RowType, NoRow, Enabled
<1>3. Free \in HandlerType /\ Free.at = "free"
  BY <1>1 DEF Free, HandlerType
<1>4. KeysInv
  BY <1>1, <1>2, <1>3
     DEF KeysInv, WorkTypes, AloneIsAlone, ReadersKnow, ReadIsCurrent, CheckHolds, MemoryCurrent,
         NoLockout, Working
<1>5. VisitInv
  BY <1>1 DEF VisitInv, VisitType, NoVisit, BindingSeen, StaysInGroup
<1> QED BY <1>2, <1>4, <1>5 DEF AccessInv

LEMMA AccessStep ==
    ASSUME AccessInv, [KeysNext]_keyVars
    PROVE  AccessInv'
<1>1. CASE UNCHANGED keyVars
  <2>1. UNCHANGED <<keyRows, groups, member, accepted, handlers, visit, stale, raced, besideOff>>
    BY <1>1 DEF keyVars
  <2>2. TableTypes' /\ VisitInv'
    BY <2>1, UnseenKeeps DEF AccessInv, TableTypes
  <2>3. KeysInv'
    BY <2>1, SameStates, SameKeys DEF AccessInv
  <2> QED BY <2>2, <2>3 DEF AccessInv
<1>2. CASE \E h \in Handler : \E op \in KeyOp, k \in Key : BeginOp(h, op, k)
  BY <1>2, BeginOpKeeps
<1>3. CASE \E h \in Handler : ChangeRow(h) \/ ReadRows(h) \/ WriteMemory(h)
  BY <1>3, ChangeRowKeeps, ReadRowsKeeps, WriteMemoryKeeps
<1>4. CASE \E g \in Group : AddGroup(g) \/ DeleteGroup(g)
  BY <1>4, AddGroupKeeps, DeleteGroupKeeps
<1>5. CASE \E c \in Credential, g \in Group \cup {0} : SetCredentialGroup(c, g)
  BY <1>5, SetCredentialGroupKeeps
<1>6. CASE \E k \in Key, g \in Group \cup {0} : SetKeyGroup(k, g)
  BY <1>6, SetKeyGroupKeeps
<1>7. CASE RestartServer
  BY <1>7, RestartServerKeeps
<1>8. CASE Authenticate \/ FindGroup \/ FindMembers \/ LookupFails
  BY <1>8, AuthenticateKeeps, LookKeeps
<1> QED BY <1>1, <1>2, <1>3, <1>4, <1>5, <1>6, <1>7, <1>8 DEF KeysNext

\* The inductive invariant of the keys, the groups and the requests that are authenticated
\* (admin/handlers.rs, anthropic/middleware.rs).
THEOREM AccessInvariant == KeysSpec => []AccessInv
<1>1. KeysInit => AccessInv
  BY AccessInit
<1>2. AccessInv /\ [KeysNext]_keyVars => AccessInv'
  BY AccessStep
<1> QED BY <1>1, <1>2, PTL DEF KeysSpec

LEMMA TypesFollow ==
    ASSUME AccessInv
    PROVE  KeysTypeOK
BY DEF AccessInv, TableTypes, RowType, KeysInv, WorkTypes, VisitInv, VisitType, KeysTypeOK

\* The tables and the list keep their types, and no credential is in a group that was deleted
\* (groups.rs, the foreign keys of the database).
THEOREM KeysTyped == KeysSpec => []KeysTypeOK
<1>1. AccessInv => KeysTypeOK
  BY TypesFollow
<1> QED BY <1>1, AccessInvariant, PTL

\* With nobody at work and the last change read back by an operation that overlapped no other,
\* the server takes the enabled keys and no others (admin/handlers.rs, reload_keys_into_memory).
THEOREM RevokedKeysRefused == KeysSpec => []RevokedKeyRefused
<1>1. AccessInv => RevokedKeyRefused
  BY DEF AccessInv, KeysInv, MemoryCurrent, RevokedKeyRefused
<1> QED BY <1>1, AccessInvariant, PTL

\* The last enabled key is lost only to overlapping operations or to a deletion that counted
\* a disabled key (admin/handlers.rs, delete_api_key and set_api_key_disabled).
THEOREM NeverLockedOut == KeysSpec => []NoLockout
<1>1. AccessInv => NoLockout
  BY DEF AccessInv, KeysInv
<1> QED BY <1>1, AccessInvariant, PTL

\* A request that is limited has the members of a group its key was bound to; one that is not
\* met a failure of the database or a moment without a binding (anthropic/middleware.rs,
\* auth_middleware).
THEOREM RequestsStayInGroup == KeysSpec => []StaysInGroup
<1>1. AccessInv => StaysInGroup
  BY DEF AccessInv, VisitInv
<1> QED BY <1>1, AccessInvariant, PTL

-----------------------------------------------------------------------------
(* The settings. *)

WishType     == [setting : Setting, value : Value]
CallType == [at : {"rest", "check", "store", "load", "open", "fill", "undo"},
             todo : Seq(WishType), previous : Value \ {Bad}, copy : Values]

Readable(f) == f.state \in {"missing", "intact"}
Saved(f)    == IF f.state = "missing" THEN Defaults ELSE f.values
Broken(f)   == f.state \in {"empty", "torn"}

\* What a call has in hand: a wish, one that was accepted once it is past the check.
Shape(w) ==
    /\ w.at # "rest" => w.todo # <<>>
    /\ w.at \in {"store", "load", "open", "fill", "undo"} => Head(w.todo).value # Bad

ConfigTypes ==
    /\ memory \in Values /\ file \in File
    /\ admin \in [Call -> CallType]
    /\ up \in BOOLEAN /\ mingled \in BOOLEAN /\ spoilt \in BOOLEAN /\ clamped \in BOOLEAN
    /\ \A c \in Call : Shape(admin[c])

DownAtRest == ~up => \A c \in Call : ~Busy(c)

\* The values in memory are those of the file, but for a floor ratio lowered by a start.
Agree(mem, values, cl) ==
    \A s \in Setting : IF s = "floorRatio" /\ cl THEN mem[s] < values[s] ELSE mem[s] = values[s]

\* The memory as it was before the call stored its wish.
Earlier(w, mem) == [mem EXCEPT ![Head(w.todo).setting] = w.previous]

\* How far memory and the file are apart when a call is at w and has no company.
Fits(w, mem, f, cl) ==
    LET wish == Head(w.todo)
    IN  /\ w.at \in {"rest", "check", "store"} /\ Readable(f) => Agree(mem, Saved(f), cl)
        /\ w.at = "store" => w.previous = mem[wish.setting]
        /\ w.at \in {"load", "open", "undo"} /\ Readable(f) => Agree(Earlier(w, mem), Saved(f), cl)
        /\ w.at \in {"load", "open"} => mem[wish.setting] = wish.value
        /\ w.at = "open" => Readable(f) /\ w.copy = [Saved(f) EXCEPT ![wish.setting] = wish.value]
        /\ w.at = "fill" => /\ f.state = "empty"
                            /\ Agree(mem, w.copy, cl /\ wish.setting # "floorRatio")

OneAtWork ==
    up /\ ~mingled =>
        /\ \A c, d \in Call : Busy(c) /\ Busy(d) => c = d
        /\ \A c \in Call : Busy(c) => Fits(admin[c], memory, file, clamped)
        /\ (\A c \in Call : ~Busy(c)) => Fits(AtRest, memory, file, clamped)

\* A file that cannot be read is being written, or a write broke off in it.
BrokenKnown == Broken(file) => spoilt \/ \E c \in Call : admin[c].at = "fill"

\* The inductive invariant.
ConfigInv == ConfigTypes /\ DownAtRest /\ OneAtWork /\ BrokenKnown

-----------------------------------------------------------------------------
(* Lemmas. *)

LEMMA DefaultsType == Defaults \in Values
BY DEF Defaults, Values, Value, Bad

LEMMA AtRestType == AtRest \in CallType /\ Shape(AtRest) /\ AtRest.at = "rest"
<1>1. <<>> \in Seq(WishType)
  OBVIOUS
<1>2. 0 \in Value \ {Bad}
  BY DEF Value, Bad
<1> QED BY <1>1, <1>2, DefaultsType DEF AtRest, CallType, Shape

LEMMA CallIs ==
    ASSUME ConfigTypes, NEW c \in Call
    PROVE  admin[c] \in CallType /\ Shape(admin[c])
BY DEF ConfigTypes

LEMMA WishIs ==
    ASSUME NEW w \in CallType, Shape(w), w.at # "rest"
    PROVE  /\ Head(w.todo) \in WishType /\ Head(w.todo).setting \in Setting
           /\ Head(w.todo).value \in Value
           /\ Tail(w.todo) \in Seq(WishType)
<1>1. w.todo \in Seq(WishType) /\ w.todo # <<>>
  BY DEF CallType, Shape
<1>2. Head(w.todo) \in WishType /\ Tail(w.todo) \in Seq(WishType)
  BY <1>1
<1> QED BY <1>2 DEF WishType

LEMMA SavedType ==
    ASSUME NEW f \in File
    PROVE  Saved(f) \in Values
BY DefaultsType DEF Saved, File

\* A step of a call that is at work.
LEMMA CallStep ==
    ASSUME ConfigInv, NEW c \in Call, Busy(c), NEW w \in CallType, Shape(w), Goes(c, w),
           UNCHANGED <<up, mingled>>,
           memory' \in Values, file' \in File, spoilt' \in BOOLEAN, clamped' \in BOOLEAN,
           up /\ ~mingled => Fits(w, memory', file', clamped'),
           Broken(file') => \/ spoilt' \/ w.at = "fill"
                            \/ Broken(file) /\ (spoilt => spoilt') /\ admin[c].at # "fill"
    PROVE  ConfigInv'
<1>1. ConfigTypes /\ DownAtRest /\ OneAtWork /\ BrokenKnown /\ up
  BY DEF ConfigInv, DownAtRest, ConfigTypes
<1>2. admin'[c] = w /\ \A d \in Call : d # c => admin'[d] = admin[d]
  BY <1>1 DEF Goes, ConfigTypes
<1>3. ConfigTypes'
  BY <1>1, <1>2 DEF Goes, ConfigTypes
<1>4. DownAtRest'
  BY <1>1 DEF DownAtRest
<1>5. OneAtWork'
  <2> SUFFICES ASSUME up, ~mingled PROVE OneAtWork'
    BY DEF OneAtWork
  <2>1. \A d \in Call : d # c => ~Busy(d)
    BY <1>1 DEF OneAtWork
  <2>2. \A d \in Call : d # c => ~(Busy(d))'
    BY <1>2, <2>1 DEF Busy
  <2>3. Fits(w, memory', file', clamped')
    OBVIOUS
  <2>4. ASSUME w.at = "rest" PROVE Fits(AtRest, memory', file', clamped')
    <3>1. Readable(file') => Agree(memory', Saved(file'), clamped')
      BY <2>3, <2>4 DEF Fits
    <3> QED BY <3>1, AtRestType DEF Fits
  <2>5. ASSUME NEW d \in Call, (Busy(d))'
        PROVE  d = c /\ Fits(w, memory', file', clamped')
    BY <2>2, <2>3, <2>5
  <2>6. (\A d \in Call : ~(Busy(d))') => Fits(AtRest, memory', file', clamped')
    BY <1>2, <2>4 DEF Busy
  <2> HIDE DEF Fits
  <2> QED BY <1>2, <2>5, <2>6 DEF OneAtWork
<1>6. BrokenKnown'
  <2> SUFFICES ASSUME Broken(file'), ~spoilt'
               PROVE  \E d \in Call : admin'[d].at = "fill"
    BY DEF BrokenKnown
  <2>1. CASE w.at = "fill"
    BY <1>2, <2>1
  <2>2. CASE Broken(file) /\ (spoilt => spoilt') /\ admin[c].at # "fill"
    <3>1. PICK d \in Call : admin[d].at = "fill"
      BY <1>1, <2>2 DEF BrokenKnown
    <3> QED BY <1>2, <2>2, <3>1
  <2> QED BY <2>1, <2>2
<1> QED BY <1>3, <1>4, <1>5, <1>6 DEF ConfigInv

\* The call goes on, or is over.
LEMMA GrantedStep ==
    ASSUME ConfigInv, NEW c \in Call, Busy(c), Granted(c),
           UNCHANGED <<up, mingled>>,
           memory' \in Values, file' \in File, spoilt' \in BOOLEAN, clamped' \in BOOLEAN,
           up /\ ~mingled /\ Readable(file') => Agree(memory', Saved(file'), clamped'),
           Broken(file') => spoilt' \/ (Broken(file) /\ (spoilt => spoilt') /\ admin[c].at # "fill")
    PROVE  ConfigInv'
<1> DEFINE rest == Tail(admin[c].todo)
           w == IF rest = <<>> THEN AtRest ELSE [AtRest EXCEPT !.at = "check", !.todo = rest]
<1>1. admin[c] \in CallType /\ Shape(admin[c]) /\ admin[c].at # "rest"
  BY CallIs DEF ConfigInv, Busy
<1>2. rest \in Seq(WishType)
  BY <1>1, WishIs
<1>3. w \in CallType /\ Shape(w) /\ w.at \in {"rest", "check"}
  BY <1>2, AtRestType DEF CallType, Shape
<1>4. Goes(c, w)
  BY DEF Granted
<1> HIDE DEF w
<1>5. up /\ ~mingled => Fits(w, memory', file', clamped')
  BY <1>3 DEF Fits
<1> QED BY <1>3, <1>4, <1>5, CallStep

-----------------------------------------------------------------------------
(* The steps of a call. *)

LEMMA AskKeeps ==
    ASSUME ConfigInv, NEW c \in Call, Ask(c)
    PROVE  ConfigInv'
<1>1. ConfigTypes /\ OneAtWork /\ BrokenKnown
  BY DEF ConfigInv
<1>2. PICK wish \in Wishes : Goes(c, [AtRest EXCEPT !.at = "check", !.todo = wish])
  BY DEF Ask
<1> DEFINE w == [AtRest EXCEPT !.at = "check", !.todo = wish]
<1>3. wish \in Seq(WishType) /\ wish # <<>>
  BY ConfigAssumption DEF WishType
<1>4. w \in CallType /\ Shape(w) /\ w.at = "check"
  BY <1>3, AtRestType DEF CallType, Shape
<1> HIDE DEF w
<1>5. /\ UNCHANGED <<memory, file, up, spoilt, clamped>> /\ up /\ ~Busy(c)
      /\ mingled' = (mingled \/ \E d \in Call : Busy(d))
  BY DEF Ask
<1>6. admin'[c] = w /\ \A d \in Call : d # c => admin'[d] = admin[d]
  BY <1>1, <1>2 DEF Goes, ConfigTypes, w
<1>7. ConfigTypes'
  BY <1>1, <1>2, <1>4, <1>5, <1>6 DEF Goes, ConfigTypes, w
<1>8. DownAtRest'
  BY <1>5 DEF DownAtRest
<1>9. OneAtWork'
  <2> SUFFICES ASSUME ~mingled' PROVE OneAtWork'
    BY DEF OneAtWork
  <2>1. ~mingled /\ \A d \in Call : ~Busy(d)
    BY <1>5
  <2>2. Fits(AtRest, memory, file, clamped)
    BY <1>1, <1>5, <2>1 DEF OneAtWork
  <2>3. Fits(w, memory, file, clamped)
    BY <1>4, <2>2, AtRestType DEF Fits
  <2>4. \A d \in Call : d # c => ~(Busy(d))'
    BY <1>6, <2>1 DEF Busy
  <2>5. (Busy(c))'
    BY <1>4, <1>6 DEF Busy
  <2> QED BY <1>5, <1>6, <2>3, <2>4, <2>5 DEF OneAtWork
<1>10. BrokenKnown'
  BY <1>1, <1>5, <1>6 DEF BrokenKnown, Busy
<1> QED BY <1>7, <1>8, <1>9, <1>10 DEF ConfigInv

\* Where a call without company is.
LEMMA FitsNow ==
    ASSUME ConfigInv, NEW c \in Call, Busy(c), ~mingled
    PROVE  Fits(admin[c], memory, file, clamped)
BY DEF ConfigInv, ConfigTypes, DownAtRest, OneAtWork

LEMMA CheckKeeps ==
    ASSUME ConfigInv, NEW c \in Call, Check(c)
    PROVE  ConfigInv'
<1> DEFINE wish == Head(admin[c].todo)
           w == [admin[c] EXCEPT !.at = "store", !.previous = memory[wish.setting]]
<1>1. /\ admin[c].at = "check" /\ Busy(c)
      /\ UNCHANGED <<memory, file, up, mingled, spoilt, clamped>>
  BY DEF Check, Busy
<1>2. /\ admin[c] \in CallType /\ Shape(admin[c]) /\ memory \in Values /\ file \in File
      /\ spoilt \in BOOLEAN /\ clamped \in BOOLEAN /\ admin[c].todo # <<>>
  BY <1>1, CallIs DEF ConfigInv, ConfigTypes, Shape
<1>3. wish \in WishType /\ wish.setting \in Setting /\ wish.value \in Value
  BY <1>1, <1>2, WishIs
<1>4. ~mingled /\ Readable(file) => Agree(memory, Saved(file), clamped)
  BY <1>1, FitsNow DEF Fits
<1>5. CASE wish.value = Bad
  <2>1. Goes(c, AtRest)
    BY <1>5 DEF Check
  <2>2. ~mingled => Fits(AtRest, memory', file', clamped')
    BY <1>1, <1>4, AtRestType DEF Fits
  <2> QED BY <1>1, <1>2, <2>1, <2>2, AtRestType, CallStep
<1>6. CASE wish.value # Bad /\ memory[wish.setting] = wish.value
           /\ wish.setting \notin Unconditional
  <2>1. Granted(c)
    BY <1>6 DEF Check
  <2> QED BY <1>1, <1>2, <1>4, <2>1, GrantedStep
<1>7. CASE wish.value # Bad /\ ~(memory[wish.setting] = wish.value
                                 /\ wish.setting \notin Unconditional)
  <2>1. Goes(c, w)
    BY <1>7 DEF Check
  <2>2. memory[wish.setting] \in Value \ {Bad}
    BY <1>2, <1>3 DEF Values
  <2>3. /\ w \in CallType /\ w.at = "store" /\ w.todo = admin[c].todo
        /\ w.previous = memory[Head(w.todo).setting]
    BY <1>2, <2>2 DEF CallType
  <2>4. Shape(w)
    BY <1>2, <1>7, <2>3 DEF Shape
  <2> HIDE DEF w
  <2>5. ~mingled => Fits(w, memory', file', clamped')
    BY <1>1, <1>4, <2>3 DEF Fits
  <2> QED BY <1>1, <1>2, <2>1, <2>3, <2>4, <2>5, CallStep
<1> QED BY <1>5, <1>6, <1>7

LEMMA StoreValueKeeps ==
    ASSUME ConfigInv, NEW c \in Call, StoreValue(c)
    PROVE  ConfigInv'
<1> DEFINE wish == Head(admin[c].todo)
           w == [admin[c] EXCEPT !.at = "load"]
<1>1. /\ admin[c].at = "store" /\ Busy(c) /\ Goes(c, w)
      /\ memory' = [memory EXCEPT ![wish.setting] = wish.value]
      /\ UNCHANGED <<file, up, mingled, spoilt, clamped>>
  BY DEF StoreValue, Busy
<1>2. /\ admin[c] \in CallType /\ Shape(admin[c]) /\ memory \in Values /\ file \in File
      /\ spoilt \in BOOLEAN /\ clamped \in BOOLEAN
  BY CallIs DEF ConfigInv, ConfigTypes
<1>3. wish.setting \in Setting /\ wish.value \in Value \ {Bad}
  BY <1>1, <1>2, WishIs DEF Shape
<1>4. memory' \in Values
  BY <1>1, <1>2, <1>3 DEF Values
<1>5. /\ w \in CallType /\ w.at = "load" /\ w.todo = admin[c].todo
      /\ w.previous = admin[c].previous
  BY <1>2 DEF CallType
<1>6. Shape(w)
  BY <1>1, <1>2, <1>5 DEF Shape
<1> HIDE DEF w
<1>7. ~mingled => Fits(w, memory', file', clamped')
  <2> SUFFICES ASSUME ~mingled PROVE Fits(w, memory', file', clamped')
    OBVIOUS
  <2>1. admin[c].previous = memory[wish.setting]
    BY <1>1, FitsNow DEF Fits
  <2>2. Readable(file) => Agree(memory, Saved(file), clamped)
    BY <1>1, FitsNow DEF Fits
  <2>3. memory'[wish.setting] = wish.value
    BY <1>1, <1>2, <1>3 DEF Values
  <2>4. Earlier(w, memory') = memory
    BY <1>1, <1>2, <1>3, <1>5, <2>1 DEF Earlier, Values
  <2> QED BY <1>1, <1>5, <2>2, <2>3, <2>4 DEF Fits
<1> QED BY <1>1, <1>2, <1>4, <1>5, <1>6, <1>7, CallStep

LEMMA LoadFileKeeps ==
    ASSUME ConfigInv, NEW c \in Call, LoadFile(c)
    PROVE  ConfigInv'
<1> DEFINE wish == Head(admin[c].todo)
           loaded == [Saved(file) EXCEPT ![wish.setting] = wish.value]
           w == [admin[c] EXCEPT !.at = "open", !.copy = loaded]
           u == [admin[c] EXCEPT !.at = "undo"]
<1>1. /\ admin[c].at = "load" /\ Busy(c) /\ UNCHANGED <<memory, file, up, mingled, spoilt, clamped>>
      /\ Readable(file) => Goes(c, w)
      /\ ~Readable(file) => Goes(c, u)
  BY DEF LoadFile, Busy, Readable, Saved
<1>2. /\ admin[c] \in CallType /\ Shape(admin[c]) /\ memory \in Values /\ file \in File
      /\ spoilt \in BOOLEAN /\ clamped \in BOOLEAN
  BY CallIs DEF ConfigInv, ConfigTypes
<1>3. wish.setting \in Setting /\ wish.value \in Value \ {Bad}
  BY <1>1, <1>2, WishIs DEF Shape
<1>4. loaded \in Values
  BY <1>2, <1>3, SavedType DEF Values
<1>5. CASE Readable(file)
  <2>1. /\ w \in CallType /\ w.at = "open" /\ w.todo = admin[c].todo
        /\ w.previous = admin[c].previous /\ w.copy = loaded
    BY <1>2, <1>4 DEF CallType
  <2>2. Shape(w)
    BY <1>1, <1>2, <2>1 DEF Shape
  <2> HIDE DEF w
  <2>3. ~mingled => Fits(w, memory', file', clamped')
    <3> SUFFICES ASSUME ~mingled PROVE Fits(w, memory', file', clamped')
      OBVIOUS
    <3>1. memory[wish.setting] = wish.value /\ Agree(Earlier(admin[c], memory), Saved(file), clamped)
      BY <1>1, <1>5, FitsNow DEF Fits
    <3>2. Earlier(w, memory) = Earlier(admin[c], memory)
      BY <2>1 DEF Earlier
    <3> QED BY <1>1, <1>5, <2>1, <3>1, <3>2 DEF Fits
  <2> QED BY <1>1, <1>2, <1>5, <2>1, <2>2, <2>3, CallStep
<1>6. CASE ~Readable(file)
  <2>1. u \in CallType /\ u.at = "undo" /\ u.todo = admin[c].todo
    BY <1>2 DEF CallType
  <2>2. Shape(u)
    BY <1>1, <1>2, <2>1 DEF Shape
  <2> HIDE DEF u
  <2>3. Fits(u, memory', file', clamped')
    BY <1>1, <1>6, <2>1 DEF Fits
  <2> QED BY <1>1, <1>2, <1>6, <2>1, <2>2, <2>3, CallStep
<1> QED BY <1>5, <1>6

LEMMA OpenFileKeeps ==
    ASSUME ConfigInv, NEW c \in Call, OpenFile(c)
    PROVE  ConfigInv'
<1> DEFINE w == [admin[c] EXCEPT !.at = "fill"]
<1>1. /\ admin[c].at = "open" /\ Busy(c) /\ Goes(c, w) /\ UNCHANGED <<memory, up, mingled, spoilt, clamped>>
      /\ file' = [file EXCEPT !.state = "empty"]
  BY DEF OpenFile, Busy
<1>2. /\ admin[c] \in CallType /\ Shape(admin[c]) /\ memory \in Values /\ file \in File
      /\ spoilt \in BOOLEAN /\ clamped \in BOOLEAN
  BY CallIs DEF ConfigInv, ConfigTypes
<1>3. file' \in File /\ file'.state = "empty"
  BY <1>1, <1>2 DEF File
<1>4. w \in CallType /\ w.at = "fill" /\ w.todo = admin[c].todo /\ w.copy = admin[c].copy
  BY <1>2 DEF CallType
<1>5. Shape(w)
  BY <1>1, <1>2, <1>4 DEF Shape
<1> HIDE DEF w
<1>6. ~mingled => Fits(w, memory', file', clamped')
  <2> DEFINE wish == Head(admin[c].todo)
             cl == clamped /\ wish.setting # "floorRatio"
  <2> SUFFICES ASSUME ~mingled PROVE Agree(memory, admin[c].copy, cl)
    BY <1>1, <1>3, <1>4 DEF Fits
  <2>1. /\ Readable(file) /\ Agree(Earlier(admin[c], memory), Saved(file), clamped)
        /\ memory[wish.setting] = wish.value
        /\ admin[c].copy = [Saved(file) EXCEPT ![wish.setting] = wish.value]
    BY <1>1, FitsNow DEF Fits
  <2>2. wish.setting \in Setting /\ Saved(file) \in Values
    BY <1>1, <1>2, WishIs, SavedType
  <2>3. ASSUME NEW s \in Setting
        PROVE  IF s = "floorRatio" /\ cl THEN memory[s] < admin[c].copy[s]
               ELSE memory[s] = admin[c].copy[s]
    <3>1. CASE s = wish.setting
      BY <2>1, <2>2, <3>1 DEF Values
    <3>2. CASE s # wish.setting
      <4>1. Earlier(admin[c], memory)[s] = memory[s] /\ admin[c].copy[s] = Saved(file)[s]
        BY <1>2, <2>1, <2>2, <3>2 DEF Earlier, Values
      <4>2. IF s = "floorRatio" /\ clamped THEN memory[s] < Saved(file)[s]
            ELSE memory[s] = Saved(file)[s]
        BY <2>1, <4>1 DEF Agree
      <4> QED BY <3>2, <4>1, <4>2
    <3> QED BY <3>1, <3>2
  <2> QED BY <2>3 DEF Agree
<1> QED BY <1>1, <1>2, <1>3, <1>4, <1>5, <1>6, CallStep

LEMMA FillFileKeeps ==
    ASSUME ConfigInv, NEW c \in Call, FillFile(c)
    PROVE  ConfigInv'
<1>1. admin[c].at = "fill" /\ Busy(c) /\ Granted(c) /\ UNCHANGED <<memory, up, mingled>>
  BY DEF FillFile, Busy
<1>2. /\ admin[c] \in CallType /\ memory \in Values /\ file \in File /\ spoilt \in BOOLEAN /\ clamped \in BOOLEAN
  BY CallIs DEF ConfigInv, ConfigTypes
<1>3. ~mingled => /\ file.state = "empty"
                 /\ Agree(memory, admin[c].copy,
                          clamped /\ Head(admin[c].todo).setting # "floorRatio")
  BY <1>1, FitsNow DEF Fits
<1>4. CASE /\ file' = [state |-> "intact", values |-> admin[c].copy] /\ UNCHANGED spoilt
           /\ clamped' = (clamped /\ Head(admin[c].todo).setting # "floorRatio")
  <2>1. file' \in File /\ file'.state = "intact" /\ file'.values = admin[c].copy
    BY <1>2, <1>4 DEF File, CallType
  <2>2. Saved(file') = admin[c].copy /\ ~Broken(file')
    BY <2>1 DEF Saved, Broken
  <2> QED BY <1>1, <1>2, <1>3, <1>4, <2>1, <2>2, GrantedStep
<1>5. CASE /\ file.state # "empty" /\ file' = [file EXCEPT !.state = "torn"] /\ spoilt' = TRUE
           /\ UNCHANGED clamped
  <2>1. file' \in File
    BY <1>2, <1>5 DEF File
  <2> QED BY <1>1, <1>2, <1>3, <1>5, <2>1, GrantedStep
<1> QED BY <1>4, <1>5 DEF FillFile

LEMMA FileFailsKeeps ==
    ASSUME ConfigInv, NEW c \in Call, FileFails(c)
    PROVE  ConfigInv'
<1> DEFINE wish == Head(admin[c].todo)
           u == [admin[c] EXCEPT !.at = "undo"]
<1>1. /\ admin[c].at \in {"load", "open", "fill"} /\ Busy(c) /\ Goes(c, u)
      /\ UNCHANGED <<memory, up, mingled, clamped>>
  BY DEF FileFails, Busy
<1>2. /\ admin[c] \in CallType /\ Shape(admin[c]) /\ memory \in Values /\ file \in File
      /\ spoilt \in BOOLEAN /\ clamped \in BOOLEAN
  BY CallIs DEF ConfigInv, ConfigTypes
<1>3. wish.setting \in Setting /\ wish.value \in Value
  BY <1>1, <1>2, WishIs
<1>4. /\ u \in CallType /\ u.at = "undo" /\ u.todo = admin[c].todo
      /\ u.previous = admin[c].previous
  BY <1>2 DEF CallType
<1>5. Shape(u)
  BY <1>1, <1>2, <1>4 DEF Shape
<1> HIDE DEF u
<1>6. CASE admin[c].at = "fill"
  <2>1. file' \in {[file EXCEPT !.state = "torn"], file} /\ spoilt' = TRUE
    BY <1>6 DEF FileFails
  <2>2. file' \in File /\ file'.state \in {"torn", file.state}
    BY <1>2, <2>1 DEF File
  <2>3. ~mingled => ~Readable(file')
    BY <1>1, <1>6, <2>2, FitsNow DEF Fits, Readable
  <2>4. ~mingled => Fits(u, memory', file', clamped')
    BY <1>4, <2>3 DEF Fits
  <2> QED BY <1>1, <1>2, <1>4, <1>5, <2>1, <2>2, <2>4, CallStep
<1>7. CASE admin[c].at \in {"load", "open"}
  <2>1. UNCHANGED <<file, spoilt>>
    BY <1>7 DEF FileFails
  <2>2. ~mingled => Fits(u, memory', file', clamped')
    <3> SUFFICES ASSUME ~mingled, Readable(file) PROVE Fits(u, memory', file', clamped')
      BY <1>4, <2>1 DEF Fits
    <3>1. Agree(Earlier(admin[c], memory), Saved(file), clamped)
      BY <1>1, <1>7, FitsNow DEF Fits
    <3>2. Earlier(u, memory) = Earlier(admin[c], memory)
      BY <1>4 DEF Earlier
    <3> QED BY <1>1, <1>4, <2>1, <3>1, <3>2 DEF Fits
  <2> QED BY <1>1, <1>2, <1>4, <1>5, <1>7, <2>1, <2>2, CallStep
<1> QED BY <1>1, <1>6, <1>7

LEMMA UndoKeeps ==
    ASSUME ConfigInv, NEW c \in Call, Undo(c)
    PROVE  ConfigInv'
<1> DEFINE wish == Head(admin[c].todo)
<1>1. /\ admin[c].at = "undo" /\ Busy(c) /\ Goes(c, AtRest)
      /\ memory' = [memory EXCEPT ![wish.setting] = admin[c].previous]
      /\ UNCHANGED <<file, up, mingled, spoilt, clamped>>
  BY DEF Undo, Busy
<1>2. /\ admin[c] \in CallType /\ Shape(admin[c]) /\ memory \in Values /\ file \in File
      /\ spoilt \in BOOLEAN /\ clamped \in BOOLEAN
  BY CallIs DEF ConfigInv, ConfigTypes
<1>3. wish.setting \in Setting /\ admin[c].previous \in Value \ {Bad}
  BY <1>1, <1>2, WishIs DEF CallType
<1>4. memory' \in Values
  BY <1>1, <1>2, <1>3 DEF Values
<1>5. ~mingled => Fits(AtRest, memory', file', clamped')
  <2> SUFFICES ASSUME ~mingled, Readable(file) PROVE Agree(memory', Saved(file), clamped)
    BY <1>1, AtRestType DEF Fits
  <2>1. Agree(Earlier(admin[c], memory), Saved(file), clamped)
    BY <1>1, FitsNow DEF Fits
  <2> QED BY <1>1, <2>1 DEF Earlier
<1> QED BY <1>1, <1>2, <1>4, <1>5, AtRestType, CallStep

-----------------------------------------------------------------------------
(* The server, and the specification. *)

LEMMA CrashKeeps ==
    ASSUME ConfigInv, Crash
    PROVE  ConfigInv'
<1>1. /\ UNCHANGED <<memory, file, mingled, clamped>> /\ up' = FALSE
      /\ spoilt' = (spoilt \/ \E c \in Call : admin[c].at = "fill")
      /\ admin' = [c \in Call |-> AtRest]
  BY DEF Crash
<1>2. ConfigTypes /\ BrokenKnown
  BY DEF ConfigInv
<1>3. ConfigTypes' /\ DownAtRest'
  BY <1>1, <1>2, AtRestType DEF ConfigTypes, DownAtRest, Busy
<1>4. OneAtWork' /\ BrokenKnown'
  BY <1>1, <1>2 DEF OneAtWork, BrokenKnown
<1> QED BY <1>3, <1>4 DEF ConfigInv

\* A start takes the file's values, and lowers a floor ratio that is above the cap ratio.
LEMMA StartAgrees ==
    ASSUME NEW values \in Values
    PROVE  /\ AtStart(values) \in Values /\ AboveCap(values) \in BOOLEAN
           /\ Agree(AtStart(values), values, AboveCap(values))
<1>1. "capRatio" \in Setting /\ "floorRatio" \in Setting
  BY ConfigAssumption
<1>2. \A s \in Setting : values[s] \in Nat
  BY DEF Values, Value
<1>3. AtStart(values) \in Values
  BY <1>1 DEF AtStart, Values
<1>4. CASE AboveCap(values)
  <2>1. AtStart(values) = [values EXCEPT !["floorRatio"] = values["capRatio"]]
    BY <1>4 DEF AtStart
  <2>2. values["capRatio"] < values["floorRatio"]
    BY <1>1, <1>2, <1>4 DEF AboveCap
  <2>3. /\ AtStart(values)["floorRatio"] = values["capRatio"]
        /\ \A s \in Setting \ {"floorRatio"} : AtStart(values)[s] = values[s]
    BY <1>1, <2>1 DEF Values
  <2> QED BY <1>3, <1>4, <2>2, <2>3 DEF Agree, AboveCap
<1>5. CASE ~AboveCap(values)
  BY <1>3, <1>5 DEF AtStart, Agree, AboveCap
<1> QED BY <1>4, <1>5

LEMMA StartServerKeeps ==
    ASSUME ConfigInv, StartServer
    PROVE  ConfigInv'
<1>1. /\ UNCHANGED <<file, admin, spoilt>> /\ up' = TRUE /\ mingled' = FALSE
      /\ memory' = AtStart(Saved(file)) /\ clamped' = AboveCap(Saved(file))
      /\ ~up /\ Readable(file)
  BY DEF StartServer, Saved, Readable
<1>2. ConfigTypes /\ \A c \in Call : ~Busy(c)
  BY <1>1 DEF ConfigInv, DownAtRest
<1>3. /\ memory' \in Values /\ clamped' \in BOOLEAN
      /\ Agree(memory', Saved(file), clamped')
  BY <1>1, <1>2, SavedType, StartAgrees DEF ConfigTypes
<1>4. ConfigTypes'
  BY <1>1, <1>2, <1>3 DEF ConfigTypes
<1>5. Fits(AtRest, memory', file', clamped')
  BY <1>1, <1>3, AtRestType DEF Fits
<1>6. \A c \in Call : ~(Busy(c))'
  BY <1>1, <1>2 DEF Busy
<1>7. OneAtWork'
  BY <1>5, <1>6 DEF OneAtWork
<1>8. DownAtRest' /\ BrokenKnown'
  BY <1>1 DEF DownAtRest, BrokenKnown, Broken, Readable
<1> QED BY <1>4, <1>7, <1>8 DEF ConfigInv

LEMMA ConfigStart ==
    ASSUME ConfigInit
    PROVE  ConfigInv
<1>1. file \in File /\ Readable(file) /\ Saved(file) = file.values /\ ~Broken(file)
  BY DefaultsType DEF ConfigInit, File, Readable, Saved, Broken
<1>2. /\ memory = AtStart(file.values) /\ clamped = AboveCap(file.values)
      /\ admin = [c \in Call |-> AtRest] /\ up /\ up \in BOOLEAN
      /\ mingled = FALSE /\ spoilt = FALSE
  BY DEF ConfigInit
<1>3. /\ memory \in Values /\ clamped \in BOOLEAN
      /\ Agree(memory, Saved(file), clamped)
  BY <1>1, <1>2, SavedType, StartAgrees
<1>4. ConfigTypes /\ DownAtRest /\ \A c \in Call : ~Busy(c)
  BY <1>1, <1>2, <1>3, AtRestType DEF ConfigTypes, DownAtRest, Busy
<1>5. Fits(AtRest, memory, file, clamped)
  BY <1>3, AtRestType DEF Fits
<1>6. OneAtWork /\ BrokenKnown
  BY <1>1, <1>4, <1>5 DEF OneAtWork, BrokenKnown
<1> QED BY <1>4, <1>6 DEF ConfigInv

LEMMA ConfigStep ==
    ASSUME ConfigInv, [ConfigNext]_configVars
    PROVE  ConfigInv'
<1>1. CASE UNCHANGED configVars
  BY <1>1 DEF configVars, ConfigInv, ConfigTypes, DownAtRest, OneAtWork, BrokenKnown, Busy
<1>2. CASE \E c \in Call : \/ Ask(c) \/ Check(c) \/ StoreValue(c) \/ LoadFile(c) \/ OpenFile(c)
                           \/ FillFile(c) \/ FileFails(c) \/ Undo(c)
  BY <1>2, AskKeeps, CheckKeeps, StoreValueKeeps, LoadFileKeeps, OpenFileKeeps, FillFileKeeps,
     FileFailsKeeps, UndoKeeps
<1>3. CASE Crash \/ StartServer
  BY <1>3, CrashKeeps, StartServerKeeps
<1> QED BY <1>1, <1>2, <1>3 DEF ConfigNext

\* The inductive invariant of the setters, crashes and restarts (token_manager.rs:2336-2355,
\* model/config.rs).
THEOREM ConfigInvariant == ConfigSpec => []ConfigInv
<1>1. ConfigInit => ConfigInv
  BY ConfigStart
<1>2. ConfigInv /\ [ConfigNext]_configVars => ConfigInv'
  BY ConfigStep
<1> QED BY <1>1, <1>2, PTL DEF ConfigSpec

\* The settings, the file and the calls keep their types.
THEOREM ConfigTyped == ConfigSpec => []ConfigTypeOK
<1>1. ConfigInv => ConfigTypeOK
  BY DEF ConfigInv, ConfigTypes, CallType, ConfigTypeOK
<1> QED BY <1>1, ConfigInvariant, PTL

LEMMA SettingsFollow ==
    ASSUME ConfigInv
    PROVE  SettingsFollowFile
<1> DEFINE Wanted(s) == \E c \in Call : admin[c].todo # <<>> /\ Head(admin[c].todo).setting = s
<1>1. ASSUME up, ~mingled, Readable(file), NEW s \in Setting, ~Wanted(s)
      PROVE  IF s = "floorRatio" /\ clamped THEN memory[s] < Saved(file)[s]
             ELSE memory[s] = Saved(file)[s]
  <2>1. CASE \A c \in Call : ~Busy(c)
    <3>1. Agree(memory, Saved(file), clamped)
      BY <1>1, <2>1, AtRestType DEF ConfigInv, OneAtWork, Fits
    <3> QED BY <3>1 DEF Agree
  <2>2. CASE \E c \in Call : Busy(c)
    <3>1. PICK c \in Call : Busy(c)
      BY <2>2
    <3>2. admin[c] \in CallType /\ Shape(admin[c]) /\ admin[c].at # "rest"
      BY <3>1, CallIs DEF ConfigInv, Busy
    <3>3. Fits(admin[c], memory, file, clamped)
      BY <1>1, <3>1, FitsNow
    <3>4. Head(admin[c].todo).setting # s
      BY <1>1, <3>2 DEF Shape
    <3>5. memory \in Values
      BY DEF ConfigInv, ConfigTypes
    <3>6. CASE admin[c].at \in {"check", "store"}
      <4>1. Agree(memory, Saved(file), clamped)
        BY <1>1, <3>3, <3>6 DEF Fits
      <4> QED BY <4>1 DEF Agree
    <3>7. CASE admin[c].at \in {"load", "open", "undo"}
      <4>1. Agree(Earlier(admin[c], memory), Saved(file), clamped)
        BY <1>1, <3>3, <3>7 DEF Fits
      <4>2. Earlier(admin[c], memory)[s] = memory[s]
        BY <3>4, <3>5 DEF Earlier, Values
      <4> QED BY <4>1, <4>2 DEF Agree
    <3>8. CASE admin[c].at = "fill"
      BY <1>1, <3>3, <3>8 DEF Fits, Readable
    <3> QED BY <3>2, <3>6, <3>7, <3>8 DEF CallType
  <2> QED BY <2>1, <2>2
<1>2. Broken(file) => spoilt \/ \E c \in Call : admin[c].at = "fill"
  BY DEF ConfigInv, BrokenKnown
<1> QED BY <1>1, <1>2 DEF SettingsFollowFile, Readable, Saved, Broken

\* Between calls that did not overlap the server runs with the settings of the file, but for
\* a floor ratio that the start found above the cap ratio: it runs with a lower one until
\* another is set (token_manager.rs:710, 2347-2350).  The file can be read unless a write
\* broke off in it.
THEOREM SettingsAreSaved == ConfigSpec => []SettingsFollowFile
<1>1. ConfigInv => SettingsFollowFile
  BY SettingsFollow
<1> QED BY <1>1, ConfigInvariant, PTL
=============================================================================
