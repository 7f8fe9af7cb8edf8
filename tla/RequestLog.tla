----------------------------- MODULE RequestLog -----------------------------
(***************************************************************************)
(* The request log: the handlers' record builders, the channel, the writer *)
(* thread and its table (db/recorder.rs, db/writer.rs, db/schema.rs, and   *)
(* the places of anthropic/handlers.rs where a record is finished or       *)
(* dropped).  A builder that is dropped writes nothing.                    *)
(***************************************************************************)
EXTENDS Naturals, Sequences, FiniteSets

CONSTANTS MaxRecords,       \* config: rows the log keeps
          TrimEvery,        \* TRIM_EVERY (50)
          MaxBegun,         \* bound of the requests of a run
          MaxOpen,          \* bound of the requests handled at once
          MaxLogFaults      \* bound of restarts and database errors together

ASSUME LogAssumption == MaxRecords \in Nat /\ TrimEvery \in Nat \ {0}

VARIABLES errorsOnly,  \* config: LogMode
          calls,       \* the requests begun: [stage, path, ts], the path only of those
                       \* that ended without a record
          channel,     \* records sent and not yet received
          writer,      \* [at, rec]: where the writer thread is and its record, 0 if none
          rows,        \* requests in the table
          sinceTrim,   \* written_since_trim
          written,     \* ghost: requests ever inserted
          missed,      \* ghost: requests whose record an error or a restart took
          restarts,
          failedTrims  \* ghosts: how often

logVars == <<errorsOnly, calls, channel, writer, rows, sinceTrim, written, missed,
             restarts, failedTrims>>

Request == 1 .. Len(calls)
Open == {c \in Request : calls[c].stage = "open"}

\* "stream", "whole" and "search" are answers of /v1/messages; "buffered" is the stream
\* of /cc/v1/messages.
Path == {"stream", "whole", "buffered", "search"}

\* What ends a request: it is refused before it is sent; no credential serves it; its body
\* breaks off; the upstream service fails inside the body; all is well; the client leaves.
Ending == {"refused", "unserved", "broken", "failed", "good", "gone"}

\* The record that is written, "none" when the builder is dropped.
RecordOf(path, ending) ==
    IF ending = "refused" THEN "error"
    ELSE IF path = "search" THEN "success"
    ELSE IF ending = "gone" \/ path = "buffered" THEN "none"
    ELSE IF ending = "good" THEN "success"
    ELSE IF path = "whole" THEN CASE ending = "unserved" -> "error"
                                  [] ending = "broken"   -> "none"
                                  [] OTHER               -> "success"
    ELSE "error"

Faults == restarts + failedTrims + Cardinality(missed)

-----------------------------------------------------------------------------
(* Handlers. *)

\* The record's time is that of the request's begin.
Begin ==
    /\ Len(calls) < MaxBegun /\ Cardinality(Open) < MaxOpen
    /\ \E later \in {0, 1} :
          calls' = Append(calls,
                          [stage |-> "open", path |-> "",
                           ts |-> later + IF calls = <<>> THEN 0 ELSE calls[Len(calls)].ts])
    /\ UNCHANGED <<errorsOnly, channel, writer, rows, sinceTrim, written, missed, restarts,
                   failedTrims>>

\* LogRecorder::record does not wait; when the writer is gone the record is missed.
Answer(c, path, ending) ==
    LET kind == RecordOf(path, ending)
    IN  /\ c \in Open
        /\ calls' = [calls EXCEPT
               ![c].stage = IF kind = "none" /\ ending = "gone" THEN "gone" ELSE kind,
               ![c].path  = IF kind = "none" /\ ending # "gone" THEN path ELSE ""]
        /\ IF kind = "none" THEN UNCHANGED <<channel, missed>>
           ELSE IF writer.at = "gone" THEN missed' = missed \cup {c} /\ UNCHANGED channel
           ELSE channel' = Append(channel, c) /\ UNCHANGED missed
        /\ UNCHANGED <<errorsOnly, writer, rows, sinceTrim, written, restarts, failedTrims>>

-----------------------------------------------------------------------------
(* The writer thread. *)

Idle == [at |-> "recv", rec |-> 0]

TakeRecord ==
    LET c == Head(channel)
    IN  /\ writer.at = "recv" /\ channel # <<>>
        /\ channel' = Tail(channel)
        /\ writer' = IF errorsOnly /\ calls[c].stage = "success" THEN Idle
                     ELSE [at |-> "insert", rec |-> c]
        /\ UNCHANGED <<errorsOnly, calls, rows, sinceTrim, written, missed, restarts, failedTrims>>

\* When the log is trimmed.
Inserted(n) == IF n >= TrimEvery THEN "trim" ELSE "recv"

Insert ==
    /\ writer.at = "insert"
    /\ \/ /\ rows' = rows \cup {writer.rec}
          /\ written' = written \cup {writer.rec}
          /\ sinceTrim' = sinceTrim + 1
          /\ writer' = [at |-> Inserted(sinceTrim'), rec |-> 0]
          /\ UNCHANGED missed
       \/ /\ Faults < MaxLogFaults
          /\ missed' = missed \cup {writer.rec}
          /\ writer' = Idle
          /\ UNCHANGED <<rows, written, sinceTrim>>
    /\ UNCHANGED <<errorsOnly, calls, channel, restarts, failedTrims>>

\* Mutation of Excess: the newest rows are deleted.
ExcessNewest(n) ==
    {old \in SUBSET rows :
        /\ Cardinality(old) = n
        /\ \A x \in old, y \in rows \ old : calls[x].ts >= calls[y].ts}

\* Mutation of Excess: one row too few.
ExcessButOne(n) ==
    {old \in SUBSET rows :
        /\ Cardinality(old) = IF n = 0 THEN 0 ELSE n - 1
        /\ \A x \in old, y \in rows \ old : calls[x].ts <= calls[y].ts}

\* The n oldest rows, of equals any.
Excess(n) ==
    {old \in SUBSET rows :
        /\ Cardinality(old) = n
        /\ \A x \in old, y \in rows \ old : calls[x].ts <= calls[y].ts}

Trim ==
    LET n == Cardinality(rows)
    IN  /\ writer.at = "trim"
        /\ \/ /\ \E old \in Excess(IF n > MaxRecords THEN n - MaxRecords ELSE 0) : rows' = rows \ old
              /\ UNCHANGED failedTrims
           \/ /\ Faults < MaxLogFaults
              /\ failedTrims' = failedTrims + 1
              /\ UNCHANGED rows
        /\ writer' = Idle
        /\ sinceTrim' = 0
        /\ UNCHANGED <<errorsOnly, calls, channel, written, missed, restarts>>

\* The process stops and starts: only the table survives.  The new writer ends at once
\* when it cannot open the database.
Restart ==
    /\ Faults < MaxLogFaults
    /\ restarts' = restarts + 1
    /\ calls' = [c \in Request |-> IF c \in Open THEN [calls[c] EXCEPT !.stage = "gone"] ELSE calls[c]]
    /\ missed' = missed \cup {channel[i] : i \in DOMAIN channel} \cup ({writer.rec} \ {0})
    /\ channel' = <<>>
    /\ writer' \in {Idle, [at |-> "gone", rec |-> 0]}
    /\ sinceTrim' = 0
    /\ UNCHANGED <<errorsOnly, rows, written, failedTrims>>

LogInit ==
    /\ errorsOnly \in BOOLEAN
    /\ calls = <<>> /\ channel = <<>> /\ writer = Idle
    /\ rows = {} /\ sinceTrim = 0
    /\ written = {} /\ missed = {} /\ restarts = 0 /\ failedTrims = 0

LogNext ==
    \/ Begin
    \/ \E c \in Open, path \in Path, ending \in Ending : Answer(c, path, ending)
    \/ TakeRecord \/ Insert \/ Trim \/ Restart

LogSpec == LogInit /\ [][LogNext]_logVars

-----------------------------------------------------------------------------
(* Properties. *)

\* The types of the variables.
LogTypeOK ==
    /\ \A c \in Request : calls[c].stage \in {"open", "none", "gone", "error", "success"}
    /\ channel \in Seq(Request) /\ writer.rec \in {0} \cup Request
    /\ writer.at \in {"recv", "insert", "trim", "gone"}
    /\ rows \subseteq written /\ written \subseteq Request /\ missed \subseteq Request

\* The table stays near its size (writer.rs:20-21): beyond MaxRecords there are only the
\* rows since the last trim, TrimEvery - 1 of them and one more just before the trim, and
\* TrimEvery for each trim that failed and for each restart: a restart forgets how many
\* rows there were, and may come between the insertion and the trim that was due.
LogBounded ==
    Cardinality(rows) <= MaxRecords + (TrimEvery - 1) + TrimEvery * (restarts + failedTrims)
                                    + (IF writer.at = "trim" THEN 1 ELSE 0)

\* A request that was answered is in the log or on its way to it, unless an error or a
\* restart took its record, or as many records that are no older were written
\* (handlers.rs:515-517).  The exceptions are the answers whose builder is dropped: those of
\* the buffered stream, those of a body that breaks off and is not streamed, and
\* those whose client has gone.
AnsweredIsLogged ==
    \A c \in Request \ Open :
        \/ calls[c].stage = "gone"
        \/ calls[c].stage = "none" /\ calls[c].path \in {"buffered", "whole"}
        \/ calls[c].stage = "success" /\ errorsOnly
        \/ c \in missed \cup rows \cup {writer.rec} \cup {channel[i] : i \in DOMAIN channel}
        \/ Cardinality({d \in written \ {c} : calls[d].ts >= calls[c].ts}) >= MaxRecords
=============================================================================
