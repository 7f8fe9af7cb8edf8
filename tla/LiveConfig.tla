----------------------------- MODULE LiveConfig -----------------------------
(***************************************************************************)
(* The settings that an operator changes while the server runs             *)
(* (update_scheduling of admin/service.rs): each setter changes the value  *)
(* in memory, then loads, changes and saves the configuration file         *)
(* (model/config.rs), and takes the value in memory back when that fails.  *)
(* Setters of several calls interleave; the server crashes and restarts.   *)
(***************************************************************************)
EXTENDS Naturals, Sequences

CONSTANTS Setting,
          Unconditional,  \* those whose setter writes an unchanged value too
          Call,           \* concurrent calls of the Admin API
          Wishes,         \* what a call asks for: sequences of [setting, value]
          MaxCalls,       \* bound of the calls of a run
          MaxFileFaults   \* bound of crashes and failed file operations

VARIABLES memory,    \* setting -> its value, 0 is the default
          file,      \* [state, values]
          admin,     \* call -> what it is doing
          up,        \* does the server run?
          begun, fileFaults,
          mingled,   \* ghost: two calls overlapped since the last start
          spoilt,    \* ghost: a write broke off, by an error, a crash or among two calls
          clamped    \* ghost: the last start lowered the floor ratio, not set since

configVars == <<memory, file, admin, up, begun, fileFaults, mingled, spoilt, clamped>>

Value  == 0 .. 2
Bad    == 2   \* a value update_scheduling refuses

ASSUME ConfigAssumption ==
    /\ Wishes \subseteq Seq([setting : Setting, value : Value]) \ {<<>>}
    /\ {"capRatio", "floorRatio"} \subseteq Setting

Values == [Setting -> Value \ {Bad}]
File   == [state : {"missing", "empty", "torn", "intact"}, values : Values]
Defaults == [s \in Setting |-> 0]

\* MultiTokenManager::new keeps the floor ratio at or below the cap ratio; the setters do not.
AboveCap(values) == values["floorRatio"] > values["capRatio"]
AtStart(values)  ==
    IF AboveCap(values) THEN [values EXCEPT !["floorRatio"] = values["capRatio"]] ELSE values

AtRest == [at |-> "rest", todo |-> <<>>, previous |-> 0, copy |-> Defaults]
Busy(c) == admin[c].at # "rest"

Goes(c, doing) == admin' = [admin EXCEPT ![c] = doing]

\* The call goes on with its next wish, or is over.
Granted(c) ==
    LET rest == Tail(admin[c].todo)
    IN  Goes(c, IF rest = <<>> THEN AtRest ELSE [AtRest EXCEPT !.at = "check", !.todo = rest])

-----------------------------------------------------------------------------
(* A call. *)

Ask(c) ==
    /\ up /\ ~Busy(c) /\ begun < MaxCalls
    /\ begun' = begun + 1
    /\ \E w \in Wishes : Goes(c, [AtRest EXCEPT !.at = "check", !.todo = w])
    /\ mingled' = (mingled \/ \E d \in Call : Busy(d))
    /\ UNCHANGED <<memory, file, up, fileFaults, spoilt, clamped>>

\* A value out of range ends the call, the wishes before it stay granted.  The previous
\* value is remembered; an unchanged one is not written.
Check(c) ==
    LET wish == Head(admin[c].todo)
    IN  /\ admin[c].at = "check"
        /\ IF wish.value = Bad THEN Goes(c, AtRest)
           ELSE IF memory[wish.setting] = wish.value /\ wish.setting \notin Unconditional
                THEN Granted(c)
           ELSE Goes(c, [admin[c] EXCEPT !.at = "store", !.previous = memory[wish.setting]])
        /\ UNCHANGED <<memory, file, up, begun, fileFaults, mingled, spoilt, clamped>>

StoreValue(c) ==
    LET wish == Head(admin[c].todo)
    IN  /\ admin[c].at = "store"
        /\ memory' = [memory EXCEPT ![wish.setting] = wish.value]
        /\ Goes(c, [admin[c] EXCEPT !.at = "load"])
        /\ UNCHANGED <<file, up, begun, fileFaults, mingled, spoilt, clamped>>

\* Config::load: a missing file counts as the defaults.
LoadFile(c) ==
    LET wish == Head(admin[c].todo)
        base == IF file.state = "missing" THEN Defaults ELSE file.values
    IN  /\ admin[c].at = "load"
        /\ IF file.state \in {"missing", "intact"}
           THEN Goes(c, [admin[c] EXCEPT !.at = "open",
                                         !.copy = [base EXCEPT ![wish.setting] = wish.value]])
           ELSE Goes(c, [admin[c] EXCEPT !.at = "undo"])
        /\ UNCHANGED <<memory, file, up, begun, fileFaults, mingled, spoilt, clamped>>

\* fs::write empties the file, then fills it.
OpenFile(c) ==
    /\ admin[c].at = "open"
    /\ file' = [file EXCEPT !.state = "empty"]
    /\ Goes(c, [admin[c] EXCEPT !.at = "fill"])
    /\ UNCHANGED <<memory, up, begun, fileFaults, mingled, spoilt, clamped>>

\* Over the text of another call, of another length, the tail of that one may remain.
FillFile(c) ==
    /\ admin[c].at = "fill"
    /\ \/ /\ file' = [state |-> "intact", values |-> admin[c].copy]
          /\ clamped' = (clamped /\ Head(admin[c].todo).setting # "floorRatio")
          /\ UNCHANGED spoilt
       \/ /\ file.state # "empty"
          /\ file' = [file EXCEPT !.state = "torn"]
          /\ spoilt' = TRUE
          /\ UNCHANGED clamped
    /\ Granted(c)
    /\ UNCHANGED <<memory, up, begun, fileFaults, mingled>>

\* Reading, opening or filling the file fails.
FileFails(c) ==
    /\ fileFaults < MaxFileFaults
    /\ fileFaults' = fileFaults + 1
    /\ admin[c].at \in {"load", "open", "fill"}
    /\ IF admin[c].at = "fill"
       THEN /\ file' \in {[file EXCEPT !.state = "torn"], file}
            /\ spoilt' = TRUE
       ELSE UNCHANGED <<file, spoilt>>
    /\ Goes(c, [admin[c] EXCEPT !.at = "undo"])
    /\ UNCHANGED <<memory, up, begun, mingled, clamped>>

\* Mutation of Undo: the value in memory is left as it is.
UndoNothing(c) ==
    /\ admin[c].at = "undo"
    /\ Goes(c, AtRest)
    /\ UNCHANGED <<memory, file, up, begun, fileFaults, mingled, spoilt, clamped>>

\* The setter takes its value back, and the call ends with an error.
Undo(c) ==
    /\ admin[c].at = "undo"
    /\ memory' = [memory EXCEPT ![Head(admin[c].todo).setting] = admin[c].previous]
    /\ Goes(c, AtRest)
    /\ UNCHANGED <<file, up, begun, fileFaults, mingled, spoilt, clamped>>

-----------------------------------------------------------------------------
(* The server. *)

Crash ==
    /\ up /\ fileFaults < MaxFileFaults
    /\ fileFaults' = fileFaults + 1
    /\ up' = FALSE
    /\ spoilt' = (spoilt \/ \E c \in Call : admin[c].at = "fill")
    /\ admin' = [c \in Call |-> AtRest]
    /\ UNCHANGED <<memory, file, begun, mingled, clamped>>

\* main loads the configuration, and exits when it cannot be read; the manager takes its values.
StartServer ==
    LET saved == IF file.state = "missing" THEN Defaults ELSE file.values
    IN  /\ ~up /\ file.state \in {"missing", "intact"}
        /\ up' = TRUE
        /\ memory' = AtStart(saved)
        /\ clamped' = AboveCap(saved)
        /\ mingled' = FALSE
        /\ UNCHANGED <<file, admin, begun, fileFaults, spoilt>>

\* The server has just started, from any file that can be read.
ConfigInit ==
    /\ file \in {[state |-> "missing", values |-> Defaults]}
               \cup [state : {"intact"}, values : Values]
    /\ memory = AtStart(file.values) /\ clamped = AboveCap(file.values)
    /\ admin = [c \in Call |-> AtRest]
    /\ up = TRUE /\ begun = 0 /\ fileFaults = 0
    /\ mingled = FALSE /\ spoilt = FALSE

ConfigNext ==
    \/ \E c \in Call :
          \/ Ask(c) \/ Check(c) \/ StoreValue(c) \/ LoadFile(c) \/ OpenFile(c)
          \/ FillFile(c) \/ FileFails(c) \/ Undo(c)
    \/ Crash \/ StartServer

ConfigSpec == ConfigInit /\ [][ConfigNext]_configVars

-----------------------------------------------------------------------------
(* Properties. *)

\* The types of the variables.
ConfigTypeOK ==
    /\ memory \in Values /\ file \in File
    /\ \A c \in Call : /\ admin[c].at \in {"rest", "check", "store", "load", "open", "fill", "undo"}
                       /\ admin[c].copy \in Values /\ admin[c].previous \in Value \ {Bad}
    /\ {up, mingled, spoilt, clamped} \subseteq BOOLEAN

\* What the server runs with is what the file holds (token_manager.rs:2347-2350, the
\* rollback): between calls that did not overlap, whatever failed, and for each setting that
\* no call has touched.  The one exception is the floor ratio: a start lowers one above the
\* cap ratio in memory alone (token_manager.rs:710), which the setters do not (2498-2511),
\* and the file keeps the higher one until the ratio is set to another value.  And the file
\* stays readable unless a write broke off in it.
SettingsFollowFile ==
    LET saved   == IF file.state = "missing" THEN Defaults ELSE file.values
        Wanted(s) == \E c \in Call : admin[c].todo # <<>> /\ Head(admin[c].todo).setting = s
    IN  /\ up /\ ~mingled /\ file.state \in {"missing", "intact"}
              => \A s \in Setting : ~Wanted(s) =>
                    IF s = "floorRatio" /\ clamped THEN memory[s] < saved[s]
                    ELSE memory[s] = saved[s]
        /\ file.state \in {"empty", "torn"} =>
              spoilt \/ \E c \in Call : admin[c].at = "fill"
=============================================================================
