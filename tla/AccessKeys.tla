----------------------------- MODULE AccessKeys -----------------------------
(***************************************************************************)
(* The keys by which clients may use the server and the groups of          *)
(* credentials they are bound to: the tables of db/api_keys.rs and         *)
(* db/groups.rs, the list of keys in memory, the operations of             *)
(* admin/handlers.rs on both, and the two looks a request takes at them in *)
(* anthropic/middleware.rs.                                                *)
(***************************************************************************)
EXTENDS FiniteSets, Naturals

CONSTANTS Key, ConfigKey,   \* ConfigKey: the key of config.json
          Group, Credential,
          Handler,          \* concurrent operations of the Admin API on keys
          MaxKeyOps         \* bound of the operations and restarts of a run

ASSUME KeysAssumption ==
    /\ IsFiniteSet(Key) /\ ConfigKey \in Key
    /\ 0 \notin Group

VARIABLES keyRows,   \* table api_keys: key -> [state, group], group 0 if unbound
          groups,    \* table groups
          member,    \* table credential_groups: credential -> group, 0 if none
          accepted,  \* SharedApiKeys: the keys in memory
          handlers,  \* handler -> [at, key, read, alone]
          visit,     \* the request that is being authenticated
          keyOps,
          stale,     \* ghost: memory was not brought up to date since
          raced,     \* ghost: an operation that overlapped another took a key out
          besideOff  \* ghost: a key was deleted while a disabled one remained

keyVars == <<keyRows, groups, member, accepted, handlers, visit, keyOps, stale, raced, besideOff>>

NoRow   == [state |-> "none", group |-> 0]
Free    == [at |-> "free", key |-> ConfigKey, read |-> {}, alone |-> TRUE]
NoVisit == [at |-> "none", key |-> ConfigKey, group |-> 0, allowed |-> {}, limited |-> FALSE,
            failed |-> FALSE, bindings |-> {}, moved |-> FALSE]

Rows    == {k \in Key : keyRows[k].state # "none"}
Enabled == {k \in Key : keyRows[k].state = "on"}
Members(g)   == {c \in Credential : member[c] = g}
Working(h)   == handlers[h].at # "free"
Undisturbed  == \A h \in Handler : ~Working(h)

\* What a look at the key's row gives: its group, 0 if it is unbound, disabled or gone.
Binding(rows, k) == IF rows[k].state = "on" THEN rows[k].group ELSE 0

Counted == keyOps < MaxKeyOps /\ keyOps' = keyOps + 1

\* Ghosts of a request that is under way when the tables change.
Seen(rows, table) ==
    visit' = [visit EXCEPT
        !.bindings = @ \cup IF visit.at \in {"matched", "found"} THEN {Binding(rows, visit.key)} ELSE {},
        !.moved    = @ \/ (visit.limited /\ table # member)]

-----------------------------------------------------------------------------
(* Operations on keys: a check, the change, and the keys read back into memory. *)

Does(h, doing) == handlers' = [handlers EXCEPT ![h] = doing]

\* Mutation of Checked: disabled keys count.
CheckedByRows(op, k) ==
    CASE op \in {"delete", "disable"} -> Cardinality(Rows) > 1
      [] OTHER                        -> TRUE

\* add_api_key has no check but the table's; delete_api_key counts the rows, and
\* set_api_key_disabled the other enabled ones.
Checked(op, k) ==
    CASE op = "delete"  -> Cardinality(Rows) > 1
      [] op = "disable" -> Enabled \ {k} # {}
      [] OTHER          -> TRUE

BeginOp(h, op, k) ==
    /\ ~Working(h) /\ Counted /\ Checked(op, k)
    /\ handlers' = [x \in Handler |->
           IF x = h THEN [at |-> op, key |-> k, read |-> {}, alone |-> Undisturbed]
           ELSE [handlers[x] EXCEPT !.alone = @ /\ ~Working(x)]]
    /\ UNCHANGED <<keyRows, groups, member, accepted, visit, stale, raced, besideOff>>

\* An operation that meets no row, or a row that is there already, changes nothing.
Applies(op, k) == IF op = "add" THEN k \notin Rows ELSE k \in Rows

Changed(op, k) ==
    [keyRows EXCEPT ![k] = CASE op = "add"     -> [state |-> "on", group |-> 0]
                             [] op = "delete"  -> NoRow
                             [] op = "disable" -> [@ EXCEPT !.state = "off"]
                             [] op = "enable"  -> [@ EXCEPT !.state = "on"]]

KeyOp == {"add", "delete", "disable", "enable"}

ChangeRow(h) ==
    LET op == handlers[h].at
        k  == handlers[h].key
    IN  /\ op \in KeyOp
        /\ IF Applies(op, k)
           THEN /\ keyRows' = Changed(op, k)
                /\ Does(h, [handlers[h] EXCEPT !.at = "read"])
                /\ stale' = TRUE
                /\ raced' = (raced \/ (op \in {"delete", "disable"} /\ ~handlers[h].alone))
                /\ besideOff' = (besideOff \/ (op = "delete" /\ Rows \ {k} # Enabled \ {k}))
           ELSE Does(h, Free) /\ UNCHANGED <<keyRows, stale, raced, besideOff>>
        /\ Seen(keyRows', member)
        /\ UNCHANGED <<groups, member, accepted, keyOps>>

\* Mutation of ReadRows: disabled keys are read too.
ReadAllRows(h) ==
    /\ handlers[h].at = "read"
    /\ Does(h, [handlers[h] EXCEPT !.at = "write", !.read = Rows])
    /\ UNCHANGED <<keyRows, groups, member, accepted, visit, keyOps, stale, raced, besideOff>>

\* reload_keys_into_memory reads the enabled keys and then writes the list; the failure to
\* read them is passed over, and the operation reported as done.
ReadRows(h) ==
    /\ handlers[h].at = "read"
    /\ \/ Does(h, [handlers[h] EXCEPT !.at = "write", !.read = Enabled])
       \/ Does(h, Free)
    /\ UNCHANGED <<keyRows, groups, member, accepted, visit, keyOps, stale, raced, besideOff>>

WriteMemory(h) ==
    /\ handlers[h].at = "write"
    /\ accepted' = handlers[h].read
    /\ stale' = (stale /\ ~handlers[h].alone)
    /\ Does(h, Free)
    /\ UNCHANGED <<keyRows, groups, member, visit, keyOps, raced, besideOff>>

\* main: the enabled keys, or else the one of config.json, which is entered in the table if
\* it is not there.  The table may be out of reach.
RestartServer ==
    /\ Counted
    /\ \/ /\ accepted' = IF Enabled = {} THEN {ConfigKey} ELSE Enabled
          /\ keyRows' = IF Enabled = {} /\ ConfigKey \notin Rows
                        THEN [keyRows EXCEPT ![ConfigKey] = [state |-> "on", group |-> 0]]
                        ELSE keyRows
          /\ stale' = FALSE
       \/ /\ accepted' = {ConfigKey}
          /\ stale' = TRUE
          /\ UNCHANGED keyRows
    /\ handlers' = [h \in Handler |-> Free]
    /\ visit' = NoVisit
    /\ UNCHANGED <<groups, member, raced, besideOff>>

-----------------------------------------------------------------------------
(* Operations on groups, each one transaction. *)

AddGroup(g) ==
    /\ Counted /\ g \notin groups
    /\ groups' = groups \cup {g}
    /\ UNCHANGED <<keyRows, member, accepted, handlers, visit, stale, raced, besideOff>>

\* Mutation of DeleteGroup: foreign keys are off, the credentials keep their group.
DeleteGroupOnly(g) ==
    /\ Counted /\ g \in groups
    /\ groups' = groups \ {g}
    /\ keyRows' = [k \in Key |-> IF keyRows[k].group = g THEN [keyRows[k] EXCEPT !.group = 0]
                                 ELSE keyRows[k]]
    /\ Seen(keyRows', member)
    /\ UNCHANGED <<member, accepted, handlers, stale, raced, besideOff>>

\* The group's keys become unbound, its credentials groupless.
DeleteGroup(g) ==
    /\ Counted /\ g \in groups
    /\ groups' = groups \ {g}
    /\ keyRows' = [k \in Key |-> IF keyRows[k].group = g THEN [keyRows[k] EXCEPT !.group = 0]
                                 ELSE keyRows[k]]
    /\ member' = [c \in Credential |-> IF member[c] = g THEN 0 ELSE member[c]]
    /\ Seen(keyRows', member')
    /\ UNCHANGED <<accepted, handlers, stale, raced, besideOff>>

\* Only an existing group takes a credential.
SetCredentialGroup(c, g) ==
    /\ Counted /\ g \in groups \cup {0} /\ member[c] # g
    /\ member' = [member EXCEPT ![c] = g]
    /\ Seen(keyRows, member')
    /\ UNCHANGED <<keyRows, groups, accepted, handlers, stale, raced, besideOff>>

\* A key may be bound to a group that does not exist.
SetKeyGroup(k, g) ==
    /\ Counted /\ k \in Rows /\ keyRows[k].group # g
    /\ keyRows' = [keyRows EXCEPT ![k].group = g]
    /\ Seen(keyRows', member)
    /\ UNCHANGED <<groups, member, accepted, handlers, stale, raced, besideOff>>

-----------------------------------------------------------------------------
(* auth_middleware: the key is looked up in memory, then its group and the credentials *)
(* of the group in the tables. *)

Authenticate ==
    /\ visit.at \in {"none", "done"}
    /\ \E k \in accepted :
          visit' = [NoVisit EXCEPT !.at = "matched", !.key = k, !.bindings = {Binding(keyRows, k)}]
    /\ UNCHANGED <<keyRows, groups, member, accepted, handlers, keyOps, stale, raced, besideOff>>

Unlimited == [visit EXCEPT !.at = "done", !.allowed = Credential]

FindGroup ==
    LET g == Binding(keyRows, visit.key)
    IN  /\ visit.at = "matched"
        /\ visit' = IF g = 0 THEN Unlimited ELSE [visit EXCEPT !.at = "found", !.group = g]
        /\ UNCHANGED <<keyRows, groups, member, accepted, handlers, keyOps, stale, raced, besideOff>>

\* Mutation of FindMembers: a group without members limits nothing.
FindSomeMembers ==
    /\ visit.at = "found"
    /\ visit' = IF Members(visit.group) = {} THEN Unlimited
                ELSE [visit EXCEPT !.at = "done", !.allowed = Members(visit.group), !.limited = TRUE]
    /\ UNCHANGED <<keyRows, groups, member, accepted, handlers, keyOps, stale, raced, besideOff>>

FindMembers ==
    /\ visit.at = "found"
    /\ visit' = [visit EXCEPT !.at = "done", !.allowed = Members(visit.group), !.limited = TRUE]
    /\ UNCHANGED <<keyRows, groups, member, accepted, handlers, keyOps, stale, raced, besideOff>>

\* The database fails: the request goes on, unlimited.
LookupFails ==
    /\ visit.at \in {"matched", "found"}
    /\ visit' = [Unlimited EXCEPT !.failed = TRUE]
    /\ UNCHANGED <<keyRows, groups, member, accepted, handlers, keyOps, stale, raced, besideOff>>

KeysInit ==
    /\ keyRows = [k \in Key |-> IF k = ConfigKey THEN [state |-> "on", group |-> 0] ELSE NoRow]
    /\ groups \in SUBSET Group
    /\ member \in [Credential -> groups \cup {0}]
    /\ accepted = {ConfigKey}
    /\ handlers = [h \in Handler |-> Free]
    /\ visit = NoVisit
    /\ keyOps = 0 /\ stale = FALSE /\ raced = FALSE /\ besideOff = FALSE

KeysNext ==
    \/ \E h \in Handler :
          \/ \E op \in KeyOp, k \in Key : BeginOp(h, op, k)
          \/ ChangeRow(h) \/ ReadRows(h) \/ WriteMemory(h)
    \/ \E g \in Group : AddGroup(g) \/ DeleteGroup(g)
    \/ \E c \in Credential, g \in Group \cup {0} : SetCredentialGroup(c, g)
    \/ \E k \in Key, g \in Group \cup {0} : SetKeyGroup(k, g)
    \/ RestartServer
    \/ Authenticate \/ FindGroup \/ FindMembers \/ LookupFails

KeysSpec == KeysInit /\ [][KeysNext]_keyVars

-----------------------------------------------------------------------------
(* Properties. *)

\* Types; a credential is in no group but those in the table.
KeysTypeOK ==
    /\ \A k \in Key : keyRows[k].state \in {"none", "on", "off"} /\ keyRows[k].group \in Group \cup {0}
    /\ groups \subseteq Group /\ accepted \subseteq Key
    /\ member \in [Credential -> groups \cup {0}]
    /\ visit.allowed \subseteq Credential /\ visit.bindings \subseteq Group \cup {0}

\* The server takes exactly the enabled keys (handlers.rs:344, a disabled key no longer
\* matches) whenever no operation is under way, and the last change was read back by an
\* operation that did not overlap another.  Without an enabled key it takes at most that of
\* config.json.
RevokedKeyRefused ==
    Undisturbed /\ ~stale =>
        \/ accepted = Enabled
        \/ Enabled = {} /\ accepted = {ConfigKey}

\* An enabled key remains (handlers.rs:301, 345), unless operations overlapped, each with
\* its check before the other's change, or a deletion counted a disabled key as one
\* that remains.
NoLockout == Enabled = {} => raced \/ besideOff

\* A request is unlimited only if the database failed it, or its key was unbound, disabled or
\* gone at some moment since it matched; else it gets the members of one group its key was
\* bound to since, all that it has then, none if it has none (groups.rs:176-178).
StaysInGroup ==
    visit.at = "done" =>
        IF visit.limited
        THEN /\ visit.group \in visit.bindings
             /\ ~visit.moved => visit.allowed = Members(visit.group)
        ELSE visit.failed \/ 0 \in visit.bindings
=============================================================================
