---------------------------- MODULE Conversation ----------------------------
(***************************************************************************)
(* What a client's conversation becomes on its way to the upstream         *)
(* service: the context-management edits (context_management.rs), the      *)
(* conversion into turns with its repair of tool pairs (converter.rs), and *)
(* the fingerprints that the simulated cache compares (cache_sim.rs).      *)
(*                                                                         *)
(* A message is a role and a sequence of blocks.  Texts are sequences of   *)
(* pieces: "w" is a visible one, "_" is white space.  A fingerprint counts *)
(* as one token.                                                           *)
(***************************************************************************)
EXTENDS PrefixCache, FiniteSets, Functions, SequencesExt

CONSTANTS UserBlocks, AssistantBlocks,  \* what messages may hold
          EditLists,                    \* context_management.edits of a request
          NameOf,                       \* tool-use id -> tool name
          Lower,                        \* tool name -> the name in lower case
          Declared,                     \* tools of every request
          MaxRequests,                  \* bound of the requests of a conversation
          MaxTalk, BreachCost           \* bounds: a breach of the protocol costs as much
                                        \* as BreachCost messages

Block == [type : {"text"}, text : {"w", "_"}] \cup [type : {"thinking"}]
    \cup [type : {"image"}, media : BOOLEAN]
    \cup [type : {"tool_use"}, id : DOMAIN NameOf]
    \cup [type : {"tool_result"}, id : DOMAIN NameOf, media : BOOLEAN]

Message == [role : {"user", "assistant"}, blocks : Seq(Block)]

ASSUME ConversationAssumption ==
    /\ UserBlocks \cup AssistantBlocks \subseteq Seq(Block)
    /\ EditLists \subseteq Seq([type : STRING, keep : Nat, exclude : SUBSET STRING, due : BOOLEAN])

VARIABLES messages,  \* the conversation as the client holds it
          session,   \* [system, named]: is there a system prompt, a session id
          breaches,  \* ghost: departures from a regular conversation
          request,   \* the Kiro request just made, {} if none
          cached,    \* conversation id -> fingerprints of its last request
          hit,       \* fingerprints found in the cache by the request just made
          requests,  \* ghost: the number of requests made
          before     \* ghost: the last request made, [turns, plain, id]

conversationVars == <<messages, session, breaches, request, cached, hit, requests, before>>

\* The elements of s at the positions in K, and those that are in S, in their order.
At(s, K) ==
    LET f[n \in 0 .. Len(s)] == IF n = 0 THEN <<>>
                               ELSE IF n \in K THEN Append(f[n - 1], s[n]) ELSE f[n - 1]
    IN  f[Len(s)]

Among(s, S) == At(s, {i \in DOMAIN s : s[i] \in S})

Blocks(ms)        == FlattenSeq([i \in DOMAIN ms |-> ms[i].blocks])
OfType(bs, type)  == At(bs, {i \in DOMAIN bs : bs[i].type = type})
Texts(bs)         == LET ts == OfType(bs, "text") IN [i \in DOMAIN ts |-> ts[i].text]
Ids(bs, type)     == LET ts == OfType(bs, type) IN [i \in DOMAIN ts |-> ts[i].id]
Visible(text)     == \E i \in DOMAIN text : text[i] = "w"

-----------------------------------------------------------------------------
(* Context-management edits. *)

DropEmpty(ms) == At(ms, {i \in DOMAIN ms : ms[i].blocks # <<>>})

\* The uses of tools that an edit may clear.
Clearable(ms, exclude) ==
    Among(Ids(Blocks(ms), "tool_use"), {t \in DOMAIN NameOf : NameOf[t] \notin exclude})

\* Blocks without the uses of tools that are gone, and their results.
Without(bs, gone) ==
    At(bs, {i \in DOMAIN bs : bs[i].type \in {"tool_use", "tool_result"} => bs[i].id \notin gone})

\* Mutation of ClearToolUses: the newest are cleared instead of the oldest.
ClearNewestToolUses(ms, keep, exclude) ==
    LET ids  == Clearable(ms, exclude)
        gone == {ids[i] : i \in keep + 1 .. Len(ids)}
    IN  DropEmpty([i \in DOMAIN ms |-> [ms[i] EXCEPT !.blocks = Without(@, gone)]])

\* All but the last keep uses of tools that are not excluded, with their results;
\* messages that lose everything go too.
ClearToolUses(ms, keep, exclude) ==
    LET ids  == Clearable(ms, exclude)
        gone == {ids[i] : i \in 1 .. Len(ids) - keep}
    IN  IF gone = {} THEN ms
        ELSE DropEmpty([i \in DOMAIN ms |-> [ms[i] EXCEPT !.blocks = Without(@, gone)]])

\* All but the last keep thinking blocks of the assistant; a message has one at most.
ClearThinking(ms, keep) ==
    LET thinks == {i \in DOMAIN ms : ms[i].role = "assistant"
                                        /\ OfType(ms[i].blocks, "thinking") # <<>>}
        gone   == {i \in thinks : Cardinality({j \in thinks : j > i}) >= keep}
        Rest(bs) == At(bs, {i \in DOMAIN bs : bs[i].type # "thinking"})
    IN  IF gone = {} THEN ms
        ELSE DropEmpty([i \in DOMAIN ms |->
                 IF i \in gone THEN [ms[i] EXCEPT !.blocks = Rest(@)] ELSE ms[i]])

\* An edit whose trigger is not reached is skipped, as is one of an unknown type.
Apply(ms, e) ==
    CASE e.due /\ e.type = "tools"    -> ClearToolUses(ms, e.keep, e.exclude)
      [] e.due /\ e.type = "thinking" -> ClearThinking(ms, e.keep)
      [] OTHER                        -> ms

\* One edit after the other.
Edited(ms, edits) ==
    LET f[n \in 0 .. Len(edits)] == IF n = 0 THEN ms ELSE Apply(f[n - 1], edits[n])
    IN  f[Len(edits)]

-----------------------------------------------------------------------------
(* Conversion. *)

\* Messages that end with an assistant's are cut after the last one of the user.
UpToUser(ms) ==
    SubSeq(ms, 1, CHOOSE i \in 0 .. Len(ms) :
        /\ i > 0 => ms[i].role = "user"
        /\ \A j \in i + 1 .. Len(ms) : ms[j].role # "user")

\* The content of a user's turn must not be empty: it may be only beside tool results,
\* and not with an image or document.
Filled(text, media, results) ==
    IF Visible(text) THEN text
    ELSE IF media THEN <<"please analyze">>
    ELSE IF results = <<>> THEN <<" ">> ELSE text

\* A turn of the request: its pieces of text, the answered and the made calls, and the tools
\* that only the current message carries.
Id      == DOMAIN NameOf
Piece   == {"w", "_", " ", "please analyze", "system", "I will follow", "OK"}
Name    == Declared \cup {NameOf[t] : t \in Id}
TurnRec == [role : {"user", "assistant"}, content : Seq(Piece), media : BOOLEAN,
            results : Seq(Id), uses : Seq(Id), tools : SUBSET Name]

Turn(role, content) ==
    [role |-> role, content |-> content, media |-> FALSE, results |-> <<>>, uses |-> <<>>,
     tools |-> {}]

\* An image may stand by itself or inside a tool result; others are dropped.
HasMedia(bs) == \E i \in DOMAIN bs : bs[i].type \in {"image", "tool_result"} /\ bs[i].media

UserTurn(bs, results) ==
    [Turn("user", Filled(Texts(bs), HasMedia(bs), results))
        EXCEPT !.media = HasMedia(bs), !.results = results]

MergeUsers(ms) == UserTurn(Blocks(ms), Ids(Blocks(ms), "tool_result"))

\* An assistant's thinking is never sent back; white space survives in a single message only.
MergeAssistants(ms) ==
    LET said == IF Len(ms) = 1 THEN Texts(Blocks(ms))
                ELSE Texts(Blocks(At(ms, {i \in DOMAIN ms : Visible(Texts(ms[i].blocks))})))
    IN  [Turn("assistant", IF said = <<>> THEN <<" ">> ELSE said)
            EXCEPT !.uses = Ids(Blocks(ms), "tool_use")]

\* Messages of one role in a row become one turn; a user's turn at the end is answered "OK".
History(ms) ==
    LET starts   == At([i \in DOMAIN ms |-> i],
                       {i \in DOMAIN ms : i = 1 \/ ms[i].role # ms[i - 1].role})
        Streak(k) == SubSeq(ms, starts[k],
                            IF k < Len(starts) THEN starts[k + 1] - 1 ELSE Len(ms))
        system   == <<Turn("user", <<"system">>), Turn("assistant", <<"I will follow">>)>>
    IN  (IF session.system THEN system ELSE <<>>)
        \o [k \in DOMAIN starts |-> IF ms[starts[k]].role = "user" THEN MergeUsers(Streak(k))
                                    ELSE MergeAssistants(Streak(k))]
        \o (IF ms # <<>> /\ ms[Len(ms)].role = "user"
            THEN <<Turn("assistant", <<"OK">>)>> ELSE <<>>)

UsesIn(turns)    == UNION {ToSet(turns[i].uses) : i \in DOMAIN turns}
ResultsIn(turns) == UNION {ToSet(turns[i].results) : i \in DOMAIN turns}

\* Of the results of the current message, the first for each use that history leaves open.
ValidResults(history, results) ==
    LET open == UsesIn(history) \ ResultsIn(history)
    IN  At(results, {i \in DOMAIN results :
                        results[i] \in open /\ \A j \in 1 .. i - 1 : results[j] # results[i]})

RemoveOrphanedUses(history, kept) ==
    LET orphans == (UsesIn(history) \ ResultsIn(history)) \ ToSet(kept)
    IN  [i \in DOMAIN history |->
            [history[i] EXCEPT !.uses = Among(@, UsesIn(history) \ orphans)]]

\* Mutation of RemoveOrphanedResults: a turn that loses its results is left as it is.
RemoveOrphanedResultsOnly(history) ==
    [i \in DOMAIN history |->
        [history[i] EXCEPT !.results = Among(@, UsesIn(history))]]

\* A turn that is left with nothing gets a space.
RemoveOrphanedResults(history) ==
    [i \in DOMAIN history |->
        LET h    == history[i]
            left == Among(h.results, UsesIn(history))
        IN  [h EXCEPT !.results = left,
                      !.content = IF h.role = "user" /\ ~h.media /\ left = <<>>
                                     /\ (h.content = <<>> \/ \A j \in DOMAIN h.content :
                                                                h.content[j] = "_")
                                  THEN <<" ">> ELSE @]]

\* Tools of the history that the request does not declare, ignoring case, get a placeholder.
Tools(history) ==
    Declared \cup {n \in {NameOf[t] : t \in UsesIn(history)} :
                      \A d \in Declared : Lower[d] # Lower[n]}

\* Mutation of Convert: the results of the current message are not compared with the history.
ConvertUnpaired(ms) ==
    LET raw     == History(SubSeq(ms, 1, Len(ms) - 1))
        now     == Last(ms).blocks
        results == Ids(now, "tool_result")
        history == RemoveOrphanedResults(RemoveOrphanedUses(raw, results))
    IN  Append(history, [UserTurn(now, results) EXCEPT !.tools = Tools(history)])

\* convert_request, for messages that end with one of the user.
Convert(ms) ==
    LET raw     == History(SubSeq(ms, 1, Len(ms) - 1))
        now     == Last(ms).blocks
        results == ValidResults(raw, Ids(now, "tool_result"))
        history == RemoveOrphanedResults(RemoveOrphanedUses(raw, results))
    IN  Append(history, [UserTurn(now, results) EXCEPT !.tools = Tools(history)])

\* The conversation's id: the client's session, else a digest of the first two messages
\* of the user.
ConversationId(ms) ==
    LET users == At(ms, {i \in DOMAIN ms : ms[i].role = "user"})
    IN  IF session.named THEN <<>> ELSE SubSeq(users, 1, IF Len(users) < 2 THEN Len(users) ELSE 2)

-----------------------------------------------------------------------------
(* The simulated cache. *)

\* Mutation of Canon: the list of tools is part of the fingerprint.
CanonWithTools(turn) == turn

\* A fingerprint ignores the list of tools, which only the current message carries.
Canon(turn) == [turn EXCEPT !.tools = {}]

Fingerprints(turns) == [i \in DOMAIN turns |-> Canon(turns[i])]

-----------------------------------------------------------------------------
(* The client. *)

\* The next message of a regular conversation: roles alternate, the user answers every
\* tool call of the last turn and nothing else, and every call has an id of its own.
Regular(m) ==
    LET uses    == ToSet(Ids(m.blocks, "tool_use"))
        results == Ids(m.blocks, "tool_result")
    IN  /\ m.role = (IF messages = <<>> THEN "user"
                     ELSE IF Last(messages).role = "user" THEN "assistant" ELSE "user")
        /\ messages # <<>> /\ m.role = "user"
              => results = Ids(Last(messages).blocks, "tool_use")
        /\ messages = <<>> => results = <<>>
        /\ uses \cap ToSet(Ids(Blocks(messages), "tool_use")) = {}

Affordable(n, b) == n + BreachCost * b <= MaxTalk

Quiet ==
    /\ requests < MaxRequests
    /\ request' = {} /\ hit' = 0
    /\ UNCHANGED <<session, cached, requests, before>>

ClientMessage ==
    [role : {"user"}, blocks : UserBlocks] \cup [role : {"assistant"}, blocks : AssistantBlocks]

Say ==
    \E m \in ClientMessage :
        /\ messages' = Append(messages, m)
        /\ breaches' = breaches + IF Regular(m) THEN 0 ELSE 1
        /\ Affordable(Len(messages'), breaches')
        /\ Quiet

\* The client compacts its history: the oldest messages go, calls and results alike.
Compact ==
    \E k \in 1 .. Len(messages) - 1 :
        /\ messages' = SubSeq(messages, k + 1, Len(messages))
        /\ breaches' = breaches + 1
        /\ Affordable(Len(messages'), breaches')
        /\ Quiet

\* A request: edited, converted and compared with the cache.  Without a message of the
\* user it is refused.
Send ==
    \E edits \in EditLists :
        LET ms    == UpToUser(Edited(messages, edits))
            turns == Convert(ms)
            id    == ConversationId(ms)
        IN  IF ms = <<>> THEN messages # <<>> /\ Quiet /\ UNCHANGED <<messages, breaches>>
            ELSE /\ requests < MaxRequests
                 /\ requests' = requests + 1
                 /\ request' = {[turns |-> turns, edits |-> edits, prior |-> before]}
                 /\ hit' = IF id \in DOMAIN cached
                           THEN CommonPrefix(cached[id], Fingerprints(turns)) ELSE 0
                 /\ cached' = [i \in DOMAIN cached \cup {id} |->
                                  IF i = id THEN Fingerprints(turns) ELSE cached[i]]
                 /\ before' = [turns |-> Len(turns), plain |-> edits = <<>>, id |-> id]
                 /\ UNCHANGED <<messages, session, breaches>>

ConversationInit ==
    /\ messages = <<>> /\ breaches = 0
    /\ session \in [system : BOOLEAN, named : BOOLEAN]
    /\ request = {} /\ hit = 0 /\ requests = 0
    /\ cached = [id \in {} |-> <<>>]
    /\ before = [turns |-> 0, plain |-> TRUE, id |-> <<>>]

ConversationNext == Say \/ Compact \/ Send

ConversationSpec == ConversationInit /\ [][ConversationNext]_conversationVars

-----------------------------------------------------------------------------
(* Properties. *)

\* The types of the variables.
ConversationTypeOK ==
    /\ messages \in Seq(Message)
    /\ session \in [system : BOOLEAN, named : BOOLEAN]
    /\ {breaches, requests, hit, before.turns} \subseteq Nat /\ before.plain \in BOOLEAN
    /\ \A r \in request : r.edits \in EditLists /\ r.turns \in Seq(TurnRec)
    /\ \A id \in DOMAIN cached : cached[id] \in Seq(TurnRec)

\* Whatever the client sends and edits, the request has the form that the upstream
\* service accepts (converter.rs:530-543, 1008-1023): it ends with the user; a turn is empty
\* only beside tool results, and never beside an image; and roles alternate, but that
\* a conversation which begins with an assistant follows the system's pair.
TurnsWellFormed ==
    \A r \in request :
        LET t == r.turns
        IN  /\ Last(t).role = "user"
            /\ \A i \in DOMAIN t :
                  /\ t[i].content = <<>> => t[i].role = "user" /\ t[i].results # <<>>
                  /\ t[i].media => Visible(t[i].content) \/ t[i].content = <<"please analyze">>
            /\ \A i \in 1 .. Len(t) - 1 :
                  t[i].role = t[i + 1].role =>
                      i = 2 /\ session.system /\ Edited(messages, r.edits)[1].role = "assistant"

\* Every tool call in the request has a result in it and every result a call, whatever
\* a client's compaction tore apart (converter.rs:905-948), no call is answered
\* twice by the current message, and every tool called is declared, ignoring case.
ToolsPaired ==
    \A r \in request :
        /\ UsesIn(r.turns) = ResultsIn(r.turns)
        /\ LET last == Last(r.turns).results
               old  == ResultsIn(SubSeq(r.turns, 1, Len(r.turns) - 1))
           IN  IsInjective(last) /\ ToSet(last) \cap old = {}
        /\ \A t \in UsesIn(r.turns) :
              \E n \in Last(r.turns).tools : Lower[n] = Lower[NameOf[t]]

\* Context-management edits that keep as many tool calls as the last answer made leave the
\* question itself alone, while the user has the last word: the current turn is that of the
\* unedited conversation.
EditKeepsQuestion ==
    \A r \in request :
        LET plain   == UpToUser(messages)
            pending == IF Len(plain) < 2 THEN 0
                       ELSE Len(Ids(plain[Len(plain) - 1].blocks, "tool_use"))
        IN  /\ breaches = 0 /\ plain = messages
            /\ \A i \in DOMAIN r.edits : r.edits[i].type = "tools" => r.edits[i].keep >= pending
            => Canon(Last(r.turns)) = Canon(Last(Convert(plain)))

\* As a regular conversation goes on, everything sent with the last request is found
\* again in the cache (cache_sim.rs:247-257): what was the current message has the same
\* fingerprint in the history.  A conversation without a session id must have
\* kept its first two user messages.
HitCoversLastTurn ==
    \A r \in request :
        /\ breaches = 0 /\ r.prior.plain /\ r.edits = <<>>
        /\ r.prior.id = before.id
        => hit = r.prior.turns
=============================================================================
