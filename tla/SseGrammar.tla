---------------------------- MODULE SseGrammar ----------------------------
(***************************************************************************)
(* What a client may see of a streamed answer: the order of events that    *)
(* the comments of SseStateManager promise (anthropic/stream.rs:269-275,   *)
(* and at each handler).  The state is the client's: the message as built  *)
(* from the events so far.                                                 *)
(***************************************************************************)
EXTENDS Naturals, Sequences, SequencesExt

CONSTANT StopReasons   \* reasons of message_delta

VARIABLE client

Block(type) == [type |-> type, open |-> TRUE, signatures |-> 0, text |-> <<>>]

Nothing == [phase |-> "waiting", blocks |-> <<>>, reason |-> "none"]

GrammarInit == client = Nothing

OpenOf(types) == {i \in DOMAIN client.blocks :
                     client.blocks[i].open /\ client.blocks[i].type \in types}

Begin ==
    /\ client.phase = "waiting"
    /\ client' = [client EXCEPT !.phase = "open"]

\* One text block at a time, and none beside the start of a tool's.
OpenBlock(type) ==
    /\ client.phase = "open"
    /\ type # "thinking" => OpenOf({"text"}) = {}
    /\ client' = [client EXCEPT !.blocks = Append(@, Block(type))]

\* A delta takes nothing back.
Extend(i) ==
    /\ client.phase = "open"
    /\ i \in OpenOf({"text", "thinking", "tool_use"})
    /\ client.blocks[i].signatures = 0
    /\ IsPrefix(client.blocks[i].text, client'.blocks[i].text)
    /\ client' = [client EXCEPT !.blocks[i].text = client'.blocks[i].text]

Sign(i) ==
    /\ client.phase = "open"
    /\ i \in OpenOf({"thinking"})
    /\ client.blocks[i].signatures = 0
    /\ client' = [client EXCEPT !.blocks[i].signatures = 1]

CloseBlock(i) ==
    /\ client.phase = "open"
    /\ i \in OpenOf({"text", "thinking", "tool_use"})
    /\ client' = [client EXCEPT !.blocks[i].open = FALSE]

AllClosed == OpenOf({"text", "thinking", "tool_use"}) = {}

SendReason(r) ==
    /\ client.phase = "open" /\ AllClosed
    /\ client' = [client EXCEPT !.phase = "delta", !.reason = r]

StopMessage ==
    /\ client.phase = "delta"
    /\ client' = [client EXCEPT !.phase = "stopped"]

Fail ==
    /\ client.phase = "open" /\ AllClosed
    /\ client' = [client EXCEPT !.phase = "failed"]

Leave ==
    /\ client.phase \in {"waiting", "open", "delta"}
    /\ client' = [client EXCEPT !.phase = "gone"]

GrammarNext ==
    \/ Begin
    \/ \E type \in {"text", "thinking", "tool_use"} : OpenBlock(type)
    \/ \E i \in DOMAIN client.blocks : Extend(i) \/ Sign(i) \/ CloseBlock(i)
    \/ \E r \in StopReasons : SendReason(r)
    \/ StopMessage
    \/ Fail
    \/ Leave

GrammarSpec == GrammarInit /\ [][GrammarNext]_client
=============================================================================
