--------------------------- MODULE AnswerStream ---------------------------
(***************************************************************************)
(* A streamed answer from the upstream service to the client: frames on    *)
(* the wire, the decoder (EventStreamDecoder), the translation (SseStream) *)
(* and the stream that the handler returns (anthropic/handlers.rs), polled *)
(* by the client.  flatten() asks for the next chunk only when the events  *)
(* of the last one have been taken, so chunks wait while pending holds     *)
(* events.  Ping events carry nothing and are left out.                    *)
(***************************************************************************)
EXTENDS SseStream, EventStreamDecoder

CONSTANTS Content,    \* events the upstream service may send, with their records
          MaxWeight   \* bound of an answer: a frame of text weighs 1, another 2, and
                      \* a frame that is damaged, split or held up 2 more

VARIABLES way,       \* "live" (/v1/messages) or "buffered" (/cc/v1/messages)
          ctx,       \* StreamContext
          decoder,
          wire,      \* cells sent and not yet arrived
          pending,   \* SSE events made and not yet taken by the client
          finished,  \* the stream returned its last events
          log,       \* the status of the request's record
          client,    \* the message as the client builds it
          sent,      \* ghost: the frames sent, with their damage
          seen       \* ghost: the events that were translated

\* What the upstream service sends: answers in text, native reasoning, calls of tools,
\* notes on the context window, failures, and events that only count or are not known.
UpstreamEvent ==
         [kind : {"text"}, text : Seq(Char)]
    \cup [kind : {"reasoning"}, text : Seq(Char), signed : BOOLEAN]
    \cup [kind : {"tool"}, tool : ToolId, input : BOOLEAN, stop : BOOLEAN]
    \cup [kind : {"context"}, full : BOOLEAN]
    \cup [kind : {"exception"}, tooLong : BOOLEAN]
    \cup [kind : {"error", "metering", "unknown"}]

ASSUME ContentAssumption == Content \subseteq UpstreamEvent /\ MaxWeight \in Nat

streamVars == <<way, ctx, decoder, wire, pending, finished, log, client, sent, seen>>

Grammar == INSTANCE SseGrammar WITH
    StopReasons <- {"end_turn", "tool_use", "max_tokens", "model_context_window_exceeded"}

-----------------------------------------------------------------------------
(* The client. *)

Receive(c, item) ==
    LET i == CHOOSE k \in item.at : TRUE
    IN  CASE item.ev = "message_start" -> [c EXCEPT !.phase = "open"]
          [] item.ev = "start"         -> [c EXCEPT !.blocks = Append(@, Grammar!Block(item.tag))]
          [] item.ev \in {"text", "thinking", "json"} ->
                [c EXCEPT !.blocks[i].text = @ \o item.text]
          [] item.ev = "signature"     -> [c EXCEPT !.blocks[i].signatures = @ + 1]
          [] item.ev = "stop"          -> [c EXCEPT !.blocks[i].open = FALSE]
          [] item.ev = "message_delta" -> [c EXCEPT !.phase = "delta", !.reason = item.tag]
          [] item.ev = "message_stop"  -> [c EXCEPT !.phase = "stopped"]
          [] OTHER                     -> [c EXCEPT !.phase = "failed"]

\* One SSE event is taken.  A loop over the HashMap of blocks closes them in any
\* order; close_all_open_blocks signs each thinking block before its stop.
Deliver ==
    LET item == Head(pending)
        One(ev, i) == [ev |-> ev, at |-> {i}, tag |-> "", text |-> <<>>]
        left(i) == IF item.at = {i} THEN Tail(pending)
                   ELSE <<[item EXCEPT !.at = @ \ {i}]>> \o Tail(pending)
    IN  /\ pending # <<>> /\ client.phase # "gone"
        /\ \/ /\ item.ev # "stop"
              /\ client' = Receive(client, item)
              /\ pending' = Tail(pending)
           \/ /\ item.ev = "stop"
              /\ \E i \in item.at :
                    IF item.tag = "signed" /\ client.blocks[i].type = "thinking"
                    THEN /\ client' = Receive(client, One("signature", i))
                         /\ pending' = <<One("stop", i)>> \o left(i)
                    ELSE /\ client' = Receive(client, One("stop", i))
                         /\ pending' = left(i)
        /\ UNCHANGED <<way, ctx, decoder, wire, finished, log, sent, seen>>

\* The client goes away: the stream is dropped, and with it the builder of the record.
Disconnect ==
    /\ client.phase \in {"waiting", "open", "delta"}
    /\ client' = [client EXCEPT !.phase = "gone"]
    /\ ctx' = NewContext(FALSE) /\ decoder' = NewDecoder
    /\ pending' = <<>> /\ wire' = <<>> /\ sent' = <<>> /\ seen' = <<>>
    /\ UNCHANGED <<way, finished, log>>

-----------------------------------------------------------------------------
(* The handler's stream. *)

Waiting == pending = <<>> /\ ~finished /\ client.phase # "gone"

\* The events of the new chunk; the buffered stream makes its initial events at
\* the first event it sees, and keeps all until the end.
Translated(x, events) ==
    FoldLeft(OnEvent,
             IF way = "buffered" /\ ~x.started /\ events # <<>> THEN Initial(x) ELSE x,
             events)

\* Live streams hand on the events made so far.
Release(x) ==
    IF way = "live" THEN ctx' = [x EXCEPT !.out = <<>>] /\ pending' = x.out
    ELSE ctx' = x /\ UNCHANGED pending

\* A chunk arrives: all cells that have been sent, but for the last k.
Chunk(cells, k) ==
    LET n   == Len(cells) - k
        run == DecodeAll(Feed(decoder, SubSeq(cells, 1, n)))
    IN  /\ wire' = SubSeq(cells, n + 1, Len(cells))
        /\ decoder' = run.d
        /\ seen' = seen \o run.events
        /\ Release(Translated(ctx, run.events))
        /\ UNCHANGED <<way, finished, log, client>>

Weight(event, trouble) ==
    1 + (IF event.kind = "text" THEN 0 ELSE 1) + (IF trouble = "none" THEN 0 ELSE 2)

Spent == Len(sent) + Cardinality({i \in DOMAIN sent : sent[i].event.kind # "text"})
                   + 2 * Cardinality({i \in DOMAIN sent : sent[i].trouble # "none"})

\* The next frame of the upstream service; it arrives at once and unharmed, or it is
\* damaged, or its end (or all of it) stays on the wire until the next one.
Frame ==
    LET left == MaxWeight - Spent
    IN  /\ Waiting
        /\ \E event \in Content, trouble \in Damage \cup {"none", "split", "held"} :
              /\ Weight(event, trouble) <= left
              /\ sent' = Append(sent, [event |-> event, trouble |-> trouble])
              /\ Chunk(wire \o Cells(event, trouble),
                       CASE trouble = "split" -> 1
                         [] trouble = "held"  -> FrameLen
                         [] OTHER             -> 0)

\* What was held up arrives by itself.
Rest == Waiting /\ wire # <<>> /\ Chunk(wire, 0) /\ UNCHANGED sent

\* Mutation of Verdict: the record is closed before the final events are made.
VerdictBefore(x) == IF x.failure = "none" THEN "success" ELSE x.failure

\* The record's status is read when generate_final_events has looked for an empty answer.
Verdict(x) == IF Final(x).failure = "none" THEN "success" ELSE Final(x).failure

\* The stream's last turn; only the live stream has a record.
Finish(x) ==
    LET y == IF x.started THEN x ELSE Initial(x)
    IN  /\ Waiting
        /\ finished' = TRUE
        /\ ctx' = [Final(y) EXCEPT !.out = <<>>]
        /\ pending' = Final(y).out
        /\ log' = IF way = "live" THEN Verdict(y) ELSE log
        /\ UNCHANGED <<way, decoder, wire, client, sent, seen>>

\* The body ends; what the decoder still holds is dropped.
EndOfBody == wire = <<>> /\ Finish(ctx)

\* Reading the body fails.
IoError == Finish(MarkFailure(ctx, "stream_io"))

StreamInit ==
    /\ way \in {"live", "buffered"}
    /\ \E thinking \in BOOLEAN :
          LET x == Initial(NewContext(thinking))
          IN  IF way = "live" THEN ctx = [x EXCEPT !.out = <<>>] /\ pending = x.out
              ELSE ctx = NewContext(thinking) /\ pending = <<>>
    /\ decoder = NewDecoder
    /\ wire = <<>> /\ sent = <<>> /\ seen = <<>>
    /\ finished = FALSE
    /\ log = "open"
    /\ client = Grammar!Nothing

StreamNext == Deliver \/ Disconnect \/ Frame \/ Rest \/ EndOfBody \/ IoError

StreamSpec == StreamInit /\ [][StreamNext]_streamVars

-----------------------------------------------------------------------------
(* The answer to the same events when the request does not ask for a stream *)
(* (handle_non_stream_request): channels of letters and the stop reason.    *)

TextOf(events) ==
    FlattenSeq([i \in DOMAIN events |-> IF events[i].kind = "text" THEN events[i].text ELSE <<>>])

ReasoningOf(events) ==
    FlattenSeq([i \in DOMAIN events |->
                   IF events[i].kind = "reasoning" THEN events[i].text ELSE <<>>])

WholeContent(events, thinking) ==
    LET text   == TextOf(events)
        native == ReasoningOf(events)
    IN  CASE native # <<>> /\ thinking -> [thinking |-> native, text |-> text]
          [] native = <<>> /\ thinking -> Extract(text)
          [] OTHER                     -> [thinking |-> <<>>, text |-> text]

CutShort(reason, e) ==
    CASE e.kind = "context" /\ e.full      -> "model_context_window_exceeded"
      [] e.kind = "exception" /\ e.tooLong -> "max_tokens"
      [] OTHER                             -> reason

WholeStopReason(events) ==
    LET reason == FoldLeft(CutShort, "end_turn", events)
    IN  IF reason = "end_turn" /\ \E i \in DOMAIN events : events[i].kind = "tool"
        THEN "tool_use" ELSE reason

-----------------------------------------------------------------------------
(* Properties. *)

Letter == {"a", "b"}
Letters(text) ==
    FlattenSeq([i \in DOMAIN text |-> IF text[i] \in Letter THEN <<text[i]>> ELSE <<>>])

\* What the client's blocks of a type say, in the order of the blocks, and its letters.
Shown(type) ==
    FlattenSeq([i \in DOMAIN client.blocks |->
                   IF client.blocks[i].type = type THEN client.blocks[i].text ELSE <<>>])
Said(type) == Letters(Shown(type))

Ended == client.phase \in {"stopped", "failed"}

Kinds == {seen[i].kind : i \in DOMAIN seen}

Count(c, text) == Cardinality({i \in DOMAIN text : text[i] = c})

\* How often the client has seen c, spoken or thought.
Received(c) == Count(c, Shown("text")) + Count(c, Shown("thinking"))

\* The blocks that the translation believes to be filling are open blocks of the
\* right type, and the two ways of thinking do not share one.
StreamTypeOK ==
    /\ decoder.state \in {"Ready", "Recovering", "Stopped"}
    /\ decoder.errors \in 0 .. MaxErrors /\ Len(decoder.buf) <= MaxBuffer
    /\ ctx.failure \in Failure /\ ctx.reason \in Reason
    /\ \A i \in DOMAIN ctx.buffer : ctx.buffer[i] \in Char
    /\ \A i \in DOMAIN ctx.blocks : ctx.blocks[i].type \in BlockType
    /\ ctx.textAt # 0 => ctx.blocks[ctx.textAt].type = "text"
    /\ \A t \in ToolId : ctx.tools[t] # 0 => ctx.blocks[ctx.tools[t]].type = "tool_use"
    /\ ~finished /\ (ctx.inside \/ ctx.reasoning) =>
          /\ ctx.thinkAt \in OpenBlocks(ctx)
          /\ ctx.blocks[ctx.thinkAt].type = "thinking"
    /\ ~(ctx.inside /\ ctx.reasoning)

\* Whatever the upstream service sends and however it is cut into chunks, the client
\* sees a message of the promised form (stream.rs:269-275): blocks are started,
\* filled, signed once and closed in order, nothing follows a close, a tool's block
\* starts with no text block open, and the message ends once, with all blocks closed.
ImplementsGrammar == Grammar!GrammarSpec

\* A letter that was translated reaches the client by the end of a good answer: no
\* text is lost in thinking_buffer or sent to a block that a tool call has closed
\* (stream.rs, create_text_delta_events).  Native reasoning that begins while text
\* is held back clears the buffer, so answers with both are left out.
NothingSwallowed ==
    client.phase = "stopped" /\ (ctx.thinking => "reasoning" \notin Kinds) =>
        \A c \in Letter : Received(c) = Count(c, TextOf(seen))

\* The first event of a call; its tool's block is started for it.
FirstCall(i) ==
    /\ seen[i].kind = "tool"
    /\ \A k \in 1 .. i - 1 : seen[k].kind = "tool" => seen[k].tool # seen[i].tool

\* The step in which the client sees the block of tool t start.
ShownTool(t) ==
    Len(client'.blocks) > Len(client.blocks) /\ ctx.tools[t] = Len(client'.blocks)

\* Text goes to the client before the tool call that follows it (stream.rs:
\* process_tool_use flushes what is held back before it starts the block): when the
\* client is shown the tool's block it has all letters said before the call's first
\* event.  It may lack those of an unfinished <thinking>, whose block it then sees
\* open, and those that native reasoning has cleared.
WordsBeforeTools ==
    [][\A i \in DOMAIN seen :
          /\ FirstCall(i) /\ ShownTool(seen[i].tool)
          /\ \A b \in DOMAIN client.blocks :
                client.blocks[b].type = "thinking" => ~client.blocks[b].open
          /\ ctx.thinking => \A k \in 1 .. i : seen[k].kind # "reasoning"
          => \A c \in Letter : Received(c) >= Count(c, TextOf(SubSeq(seen, 1, i)))]_streamVars

\* No tag stands next to a quoting character anywhere in the text.
Unambiguous(text) ==
    \A p \in 1 .. Len(text) - 1 : \A tag \in {OpenTag, CloseTag} :
        SubSeq(text, p, p + 1) = tag => Unquoted(text, p, tag)

HasThinking(text) ==
    LET rest == From(text, StartTag(text) + 2)
    IN  StartTag(text) # 0 /\ (EndTag(rest) # 0 \/ EndTagAtBufferEnd(rest) # 0)

\* A streamed answer says the same, thought and spoken, as the answer that is not
\* streamed (stream.rs:175-176): where chunks end inside of a tag does not matter,
\* if no tag is quoted and no tool call cuts the text.
SameWords ==
    /\ client.phase = "stopped" /\ ctx.thinking
    /\ Kinds \cap {"tool", "reasoning"} = {}
    /\ Unambiguous(TextOf(seen)) /\ HasThinking(TextOf(seen))
    => LET whole == WholeContent(seen, TRUE)
       IN  Said("thinking") = Letters(whole.thinking) /\ Said("text") = Letters(whole.text)

\* Both kinds of answer give the same reason for stopping, but that a stream of
\* thinking alone counts as cut short.
SameStopReason ==
    client.phase = "stopped" =>
        \/ client.reason = WholeStopReason(seen)
        \/ client.reason = "max_tokens" /\ "tool" \notin Kinds /\ ctx.thinkAt # 0

\* The decoder neither loses, repeats nor reorders an intact frame, however damaged
\* the frames around it are: what was not handed on is in its buffer or on the wire.
DecoderKeepsIntact ==
    seen \o Buffered(decoder.buf \o wire)
        = Collect(sent, {i \in DOMAIN sent : Intact(sent[i].trouble)})

\* A frame damaged in its body costs that frame: the decoder does not stop, and
\* after the next chunk every complete frame has been handed on.
DecoderCatchesUp ==
    /\ \A i \in DOMAIN sent : sent[i].trouble \notin Damage \ {"data"}
    /\ Cardinality({i \in DOMAIN sent : sent[i].trouble = "data"}) < MaxErrors
    => /\ decoder.state # "Stopped"
       /\ decoder.state = "Ready" => Len(decoder.buf) < FrameLen

\* The record of a live stream and the client agree on how the answer ended.
VerdictsAgree ==
    Ended /\ way = "live" =>
        log # "open" /\ (client.phase = "stopped" <=> log = "success")

\* A quoted end tag is text (stream.rs:33-37 and 50-57, and the test at 1953: a quote
\* before the tag is enough): thinking that only mentions the tag goes on to the end.
QuotedTagIsText ==
    LET text == TextOf(seen)
        rest == From(text, 3)
    IN  /\ client.phase = "stopped" /\ ctx.thinking
        /\ Kinds = {"text"} /\ StartTag(text) = 1
        /\ EndTag(rest) = 0 /\ EndTagAtBufferEnd(rest) = 0
        => Said("text") = <<>>
=============================================================================
