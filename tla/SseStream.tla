----------------------------- MODULE SseStream -----------------------------
(***************************************************************************)
(* StreamContext and SseStateManager of anthropic/stream.rs: the state in  *)
(* which an answer is translated, and what each upstream event does to it. *)
(* A method that takes &mut self is an operator on the context x; the SSE  *)
(* events it returns are appended to x.out.                                *)
(*                                                                         *)
(* A block is a position of x.blocks: next_block_index is always taken for *)
(* a block that is started at once, so blocks are numbered as they start.  *)
(***************************************************************************)
EXTENDS ThinkingTags, FiniteSets

CONSTANT ToolId   \* identifiers of tool calls

BlockType == {"text", "thinking", "tool_use"}
Failure   == {"none", "upstream_error", "upstream_exception", "empty_response", "stream_io"}
Reason    == {"none", "max_tokens", "model_context_window_exceeded"}

NewContext(thinkingEnabled) ==
    [thinking  |-> thinkingEnabled,
     blocks    |-> <<>>,
     started   |-> FALSE,               \* message_started
     hasTool   |-> FALSE,
     reason    |-> "none",              \* stop_reason
     produced  |-> FALSE,               \* output_tokens > 0
     tools     |-> [t \in ToolId |-> 0],\* tool_block_indices
     buffer    |-> <<>>,                \* thinking_buffer
     inside    |-> FALSE,               \* in_thinking_block
     extracted |-> FALSE,               \* thinking_extracted
     strip     |-> FALSE,               \* strip_thinking_leading_newline
     thinkAt   |-> 0,                   \* thinking_block_index
     textAt    |-> 0,                   \* text_block_index
     reasoning |-> FALSE,               \* reasoning_block_active
     native    |-> FALSE,               \* native_reasoning_seen
     signature |-> FALSE,               \* reasoning_signature is known
     failure   |-> "none",
     out       |-> <<>>]

-----------------------------------------------------------------------------
(* SSE events.  `at` is the set of blocks an event is about: one, or for a   *)
(* loop over the HashMap of blocks all those it closes, in no fixed order.   *)

Emit(x, ev, at, tag, text) ==
    [x EXCEPT !.out = Append(@, [ev |-> ev, at |-> at, tag |-> tag, text |-> text])]

OpenBlocks(x) == {i \in DOMAIN x.blocks : ~x.blocks[i].stopped}
OpenText(x)   == {i \in OpenBlocks(x) : x.blocks[i].type = "text"}

Stopped(x, S) ==
    [x EXCEPT !.blocks = [i \in DOMAIN x.blocks |->
                             [type    |-> x.blocks[i].type,
                              stopped |-> x.blocks[i].stopped \/ i \in S]]]

Stop(x, S) == IF S = {} THEN x ELSE Emit(Stopped(x, S), "stop", S, "", <<>>)

StopBlock(x, i) == Stop(x, {i} \cap OpenBlocks(x))

\* close_all_open_blocks: a thinking block is signed before its stop.
SignAndStopAll(x) ==
    IF OpenBlocks(x) = {} THEN x
    ELSE Emit(Stopped(x, OpenBlocks(x)), "stop", OpenBlocks(x), "signed", <<>>)

StartBlock(x, type) ==
    Emit([x EXCEPT !.blocks = Append(@, [type |-> type, stopped |-> FALSE])],
         "start", {Len(x.blocks) + 1}, type, <<>>)

\* Mutation of StartTool: an open text block stays open.
StartToolBesideText(x, t) ==
    IF x.tools[t] # 0 THEN [x EXCEPT !.hasTool = TRUE]
    ELSE StartBlock([x EXCEPT !.hasTool = TRUE, !.tools[t] = Len(x.blocks) + 1], "tool_use")

\* content_block_start of a tool: text blocks are stopped first, also when the
\* tool's block has been started before.
StartTool(x, t) ==
    LET y == Stop([x EXCEPT !.hasTool = TRUE], OpenText(x))
    IN  IF y.tools[t] # 0 THEN y
        ELSE StartBlock([y EXCEPT !.tools[t] = Len(y.blocks) + 1], "tool_use")

\* handle_content_block_delta: only open blocks take a delta.
Delta(x, i, ev, text) == IF i \in OpenBlocks(x) THEN Emit(x, ev, {i}, "", text) ELSE x

\* create_text_delta_events: a text block that a tool has closed is replaced.
TextDeltaTo(x, text, fits) ==
    LET y == IF fits THEN x ELSE StartBlock([x EXCEPT !.textAt = Len(x.blocks) + 1], "text")
    IN  Delta(y, y.textAt, "text", text)

\* Mutation of TextDelta: the first text block is kept for good.
TextDeltaOnce(x, text) == TextDeltaTo(x, text, x.textAt # 0)

TextDelta(x, text) == TextDeltaTo(x, text, x.textAt \in OpenText(x))

\* create_thinking_delta_event does not ask the state manager.
ThinkingDelta(x, text) == Emit(x, "thinking", {x.thinkAt}, "", text)
SomeThinking(x, text)  == IF text = <<>> THEN x ELSE ThinkingDelta(x, text)

CloseFakeThinking(x) ==
    StopBlock(Emit(x, "signature", {x.thinkAt}, IF x.signature THEN "given" ELSE "made", <<>>),
              x.thinkAt)

CloseReasoning(x) ==
    IF ~x.reasoning THEN x
    ELSE LET y == Emit(x, "signature", {x.thinkAt},
                       IF x.signature THEN "given" ELSE "empty", <<>>)
         IN  [StopBlock(y, x.thinkAt) EXCEPT !.reasoning = FALSE, !.signature = FALSE]

-----------------------------------------------------------------------------
(* process_content_with_thinking.  Each turn of its loop goes on to the next *)
(* stage or leaves the loop, so the loop is the composition of its stages.   *)

BeforeTag(x) ==
    LET p      == StartTag(x.buffer)
        before == SubSeq(x.buffer, 1, p - 1)
        safe   == Releasable(x.buffer, Len(OpenTag))
        y      == IF Blank(before) THEN x ELSE TextDelta(x, before)
    IN  CASE x.inside \/ x.extracted -> x
          [] ~(x.inside \/ x.extracted) /\ p # 0 ->
                StartBlock([y EXCEPT !.inside = TRUE, !.strip = TRUE,
                                     !.buffer = From(@, p + 2),
                                     !.thinkAt = Len(y.blocks) + 1], "thinking")
          [] OTHER -> IF Blank(safe) THEN x
                      ELSE TextDelta([x EXCEPT !.buffer = From(@, Len(safe) + 1)], safe)

\* kept: how much of the buffer may be the beginning of the end of the block.
InsideTagHolding(x, kept) ==
    LET b    == IF x.strip THEN StripNewline(x.buffer) ELSE x.buffer
        y    == [x EXCEPT !.buffer = b, !.strip = @ /\ x.buffer = <<>>]
        p    == EndTag(b)
        safe == Releasable(b, kept)
    IN  CASE ~x.inside -> x
          [] x.inside /\ p # 0 ->
                [CloseFakeThinking(SomeThinking(y, SubSeq(b, 1, p - 1)))
                    EXCEPT !.inside = FALSE, !.extracted = TRUE, !.buffer = From(@, p + 4)]
          [] OTHER -> SomeThinking([y EXCEPT !.buffer = From(@, Len(safe) + 1)], safe)

\* Mutation of InsideTag: only the tag is held back, not the newlines after it.
InsideTagShort(x) == InsideTagHolding(x, Len(CloseTag))

InsideTag(x) == InsideTagHolding(x, Len(CloseTag) + 2)

AfterTag(x) ==
    IF x.extracted /\ ~x.inside /\ x.buffer # <<>>
    THEN TextDelta([x EXCEPT !.buffer = <<>>], x.buffer)
    ELSE x

Scan(x) == AfterTag(InsideTag(BeforeTag(x)))

\* The end tag at the very end of the buffer, before a tool or the end of the
\* stream: what follows it is text.
EndAtTag(x, p) ==
    LET y    == CloseFakeThinking(SomeThinking(x, SubSeq(x.buffer, 1, p - 1)))
        z    == [y EXCEPT !.inside = FALSE, !.extracted = TRUE, !.buffer = <<>>]
        left == TrimStart(From(x.buffer, p + 2))
    IN  IF left = <<>> THEN z ELSE TextDelta(z, left)

-----------------------------------------------------------------------------
(* process_kiro_event, one operator per kind of event. *)

MarkFailure(x, kind) == IF x.failure = "none" THEN [x EXCEPT !.failure = kind] ELSE x

AssistantResponse(x, text) ==
    LET y == CloseReasoning([x EXCEPT !.produced = TRUE])
    IN  CASE text = <<>> -> x
          [] text # <<>> /\ y.thinking /\ ~y.native -> Scan([y EXCEPT !.buffer = @ \o text])
          [] OTHER -> TextDelta(y, text)

\* Mutation of ReasoningContent: the tag parser's state survives.
ReasoningBesideTag(x, text, signed) ==
    LET y == [x EXCEPT !.signature = @ \/ signed, !.native = TRUE]
        w == IF y.reasoning THEN y
             ELSE StartBlock([y EXCEPT !.thinkAt = Len(y.blocks) + 1, !.reasoning = TRUE],
                             "thinking")
    IN  IF text = <<>> \/ ~x.thinking \/ (x.textAt # 0 /\ ~x.reasoning) THEN x
        ELSE ThinkingDelta([w EXCEPT !.produced = TRUE], text)

ReasoningContent(x, text, signed) ==
    LET y == [x EXCEPT !.signature = @ \/ signed]
        z == IF y.native THEN y
             ELSE [y EXCEPT !.native = TRUE, !.buffer = <<>>, !.inside = FALSE,
                            !.extracted = FALSE]
        w == IF z.reasoning THEN z
             ELSE StartBlock([z EXCEPT !.thinkAt = Len(z.blocks) + 1, !.reasoning = TRUE],
                             "thinking")
    IN  IF text = <<>> \/ ~x.thinking \/ (x.textAt # 0 /\ ~x.reasoning) THEN y
        ELSE ThinkingDelta([w EXCEPT !.produced = TRUE], text)

\* What is in the scan's buffer goes out before the block of the tool starts.
FlushBeforeTool(x) ==
    LET p == EndTagAtBufferEnd(x.buffer)
        y == IF x.thinking /\ x.inside /\ p # 0 THEN EndAtTag(x, p) ELSE x
    IN  IF y.thinking /\ ~y.inside /\ ~y.extracted /\ y.buffer # <<>>
        THEN TextDelta([y EXCEPT !.buffer = <<>>], y.buffer)
        ELSE y

\* Mutation of ToolUse: what is held back goes out when the block has been started.
ToolUseFlushedLate(x, t, input, stop) ==
    LET y == FlushBeforeTool(StartTool([CloseReasoning(x) EXCEPT !.hasTool = TRUE], t))
        z == IF input THEN Delta([y EXCEPT !.produced = TRUE], y.tools[t], "json", <<>>) ELSE y
    IN  IF stop THEN StopBlock(z, z.tools[t]) ELSE z

ToolUse(x, t, input, stop) ==
    LET y == StartTool(FlushBeforeTool([CloseReasoning(x) EXCEPT !.hasTool = TRUE]), t)
        z == IF input THEN Delta([y EXCEPT !.produced = TRUE], y.tools[t], "json", <<>>) ELSE y
    IN  IF stop THEN StopBlock(z, z.tools[t]) ELSE z

ContextUsage(x, full) ==
    IF full THEN [x EXCEPT !.reason = "model_context_window_exceeded"] ELSE x

Exception(x, tooLong) ==
    IF tooLong THEN [x EXCEPT !.reason = "max_tokens"] ELSE MarkFailure(x, "upstream_exception")

\* Events that only count tokens, an unknown type, and a payload that
\* Event::from_frame rejects.
Ignored(x) == x

OnEvent(x, e) ==
    CASE e.kind = "text"      -> AssistantResponse(x, e.text)
      [] e.kind = "reasoning" -> ReasoningContent(x, e.text, e.signed)
      [] e.kind = "tool"      -> ToolUse(x, e.tool, e.input, e.stop)
      [] e.kind = "context"   -> ContextUsage(x, e.full)
      [] e.kind = "error"     -> MarkFailure(x, "upstream_error")
      [] e.kind = "exception" -> Exception(x, e.tooLong)
      [] OTHER                -> Ignored(x)

-----------------------------------------------------------------------------
(* generate_initial_events and generate_final_events. *)

Initial(x) ==
    LET y == Emit([x EXCEPT !.started = TRUE], "message_start", {}, "", <<>>)
    IN  IF x.thinking THEN y
        ELSE StartBlock([y EXCEPT !.textAt = Len(y.blocks) + 1], "text")

ProducedAnyContent(x) == x.produced \/ x.native \/ \E t \in ToolId : x.tools[t] # 0

FlushAtEnd(x) ==
    LET p == EndTagAtBufferEnd(x.buffer)
    IN  CASE ~x.thinking \/ x.buffer = <<>> -> x
          [] x.thinking /\ x.buffer # <<>> /\ x.inside ->
                IF p # 0 THEN EndAtTag(x, p)
                ELSE [CloseFakeThinking(ThinkingDelta(x, x.buffer)) EXCEPT !.buffer = <<>>]
          [] OTHER -> [TextDelta(x, x.buffer) EXCEPT !.buffer = <<>>]

\* An answer of thinking alone gets a text block, and counts as cut short.
TextAfterThinking(x) ==
    IF /\ x.thinking /\ x.thinkAt # 0
       /\ \A i \in DOMAIN x.blocks : x.blocks[i].type = "thinking"
    THEN TextDelta([x EXCEPT !.reason = "max_tokens"], <<"s">>)
    ELSE x

\* Mutation of StopReason: a tool call hides why the answer was cut short.
StopReasonToolFirst(x) == IF x.hasTool THEN "tool_use"
                          ELSE IF x.reason # "none" THEN x.reason ELSE "end_turn"

StopReason(x) == CASE x.reason # "none" -> x.reason
                   [] x.reason = "none" /\ x.hasTool -> "tool_use"
                   [] OTHER -> "end_turn"

EndMessage(x) ==
    Emit(Emit(Stop(x, OpenBlocks(x)), "message_delta", {}, StopReason(x), <<>>),
         "message_stop", {}, "", <<>>)

EndInError(x) == Emit(SignAndStopAll(CloseReasoning(x)), "error", {}, x.failure, <<>>)

Final(x) ==
    LET y == IF ProducedAnyContent(x) THEN x ELSE MarkFailure(x, "empty_response")
    IN  IF y.failure # "none" THEN EndInError(y)
        ELSE EndMessage(TextAfterThinking(FlushAtEnd(CloseReasoning(y))))
=============================================================================
