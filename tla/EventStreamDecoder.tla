------------------------ MODULE EventStreamDecoder ------------------------
(***************************************************************************)
(* kiro/parser: the decoder of the AWS event stream.  A byte stream is a   *)
(* sequence of cells, FrameLen to a frame.  A cell says what the bytes at  *)
(* it read as when they are taken for the beginning of a frame: the length *)
(* they declare, whether the checksum of the prelude fits, what the rest   *)
(* of the frame turns out to be, and the event in it.  Within a frame the  *)
(* bytes are text, and read as a length beyond every limit.                *)
(***************************************************************************)
EXTENDS Naturals, Sequences, SequencesExt

CONSTANTS FrameLen,    \* cells of a frame
          PreludeLen,  \* cells that must be there before a length is read
          MaxErrors,   \* errors in a row that stop the decoder
          MaxBuffer    \* cells that the buffer takes

\* In the code a frame has at least 16 bytes, its prelude 12, and 5 errors are
\* the limit: the decoder stops before it can skip a whole frame byte by byte.
ASSUME DecoderAssumption ==
    /\ {FrameLen, PreludeLen, MaxErrors, MaxBuffer} \subseteq Nat
    /\ 0 < MaxErrors /\ MaxErrors < FrameLen
    /\ 0 < PreludeLen /\ PreludeLen < FrameLen
    /\ FrameLen <= MaxBuffer

\* How a frame can be damaged: a length out of range, a length of more than the
\* frame, a prelude that does not fit its checksum, a body that does not, and
\* headers that end in the middle of a value.
Damage == {"length", "swallow", "prelude", "data", "headers"}
Intact(trouble) == trouble \notin Damage

Text == [len |-> 0, crc |-> FALSE, body |-> "text", event |-> <<>>]

\* The cells of a frame that carries an event.
Cells(event, damage) ==
    <<[len   |-> CASE damage = "length"  -> 0
                   [] damage = "swallow" -> FrameLen + 1
                   [] OTHER              -> FrameLen,
       crc   |-> damage \notin {"prelude", "swallow"},
       body  |-> IF Intact(damage) THEN "intact" ELSE damage,
       event |-> event]>> \o [i \in 1 .. FrameLen - 1 |-> Text]

NewDecoder == [buf |-> <<>>, state |-> "Ready", errors |-> 0]

\* parse_frame with parse_headers, in the order of the checks.
Parse(buf) ==
    LET c == Head(buf)
    IN  CASE Len(buf) < PreludeLen -> "more"
          [] Len(buf) >= PreludeLen /\ c.len = 0 -> "prelude"
          [] Len(buf) >= PreludeLen /\ c.len # 0 /\ Len(buf) < c.len -> "more"
          [] OTHER -> CASE ~c.crc             -> "prelude"
                        [] c.crc /\ c.body = "intact" -> "frame"
                        [] OTHER              -> c.body

Feed(d, cells) ==
    IF Len(d.buf) + Len(cells) > MaxBuffer THEN d
    ELSE [d EXCEPT !.buf = @ \o cells,
                   !.state = IF @ = "Recovering" THEN "Ready" ELSE @]

Advance(d, n) == [d EXCEPT !.buf = SubSeq(@, n + 1, Len(@))]

\* Mutations of TryRecover: one byte is skipped, whatever the error; and the
\* length that a frame declares is skipped, whatever the error.
TryRecoverByByte(d, error) == Advance(d, 1)
TryRecoverByFrame(d, error) == Advance(d, IF Head(d.buf).len = 0 THEN 1 ELSE Head(d.buf).len)

\* A frame with a damaged body is skipped as a whole, else one byte is.
TryRecover(d, error) == Advance(d, IF error = "data" THEN Head(d.buf).len ELSE 1)

\* decode, and whether the iterator returns another item after this one.
Decode(d) ==
    LET result == Parse(d.buf)
        failed == [d EXCEPT !.errors = @ + 1]
    IN  CASE d.buf = <<>> \/ result = "more" -> [d EXCEPT !.state = "Ready"]
          [] d.buf # <<>> /\ result = "frame" ->
                [Advance(d, Head(d.buf).len) EXCEPT !.state = "Ready", !.errors = 0]
          [] OTHER -> IF failed.errors >= MaxErrors THEN [failed EXCEPT !.state = "Stopped"]
                      ELSE [TryRecover(failed, result) EXCEPT !.state = "Recovering"]

\* A turn of decode_iter: it ends at the first error, and at the first frame that is
\* not complete; every other turn takes a frame off the buffer.
Turn(r, i) ==
    LET ready == r.on /\ r.d.state = "Ready" /\ r.d.buf # <<>>
        got   == ready /\ Parse(r.d.buf) = "frame"
    IN  [d      |-> IF ready THEN Decode(r.d) ELSE r.d,
         events |-> IF got THEN Append(r.events, Head(r.d.buf).event) ELSE r.events,
         on     |-> got]

\* decode_iter to its end: the decoder after it, and the events of its frames.
DecodeAll(d) ==
    FoldLeft(Turn, [d |-> d, events |-> <<>>, on |-> TRUE],
             [i \in 1 .. Len(d.buf) \div FrameLen + 1 |-> i])

\* The events that the elements of s at the positions in K carry, in their order.
Collect(s, K) ==
    LET f[n \in 0 .. Len(s)] == IF n = 0 THEN <<>>
                               ELSE IF n \in K THEN Append(f[n - 1], s[n].event) ELSE f[n - 1]
    IN  f[Len(s)]

\* The frames that a buffer holds from its beginning on.
Buffered(cells) == Collect(cells, {i \in DOMAIN cells : cells[i].body = "intact"})
=============================================================================
