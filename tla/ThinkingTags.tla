--------------------------- MODULE ThinkingTags ---------------------------
(***************************************************************************)
(* How anthropic/stream.rs finds <thinking> and </thinking> in the text of *)
(* an answer.  A text is a sequence of characters of a scaled alphabet:    *)
(* each tag is two characters long, so that a chunk of the stream may end  *)
(* inside of a tag, and the lengths that the code holds back are scaled    *)
(* alike.  No RECURSIVE operator: the searches are minima over positions.  *)
(***************************************************************************)
EXTENDS Naturals, Sequences, SequencesExt

\* "o" "O" are the halves of <thinking>, "c" "C" those of </thinking>, "n" is a
\* newline, "s" other white space, "q" any other character that QUOTE_CHARS
\* lists; "a" and "b" are ordinary text.
Char == {"o", "O", "c", "C", "n", "s", "q", "a", "b"}
White == {"n", "s"}

OpenTag  == <<"o", "O">>
CloseTag == <<"c", "C">>

\* QUOTE_CHARS holds the angle brackets too: a tag next to a tag counts as
\* quoted.  The first half of a tag begins with one, the second half ends with one.
EndsInQuote   == {"q", "O", "C"}
StartsInQuote == {"q", "o", "c"}

Blank(s) == \A i \in DOMAIN s : s[i] \in White

Newlines(s, p) == p + 1 <= Len(s) /\ s[p] = "n" /\ s[p + 1] = "n"

From(s, p) == SubSeq(s, p, Len(s))

\* What a scan may release when it must hold back `kept` characters.
Releasable(s, kept) == SubSeq(s, 1, Len(s) - kept)

\* The least of a set of positions, 0 for "not found".
Least(S) == IF S = {} THEN 0 ELSE CHOOSE p \in S : \A q \in S : p <= q

TrimStart(s) == LET p == Least({i \in DOMAIN s : s[i] \notin White})
                IN  IF p = 0 THEN <<>> ELSE From(s, p)

\* tag stands at p and is not next to a quoting character.
Unquoted(s, p, tag) ==
    /\ SubSeq(s, p, p + 1) = tag
    /\ p > 1 => s[p - 1] \notin EndsInQuote
    /\ p + 2 <= Len(s) => s[p + 2] \notin StartsInQuote

StartTag(s) == Least({p \in 1 .. Len(s) - 1 : Unquoted(s, p, OpenTag)})

EndTag(s) ==
    Least({p \in 1 .. Len(s) - 1 : Unquoted(s, p, CloseTag) /\ Newlines(s, p + 2)})

EndTagAtBufferEnd(s) ==
    Least({p \in 1 .. Len(s) - 1 : Unquoted(s, p, CloseTag) /\ Blank(From(s, p + 2))})

StripNewline(s) == IF s # <<>> /\ Head(s) = "n" THEN Tail(s) ELSE s

\* The thinking and the text of a complete answer, as the handler of
\* non-streamed requests extracts them.
Extract(s) ==
    LET start  == StartTag(s)
        before == SubSeq(s, 1, start - 1)
        rest   == From(s, start + 2)
        kept   == IF Blank(before) THEN <<>> ELSE before
        end    == EndTag(rest)
        last   == EndTagAtBufferEnd(rest)
        Found(p, after) == [thinking |-> StripNewline(SubSeq(rest, 1, p - 1)),
                            text     |-> kept \o after]
    IN  CASE start # 0 /\ end # 0  -> Found(end, From(rest, end + 4))
          [] start # 0 /\ end = 0 /\ last # 0
                                   -> Found(last, TrimStart(From(rest, last + 2)))
          [] OTHER                 -> [thinking |-> <<>>, text |-> s]
=============================================================================
