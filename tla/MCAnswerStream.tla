-------------------------- MODULE MCAnswerStream --------------------------
(* AnswerStream with small sets of events. *)
EXTENDS AnswerStream, TLC

Says(t) == [kind |-> "text", text |-> t]
Thinks(t, s) == [kind |-> "reasoning", text |-> t, signed |-> s]
Calls(t, i, s) == [kind |-> "tool", tool |-> t, input |-> i, stop |-> s]

\* Tags in pieces and whole.
TagTexts == {<<"o">>, <<"O", "a">>, <<"o", "O", "b">>, <<"c">>, <<"C", "n">>, <<"n", "b">>}
QuoteTexts == {<<"o", "O">>, <<"a", "q", "c", "C", "n">>, <<"n">>, <<"b">>}

ToolIds == {"t1", "t2"}
NoTools == {"t1"}

Mixed == {Says(t) : t \in TagTexts}
         \cup {Thinks(<<"a">>, FALSE), Thinks(<<>>, TRUE)}
         \cup {Calls("t1", TRUE, FALSE), Calls("t1", FALSE, TRUE), Calls("t2", TRUE, TRUE)}
         \cup {[kind |-> "context", full |-> TRUE], [kind |-> "metering"],
               [kind |-> "error"],
               [kind |-> "exception", tooLong |-> TRUE],
               [kind |-> "exception", tooLong |-> FALSE]}

Quoted == {Says(t) : t \in QuoteTexts}
=============================================================================
