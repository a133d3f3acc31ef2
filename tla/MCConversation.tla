-------------------------- MODULE MCConversation ---------------------------
(***************************************************************************)
(* Instances of Conversation for TLC.                                      *)
(***************************************************************************)
EXTENDS Conversation

Answer == [thought |-> TRUE, text |-> TRUE, stream |-> TRUE, textFirst |-> FALSE, calls |-> 0]

\* Text before its reasoning, with two calls; calls alone, blocking; reasoning
\* alone; text without reasoning.
FourAnswers ==
    {[Answer EXCEPT !.textFirst = TRUE, !.calls = 2],
     [Answer EXCEPT !.text = FALSE, !.stream = FALSE, !.calls = 1],
     [Answer EXCEPT !.text = FALSE],
     [Answer EXCEPT !.thought = FALSE]}

\* What native models emit: interleaved reasoning and calls; a search that the
\* upstream itself made, a hidden chain of thought and text; text that the call
\* of a freeform tool, reasoning and another call follow.
ThreeNativeAnswers ==
    {<<"thought", "function", "thought", "function">>, <<"builtin", "blank", "text">>,
     <<"text", "freeform", "thought", "function">>}

\* The first result of a turn is a list of parts, the second is text.
OneOfEach == {<<Parts, Text>>}

\* Today's Codex: everything in an item, a namespace with a freeform and a
\* built-in tool in it, and a flat tool that has the name which the tool of
\* another namespace would be given; and a namespace within a namespace's name.
Lite == [tools |-> <<>>,
         items |-> <<Function(<<"multi", "wait">>, 3),
                     Namespace(<<"functions">>, <<Function(<<"exec">>, 1), Freeform(<<"patch">>, 1),
                                                  BuiltIn(<<"search">>)>>),
                     Namespace(<<"multi">>, <<Function(<<"wait">>, 1)>>),
                     Namespace(<<"multi", "agent">>, <<Function(<<"spawn">>, 1)>>)>>]
\* An older Codex: top-level tools, some in a namespace, one with another
\* schema than before, as after the update of a tool server, and one whose
\* encoded name is that of another tool in Lite, split elsewhere.
TopLevel == [tools |-> <<Function(<<"exec">>, 1), BuiltIn(<<"search">>),
                         Namespace(<<"functions">>, <<Function(<<"exec">>, 2)>>),
                         Namespace(<<"multi">>, <<Function(<<"agent", "spawn">>, 2)>>)>>,
             items |-> <<>>]

TwoDeliveries == {Lite, TopLevel}
=============================================================================
