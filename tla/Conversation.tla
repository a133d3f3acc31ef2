--------------------------- MODULE Conversation ----------------------------
(***************************************************************************)
(* A conversation of several turns through the proxy: what a client sends, *)
(* what the proxy makes of it for a Chat or a native Responses upstream,   *)
(* what it stores and what it shows.  The client either names an earlier   *)
(* response (`previous_response_id`, style "session") or sends its whole   *)
(* transcript with `store: false` (style "inline"), as Codex does.  It may *)
(* go back to any earlier turn and change upstreams between turns.         *)
(***************************************************************************)
EXTENDS ToolBinding

CONSTANTS
    MaxTurns,      \* bound on the turns that may be answered; one more is asked
    Answers,       \* shapes of a Chat answer:
                   \* [thought, text, stream, textFirst : BOOLEAN, calls : Nat]
    NativeAnswers, \* shapes of a native answer: sequences of "thought", "blank", "text"
                   \* and, for a call, the kind of the tool
    Results,       \* what the calls of a turn return, in order: sequences of Text, Parts
    Deliveries     \* ways a request declares tools: [tools, items : Seq(entry)]

ASSUME MaxTurnsAssumption == MaxTurns \in Nat \ {0}
ASSUME ResultsAssumption == \A r \in Results : ToSet(r) \subseteq {Text, Parts}
ASSUME AnswersAssumption ==
    \A a \in Answers : /\ {a.thought, a.text, a.stream, a.textFirst} \subseteq BOOLEAN
                       /\ a.calls \in Nat

VARIABLES
    style,     \* "session" or "inline"
    sessions,  \* the store: full contexts by the id of the turn they end with
    held,      \* what the client holds of each answered turn
    request,   \* the request an upstream is working on, or None
    turns      \* requests made so far; the n-th is turn n

vars == <<style, sessions, held, request, turns>>

---------------------------------------------------------------------------
(* Two views of a conversation that must agree: `said` is kept by the      *)
(* model as turns are asked and answered, Spoken is read off messages and  *)
(* items.  Neither has reasoning or tool declarations in it.               *)

Say(n) == <<"say", n>>
Call(id, name) == <<"call", id, name>>
Result(id, result) == <<"result", id, result>>
\* The same of a freeform or a built-in tool.
NativeCall(id, name) == <<"native call", id, name>>
NativeResult(id, result) == <<"native result", id, result>>

NativeCallTypes == {"custom_tool_call", "web_search_call"}

MessageSpeech(m) ==
    (CASE m.role = "tool" -> <<Result(m.callId, m.content)>>
       [] m.content = None -> <<>>
       [] OTHER -> <<m.content>>)
      \o [k \in DOMAIN m.calls |-> Call(m.calls[k].id, m.calls[k].name)]

ItemSpeech(item) ==
    CASE item.type = "message" -> <<item.text>>
      [] item.type = "function_call" -> <<Call(item.id, ChatName(item))>>
      [] item.type = "function_call_output" -> <<Result(item.id, item.result)>>
      [] item.type \in NativeCallTypes -> <<NativeCall(item.id, ChatName(item))>>
      [] item.type = "custom_tool_call_output" -> <<NativeResult(item.id, item.result)>>
      [] OTHER -> <<>>

Spoken(messages) == FlattenSeq([i \in DOMAIN messages |-> MessageSpeech(messages[i])])
SpokenItems(items) == FlattenSeq([i \in DOMAIN items |-> ItemSpeech(items[i])])

NotInstructions(utterance) == utterance # Instructions

\* What a Chat request has words for: no call of a freeform or a built-in tool
\* and no result of one, and of a list of parts only that it was a result.
Expressible(utterance) == utterance[1] \notin {"native call", "native result"}
InChatTerms(said) ==
    LET plain == SelectSeq(said, Expressible)
    IN [i \in DOMAIN plain |-> IF plain[i][1] = "result" /\ plain[i][3] = Parts
                               THEN Result(plain[i][2], Empty)
                               ELSE plain[i]]

---------------------------------------------------------------------------
(* What is sent upstream for a request.                                    *)

ChatMessages(r) == ToChatMessages(r.history, Instructions, r.input)
Binding(r) == ChatBinding(r.history, r.input, r.tools)
NativeInput(r) == StripAdditionalTools(r.history \o r.input)
NativeToolsOf(r) == NativeTools(r.history \o r.input, r.tools)

\* What a native upstream can call: flat tools, and inner ones of a namespace.
NativeCallable(r) ==
    LET Callable(ns, t) == [kind |-> t.kind, namespace |-> ns, name |-> t.name]
        given == ToSet(NativeToolsOf(r))
    IN {Callable(<<>>, t) : t \in {g \in given : g.kind # "namespace"}}
         \cup UNION {{Callable(g.name, t) : t \in ToSet(g.tools)} :
                        g \in {h \in given : h.kind = "namespace"}}

---------------------------------------------------------------------------
(* The client.                                                             *)

\* The calls of turn n that wait for the client; a built-in tool has run upstream.
Calls(items, n) ==
    SelectSeq(items, LAMBDA i : i.type \in {"function_call", "custom_tool_call"} /\ i.id[1] = n)
ResultOf(call, result) ==
    OutputItem(IF call.type = "function_call" THEN "function_call_output"
               ELSE "custom_tool_call_output", call.id, result)

\* Codex answers the calls of the turn it goes on from, or asks something;
\* a conversation opens with a developer message.
NewItems(n, prev, results) ==
    LET ask == <<MessageItem("user", <<"ask", n>>)>>
        open == IF prev = None THEN <<>> ELSE Calls(held[prev].shown, prev)
    IN CASE prev = None -> <<MessageItem("developer", <<"rules", n>>)>> \o ask
         [] open # <<>> -> [k \in DOMAIN open |-> ResultOf(open[k], results[k])]
         [] OTHER -> ask

\* The proxy's lookup of previous_response_id: a miss is an empty history.
HistoryOf(prev) == IF style = "session" /\ prev \in DOMAIN sessions THEN sessions[prev] ELSE <<>>

\* What went before, as far as it is still known to the proxy or sent again.
SaidBefore(prev) ==
    IF prev # None /\ (style = "inline" \/ prev \in DOMAIN sessions)
    THEN held[prev].said ELSE <<>>

Transcript(prev) == IF prev = None THEN <<>> ELSE held[prev].shown

Declaration(delivery) == IF delivery.items = <<>> THEN <<>> ELSE <<ToolsItem(delivery.items)>>

Init ==
    /\ style \in {"session", "inline"}
    /\ sessions = [n \in {} |-> <<>>]
    /\ held = [n \in {} |-> <<>>]
    /\ request = None
    /\ turns = 0

\* A request comes in: from the start or from an earlier turn, with its way
\* of declaring tools, for a route of either format; it may bring results.
Ask(prev, delivery, native, results) ==
    LET n == turns + 1
        new == NewItems(n, prev, results)
    IN /\ request = None
       /\ turns <= MaxTurns
       /\ prev \in DOMAIN held \cup {None}
       /\ turns' = n
       /\ request' =
            [prev |-> prev, native |-> native, history |-> HistoryOf(prev),
             input |-> Declaration(delivery)
                         \o (IF style = "inline" THEN Transcript(prev) ELSE <<>>) \o new,
             tools |-> delivery.tools, new |-> new,
             said |-> SaidBefore(prev) \o SpokenItems(new)]
       /\ UNCHANGED <<style, sessions, held>>

---------------------------------------------------------------------------
(* The answers.                                                            *)

\* The turn is complete: the client holds what it was shown, and unless it
\* said `store: false` the whole context is stored.
Complete(shown, stored, speech, answer) ==
    LET n == turns
    IN /\ held' = [m \in DOMAIN held \cup {n} |->
                      IF m = n
                      THEN [shown |-> Transcript(request.prev) \o request.new \o shown,
                            said |-> request.said \o speech,
                            answer |-> answer]
                      ELSE held[m]]
       /\ sessions' = IF style = "session"
                      THEN [m \in DOMAIN sessions \cup {n} |->
                              IF m = n THEN request.history \o request.input \o stored
                              ELSE sessions[m]]
                      ELSE sessions
       /\ request' = None
       /\ UNCHANGED <<style, turns>>

When(condition, item) == IF condition THEN <<item>> ELSE <<>>

ThoughtItems(n, a) == When(a.thought, ReasoningItem(<<"think", n>>))
TextItems(n, a) == When(a.text, MessageItem("assistant", Say(n)))

\* The calls of a Chat answer, decoded from the names the model used.
CallItems(n, names, map) ==
    [k \in DOMAIN names |-> CallItem("function_call", <<n, k>>, DecodeToolCallName(map, names[k]))]

\* Bug: stored in the order the deltas came in.
CanonicalItemsAsShown(n, a, calls) ==
    IF a.textFirst
    THEN TextItems(n, a) \o ThoughtItems(n, a) \o calls
    ELSE ThoughtItems(n, a) \o TextItems(n, a) \o calls

\* Reasoning first, whatever came first: what a blocking request returns and
\* what both store.
CanonicalItems(n, a, calls) == ThoughtItems(n, a) \o TextItems(n, a) \o calls

\* A streaming client is shown reasoning and text in the order they came.
ShownItems(n, a, calls) ==
    IF a.stream /\ a.textFirst
    THEN TextItems(n, a) \o ThoughtItems(n, a) \o calls
    ELSE CanonicalItems(n, a, calls)

\* The model may call any bound tool, by the name it was given.
AnswerChat(a) ==
    /\ request # None /\ ~request.native /\ turns <= MaxTurns
    /\ LET n == turns
           binding == Binding(request)
       IN \E names \in [1..a.calls -> {t.name : t \in ToSet(binding.bound)}] :
             LET calls == CallItems(n, names, binding.map)
             IN Complete(ShownItems(n, a, calls), CanonicalItems(n, a, calls),
                         When(a.text, Say(n)) \o [k \in DOMAIN names |-> Call(<<n, k>>, names[k])],
                         [native |-> FALSE, thought |-> a.thought, text |-> a.text, names |-> names])

\* The item of a call is one of its tool's kind.
CallType == [function |-> "function_call", freeform |-> "custom_tool_call",
             builtin |-> "web_search_call"]

\* The output of a native upstream, in the order it likes.
NativeItem(n, k, piece, tools) ==
    CASE piece = "thought" -> ReasoningItem(<<"think", n, k>>)
      [] piece = "blank" -> ReasoningItem(None)
      [] piece = "text" -> MessageItem("assistant", <<"say", n, k>>)
      [] OTHER -> CallItem(CallType[piece], <<n, k>>, tools[piece])

\* The kinds of tools that an answer calls, and the choices of one of each.
KindsOf(pieces) == ToSet(pieces) \cap DOMAIN CallType
ToolsFor(pieces) ==
    LET Callables(kind) == {t \in NativeCallable(request) : t.kind = kind}
        all == UNION {Callables(kind) : kind \in KindsOf(pieces)}
    IN {f \in [KindsOf(pieces) -> all] : \A kind \in KindsOf(pieces) : f[kind].kind = kind}

AnswerNative(pieces) ==
    /\ request # None /\ request.native /\ turns <= MaxTurns
    /\ \E tools \in ToolsFor(pieces) :
          LET output == [k \in DOMAIN pieces |-> NativeItem(turns, k, pieces[k], tools)]
          IN Complete(output, output, SpokenItems(output),
                      [native |-> TRUE, thought |-> FALSE, text |-> FALSE, names |-> <<>>])

\* An upstream error, a broken stream or a client that is gone: nothing of
\* the turn is kept.
Fail ==
    /\ request # None
    /\ request' = None
    /\ UNCHANGED <<style, sessions, held, turns>>

\* The store loses a session: expired, evicted, or the proxy was restarted.
Forget(n) ==
    /\ n \in DOMAIN sessions
    /\ sessions' = Restrict(sessions, DOMAIN sessions \ {n})
    /\ UNCHANGED <<style, held, request, turns>>

Next ==
    \/ \E prev \in DOMAIN held \cup {None}, d \in Deliveries, native \in BOOLEAN,
          results \in Results :
          Ask(prev, d, native, results)
    \/ \E a \in Answers : AnswerChat(a)
    \/ \E pieces \in NativeAnswers : AnswerNative(pieces)
    \/ Fail
    \/ \E n \in DOMAIN sessions : Forget(n)

Spec == Init /\ [][Next]_vars

---------------------------------------------------------------------------
(* Properties.                                                             *)

Tool == [namespace : Seq(STRING), name : Seq(STRING)]

\* The state keeps its shape: contexts and transcripts are sequences of items,
\* and only turns that were asked are stored, held or worked on.
TypeOK ==
    LET Items == {"message", "reasoning", "function_call", "function_call_output",
                  "custom_tool_call_output", "additional_tools"} \cup NativeCallTypes
        IsItems(s) == \A i \in DOMAIN s : s[i].type \in Items
        CallsTools(s) == \A i \in DOMAIN s :
                            s[i].type \in {"function_call"} \cup NativeCallTypes =>
                               [namespace |-> s[i].namespace, name |-> s[i].name] \in Tool
    IN /\ turns \in 0..MaxTurns + 1
       /\ DOMAIN sessions \subseteq DOMAIN held
       /\ DOMAIN held \subseteq 1..turns
       /\ \A n \in DOMAIN sessions : IsItems(sessions[n]) /\ CallsTools(sessions[n])
       /\ \A n \in DOMAIN held : IsItems(held[n].shown) /\ CallsTools(held[n].shown)
       /\ request # None => IsItems(request.history) /\ IsItems(request.input)

\* Whatever mix of streamed, blocking and native turns, forks, failed turns and
\* lost sessions came before, an upstream is told what was asked, said, called
\* and returned on the way to this turn, once, in order, and every call under
\* the name the model had called: a native one all of it, a Chat one all that
\* Chat has words for.  The exceptions are the calls of freeform and built-in
\* tools that a native upstream made, with their results, which are dropped on
\* the way to Chat, and results that are lists of parts, which come as empty
\* text (to_chat_request_with_ns_map, convert_responses_item_to_chat,
\* handle_responses_format, save_session).
ConversationReplayed ==
  /\ TypeOK
  /\ request # None /\ request.native => request.said = SpokenItems(NativeInput(request))
  /\ request # None /\ ~request.native =>
        InChatTerms(request.said) = SelectSeq(Spoken(ChatMessages(request)), NotInstructions)

\* Turn n is replayed as one assistant message that carries its text, all its
\* calls and its own reasoning, right before the results of the calls.
ReplayedWhole(messages, n) ==
    LET a == held[n].answer
    IN \E i \in DOMAIN messages :
          /\ messages[i].content = (IF a.text THEN Say(n) ELSE None)
          /\ messages[i].calls = [k \in DOMAIN a.names |-> [id |-> <<n, k>>, name |-> a.names[k]]]
          /\ a.thought => messages[i].reasoning = <<"think", n>>
          /\ \A k \in DOMAIN a.names :
                i + k \in DOMAIN messages /\ messages[i + k].callId = <<n, k>>

\* A stored Chat answer comes back as the one message it was, whatever order it
\* was streamed in and whatever turns surround it (push_item_messages, emit_finish).
ChatAnswersStayWhole ==
    request # None /\ ~request.native /\ style = "session" =>
        \A n \in DOMAIN held :
            LET a == held[n].answer
                spoke == \/ a.text /\ Contains(request.said, Say(n))
                         \/ a.names # <<>> /\ Contains(request.said, Call(<<n, 1>>, a.names[1]))
            IN ~a.native /\ spoke => ReplayedWhole(ChatMessages(request), n)

\* What one entry of `tools` or of an `additional_tools` item declares, as Codex
\* dispatches on it.
DeclaredBy(entry) ==
    LET Flat(t) == [namespace |-> <<>>, name |-> t.name, schema |-> t.schema]
        Inner(t) == IF t.kind = "function"
                    THEN [Flat(t) EXCEPT !.namespace = entry.name]
                    ELSE Flat(t)
    IN CASE entry.kind = "namespace" ->
                {Inner(t) : t \in {u \in ToSet(entry.tools) : u.kind # "builtin"}}
         [] entry.kind = "builtin" -> {}
         [] OTHER -> {Flat(entry)}

DeclaredAtTop(r) == UNION {DeclaredBy(e) : e \in ToSet(r.tools)}

\* In the items of the input and of the replayed history.
DeclaredInItems(r) ==
    LET items == {i \in ToSet(r.history \o r.input) : i.type = "additional_tools"}
    IN UNION {DeclaredBy(e) : e \in UNION {ToSet(i.tools) : i \in items}}

Declared(r) == DeclaredAtTop(r) \cup DeclaredInItems(r)

\* The encoded names that two namespaces claim, one of the request's `tools`
\* and one of an item, each with another part of the name.
Ambiguous(r) ==
    {ChatName(d) : d \in {t \in DeclaredAtTop(r) :
        \E h \in DeclaredInItems(r) : /\ <<>> \notin {t.namespace, h.namespace}
                                      /\ t.namespace # h.namespace
                                      /\ ChatName(t) = ChatName(h)}}

\* A Chat upstream is given every declared tool under one name only, however
\* often the history repeats the declarations; and a call of it comes back to
\* the client as a call of the very tool, schema and all, that was bound.  The
\* exception is an ambiguous name: the tool of `tools` is bound, but the decode
\* map keeps the entry of the item, so the call comes back as one of the other
\* declared tool (to_chat_request_with_ns_map, push_namespace_inner_tools).
BindingFaithful ==
    request # None /\ ~request.native =>
        LET binding == Binding(request)
            bound == binding.bound
            declared == Declared(request)
            Dispatched(t) == [namespace |-> DecodeToolCallName(binding.map, t.name).namespace,
                              name |-> DecodeToolCallName(binding.map, t.name).name,
                              schema |-> t.schema]
            Known(t) == \E d \in declared : d = [t EXCEPT !.schema = d.schema]
        IN /\ \A i, j \in DOMAIN bound : bound[i].name = bound[j].name => i = j
           /\ \A i \in DOMAIN bound :
                 \/ Dispatched(bound[i]) \in declared
                 \/ bound[i].name \in Ambiguous(request) /\ Known(Dispatched(bound[i]))
           /\ \A d \in declared : \E i \in DOMAIN bound : bound[i].name = ChatName(d)
=============================================================================
