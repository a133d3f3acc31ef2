--------------------------- MODULE HistoryReplay ---------------------------
(***************************************************************************)
(* How a history of Responses items becomes the messages of a Chat request *)
(* (src/src/convert/request.rs).  The text of an item is whatever value    *)
(* tells it from the others; an image or a list of parts is a text, too.   *)
(***************************************************************************)
EXTENDS Naturals, SequencesExt

CONSTANT None   \* no text, no reasoning, no instructions

Instructions == <<"instructions">>

---------------------------------------------------------------------------
(* Items.  A tool's name is the sequence of its hyphen-separated parts, so *)
(* `{namespace}-{name}` is a concatenation and two ways to split it clash. *)

ReasoningItem(text) == [type |-> "reasoning", text |-> text]   \* None: an empty summary
MessageItem(role, text) == [type |-> "message", role |-> role, text |-> text]
CallItem(type, id, tool) ==
    [type |-> type, id |-> id, namespace |-> tool.namespace, name |-> tool.name]
\* A result is text, or a list of parts (an image a tool looked at).
OutputItem(type, id, result) == [type |-> type, id |-> id, result |-> result]
ToolsItem(tools) == [type |-> "additional_tools", tools |-> tools]

\* Bug: the namespace is lost on replay.
ChatNameFlat(tool) == tool.name

\* The name a call is replayed under; <<>> is the namespace of a flat tool.
ChatName(tool) == tool.namespace \o tool.name

---------------------------------------------------------------------------
(* Messages.                                                               *)

Message(role, content, callId) ==
    [role |-> role, content |-> content, reasoning |-> None, calls |-> <<>>, callId |-> callId]

Assistant(content, reasoning, calls) ==
    [Message("assistant", content, None) EXCEPT !.reasoning = reasoning, !.calls = calls]

\* output.as_str().unwrap_or(""): only text has a place in a tool message.
Text == <<"text">>
Parts == <<"parts">>
Empty == <<"">>
AsText(result) == IF result = Parts THEN Empty ELSE result

FunctionCallToToolCall(item) == [id |-> item.id, name |-> ChatName(item)]

\* Everything that is neither reasoning, nor a function call, nor the
\* assistant's message: at most one message of its own, and none for a type
\* that Chat has no place for, as the calls of freeform and built-in tools.
OneToOne(item) ==
    CASE item.type = "message" ->
           <<Message(IF item.role = "developer" THEN "system" ELSE item.role, item.text, None)>>
      [] item.type = "function_call_output" -> <<Message("tool", AsText(item.result), item.id)>>
      [] OTHER -> <<>>

(* One item.  `pending` is reasoning on its way to the next assistant      *)
(* message, `open` says that the item before was the assistant's message   *)
(* or one of its calls, so that a call still joins it.                     *)
PushItem(acc, item) ==
    CASE item.type = "reasoning" ->
           [acc EXCEPT !.pending = IF item.text = None THEN @ ELSE item.text, !.open = FALSE]
      [] item.type = "message" /\ item.role = "assistant" ->
           [messages |-> Append(acc.messages, Assistant(item.text, acc.pending, <<>>)),
            pending |-> None, open |-> TRUE]
      [] item.type = "function_call" /\ acc.open ->
           [acc EXCEPT !.messages[Len(acc.messages)].calls =
                            Append(@, FunctionCallToToolCall(item))]
      [] item.type = "function_call" /\ ~acc.open ->
           [messages |-> Append(acc.messages,
                                Assistant(None, acc.pending, <<FunctionCallToToolCall(item)>>)),
            pending |-> None, open |-> TRUE]
      [] OTHER -> [acc EXCEPT !.messages = @ \o OneToOne(item), !.open = FALSE]

PushItemMessages(messages, items) ==
    FoldLeft(PushItem, [messages |-> messages, pending |-> None, open |-> FALSE], items).messages

\* The instructions go in front, unless the replayed history already opens
\* with a system message.
WithInstructions(instructions, messages) ==
    IF \/ instructions = None
       \/ messages # <<>> /\ Head(messages).role = "system"
    THEN messages
    ELSE <<Message("system", instructions, None)>> \o messages

ToChatMessages(history, instructions, input) ==
    PushItemMessages(WithInstructions(instructions, PushItemMessages(<<>>, history)), input)
=============================================================================
