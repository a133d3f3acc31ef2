---------------------------- MODULE ToolBinding ----------------------------
(***************************************************************************)
(* Which tools an upstream is given (src/src/normalize.rs and step 4 of    *)
(* src/src/convert/request.rs): Codex declares tools in the request's      *)
(* `tools`, possibly wrapped in namespaces, or in `additional_tools` items *)
(* of the input, which a stored history repeats.  A schema is a value.     *)
(***************************************************************************)
EXTENDS HistoryReplay

Function(name, schema) == [kind |-> "function", name |-> name, schema |-> schema, tools |-> <<>>]
Freeform(name, schema) == [Function(name, schema) EXCEPT !.kind = "freeform"]
BuiltIn(name) == [Function(name, None) EXCEPT !.kind = "builtin"]
Namespace(name, tools) == [Function(name, None) EXCEPT !.kind = "namespace", !.tools = tools]

\* The tools gathered so far and the decode map of the encoded names.
Gathered(tools) == [out |-> tools, map |-> [name \in {} |-> None]]

IsNew(out, tool) == \A i \in DOMAIN out : out[i].name # tool.name

\* A built-in tool has no Chat mapping; the first of two tools of one name wins.
PushToolClassified(acc, tool) ==
    IF tool.kind \in {"function", "freeform"} /\ IsNew(acc.out, tool)
    THEN [acc EXCEPT !.out = Append(@, tool)]
    ELSE acc

Remember(map, name, tool) ==
    [n \in DOMAIN map \cup {name} |-> IF n \in DOMAIN map THEN map[n] ELSE tool]

\* Bug: the decode map learns names whether or not the tool was bound.
PushEncodedAlways(acc, namespace, tool) ==
    LET chatName == namespace \o tool.name
    IN [PushToolClassified(acc, [tool EXCEPT !.name = chatName]) EXCEPT
           !.map = Remember(@, chatName, [namespace |-> namespace, name |-> tool.name])]

\* A function of a namespace takes the encoded name, and the decode map
\* learns it only when the tool is the one that is bound.
PushEncoded(acc, namespace, tool) ==
    LET chatName == namespace \o tool.name
        encoded == [tool EXCEPT !.name = chatName]
    IN IF IsNew(acc.out, encoded)
       THEN [out |-> Append(acc.out, encoded),
             map |-> Remember(acc.map, chatName, [namespace |-> namespace, name |-> tool.name])]
       ELSE acc

PushNamespaceInnerTools(acc, entry, encode) ==
    LET PushInner(a, tool) == IF encode /\ tool.kind = "function"
                              THEN PushEncoded(a, entry.name, tool)
                              ELSE PushToolClassified(a, tool)
    IN FoldLeft(PushInner, acc, entry.tools)

PushEntries(acc, entries, encode) ==
    LET PushEntry(a, entry) == IF entry.kind = "namespace"
                               THEN PushNamespaceInnerTools(a, entry, encode)
                               ELSE PushToolClassified(a, entry)
    IN FoldLeft(PushEntry, acc, entries)

CollectAdditionalTools(acc, items, encode) ==
    LET PushItemTools(a, item) == IF item.type = "additional_tools"
                                  THEN PushEntries(a, item.tools, encode)
                                  ELSE a
    IN FoldLeft(PushItemTools, acc, items)

NormalizeChatTools(tools) == PushEntries(Gathered(<<>>), tools, TRUE)

\* The tools of a Chat request and the map its answer is decoded with: the
\* hoist's entries win over those of the top-level namespaces.
ChatBinding(history, input, tools) ==
    LET hoisted == CollectAdditionalTools(
                       CollectAdditionalTools(Gathered(tools), history, TRUE), input, TRUE)
        flat == NormalizeChatTools(hoisted.out)
    IN [bound |-> flat.out,
        map |-> [n \in DOMAIN hoisted.map \cup DOMAIN flat.map |->
                    IF n \in DOMAIN hoisted.map THEN hoisted.map[n] ELSE flat.map[n]]]

DecodeToolCallName(map, name) ==
    IF name \in DOMAIN map THEN map[name] ELSE [namespace |-> <<>>, name |-> name]

---------------------------------------------------------------------------
(* A native Responses upstream gets the hoisted tools under their own      *)
(* names and an input without the `additional_tools` items.                *)

IsOrdinary(item) == item.type # "additional_tools"
StripAdditionalTools(items) == SelectSeq(items, IsOrdinary)

NativeTools(items, tools) == CollectAdditionalTools(Gathered(tools), items, FALSE).out
=============================================================================
