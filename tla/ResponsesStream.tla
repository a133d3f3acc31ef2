-------------------------- MODULE ResponsesStream --------------------------
(***************************************************************************)
(* What a Responses client may rely on in the event stream of one turn:    *)
(* the opener first, items opened under consecutive output indices, deltas *)
(* only into open items, a done event that repeats what the deltas said,   *)
(* and one terminal: response.completed with every item closed and listed, *)
(* or error followed by response.failed.  A stream may be cut off anywhere *)
(* (the client hung up).                                                   *)
(***************************************************************************)
EXTENDS Naturals, Sequences, SequencesExt

VARIABLE log  \* the events emitted so far

-----------------------------------------------------------------------------
\* What the client holds.

\* The items by output index, and the type of the last event.
Nothing == [items |-> <<>>, last |-> "none"]

Take(held, e) ==
    [items |->
       CASE e.type = "added" ->
              Append(held.items, [kind |-> e.kind, data |-> <<>>, closed |-> FALSE])
         [] e.type = "delta" -> [held.items EXCEPT ![e.idx].data = @ \o e.data]
         [] e.type = "done" -> [held.items EXCEPT ![e.idx].closed = TRUE]
         [] OTHER -> held.items,
     last |-> e.type]

\* After some events.
Held(events) ==
    LET held[n \in 0..Len(events)] ==
          IF n = 0 THEN Nothing ELSE Take(held[n - 1], events[n])
    IN  held[Len(events)]

Running(held) == held.last \notin {"none", "error", "completed", "failed"}

\* The items that still take deltas.
Unclosed(held) == {i \in DOMAIN held.items : ~held.items[i].closed}

-----------------------------------------------------------------------------
\* What may come next.

Create(held, e) == e.type = "created" /\ held.last = "none"

Add(held, e) == e.type = "added" /\ Running(held) /\ e.idx = Len(held.items) + 1

Speak(held, e) ==
    /\ e.type = "delta" /\ Running(held)
    /\ e.idx \in Unclosed(held)
    /\ e.kind = held.items[e.idx].kind

Close(held, e) ==
    /\ e.type = "done" /\ Running(held)
    /\ e.idx \in Unclosed(held)
    /\ e.kind = held.items[e.idx].kind
    /\ e.data = held.items[e.idx].data

Complete(held, e) ==
    /\ e.type = "completed" /\ Running(held)
    /\ Unclosed(held) = {}
    /\ e.output = [i \in DOMAIN held.items |->
                     [kind |-> held.items[i].kind, data |-> held.items[i].data]]

Fail(held, e) ==
    \/ e.type = "error" /\ Running(held)
    \/ e.type = "failed" /\ held.last = "error"

Conforms(held, e) ==
    \/ Create(held, e) \/ Add(held, e) \/ Speak(held, e) \/ Close(held, e)
    \/ Complete(held, e) \/ Fail(held, e)

-----------------------------------------------------------------------------

Init == log = <<>>

Next ==
    /\ log' # <<>> /\ log = Front(log')
    /\ Conforms(Held(log), Last(log'))

Spec == Init /\ [][Next]_log
=============================================================================
