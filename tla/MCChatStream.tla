---------------------------- MODULE MCChatStream ----------------------------
(***************************************************************************)
(* Instances of ChatStream for TLC.                                        *)
(***************************************************************************)
EXTENDS ChatStream, TLC

CONSTANT None

Plain == [reasoning |-> FALSE, content |-> "none", call |-> None, finish |-> FALSE,
          usage |-> FALSE]
Says(content) == [Plain EXCEPT !.content = content]
Fragment(i, named) == [Plain EXCEPT !.call = [index |-> i, named |-> named]]

\* One chunk of each sort, with some of what providers combine in one.
EverySort ==
    {Says("words"), Says("open"), [Says("close") EXCEPT !.finish = TRUE], Says("half"), Says("markup"),
     [Says("words") EXCEPT !.reasoning = TRUE],
     Fragment(0, TRUE), Fragment(1, FALSE),
     [Plain EXCEPT !.finish = TRUE], [Plain EXCEPT !.usage = TRUE]}

\* A request with every quirk on, one with every quirk off, and one that must
\* not be stored.
ThreeRequests ==
    {[missingDone |-> q, dsml |-> q, think |-> q, store |-> TRUE] : q \in BOOLEAN}
      \cup {[missingDone |-> TRUE, dsml |-> FALSE, think |-> FALSE, store |-> FALSE]}
=============================================================================
