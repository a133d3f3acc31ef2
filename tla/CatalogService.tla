--------------------------- MODULE CatalogService ---------------------------
(***************************************************************************)
(* What the live catalog promises its clients, whatever the refreshes,     *)
(* gates and snapshots behind it do: the published catalog only moves      *)
(* towards the configuration in force, and a client that asks while one is *)
(* published gets it as of some configuration no older than its question.  *)
(***************************************************************************)
EXTENDS Naturals

CONSTANTS Clients, MaxEdits, NotYet

Version == 0..MaxEdits

VARIABLES
    ver,       \* configuration in force
    published, \* version of the published catalog, or NotYet
    floor,     \* oldest version a client's answer may have, or NotYet
    answer     \* version a client was answered with, or NotYet

vars == <<ver, published, floor, answer>>

Init ==
    /\ ver = 0
    /\ published = NotYet
    /\ floor = [c \in Clients |-> NotYet]
    /\ answer = [c \in Clients |-> NotYet]

Edit ==
    /\ ver < MaxEdits
    /\ ver' = ver + 1
    /\ UNCHANGED <<published, floor, answer>>

Publish ==
    /\ \E v \in 0..ver :
         /\ published # NotYet => published <= v
         /\ published' = v
    /\ UNCHANGED <<ver, floor, answer>>

\* Before the first catalog there is nothing to be stale against.
Ask(c) ==
    /\ floor[c] = NotYet
    /\ floor' = [floor EXCEPT ![c] = IF published = NotYet THEN 0 ELSE ver]
    /\ UNCHANGED <<ver, published, answer>>

Reply(c) ==
    /\ floor[c] # NotYet
    /\ answer[c] = NotYet
    /\ published # NotYet
    /\ \E v \in floor[c]..published : answer' = [answer EXCEPT ![c] = v]
    /\ UNCHANGED <<ver, published, floor>>

Next == Edit \/ Publish \/ \E c \in Clients : Ask(c) \/ Reply(c)

Spec == Init /\ [][Next]_vars
=============================================================================
