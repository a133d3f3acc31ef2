---------------------------- MODULE MCItemMerger ----------------------------
(***************************************************************************)
(* Instances of ItemMerger: messages, calls of two ids and an item of a    *)
(* type that never merges.                                                 *)
(***************************************************************************)
EXTENDS ItemMerger

Key(type, call) == [type |-> type, call |-> call]

\* Two calls with different ids do not merge; two with one id do.
MixedKeys ==
    {Key("message", NoCall), Key("function_call", "call_a"),
     Key("function_call", "call_b"), Key("other", NoCall)}
=============================================================================
