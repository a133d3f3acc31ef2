--------------------------- MODULE MCCatalogCache ---------------------------
(***************************************************************************)
(* Instances of CatalogCache for TLC: histories of cxf.toml.               *)
(***************************************************************************)
EXTENDS CatalogCache, TLC

\* Route tables and formats are named by small numbers.
Routes == 0..2
WireFormats == {"chat", "responses"}

\* The only reload toggles hide_bundled_models.
ToggleHistory ==
    0 :> [routes |-> 0, format |-> "chat", hide |-> FALSE] @@
    1 :> [routes |-> 0, format |-> "chat", hide |-> TRUE]

\* Two reloads change routes.
RouteHistory ==
    0 :> [routes |-> 0, format |-> "chat", hide |-> TRUE] @@
    1 :> [routes |-> 1, format |-> "chat", hide |-> TRUE] @@
    2 :> [routes |-> 2, format |-> "chat", hide |-> TRUE]

\* The only reload changes a provider's `format`.
FormatHistory ==
    0 :> [routes |-> 0, format |-> "chat", hide |-> FALSE] @@
    1 :> [routes |-> 0, format |-> "responses", hide |-> FALSE]

\* The requests are interchangeable.
FetchSymmetry == Permutations(Fetches)
=============================================================================
