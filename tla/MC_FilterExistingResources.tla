------------------- MODULE MC_FilterExistingResources ----------------------
(* Instance of FilterExistingResources for TLC: two resources, lists of up *)
(* to three entries (so a resource can be listed twice).                   *)
EXTENDS FilterExistingResources

CONSTANTS a, b

MCInfos == {a, b}

=============================================================================
