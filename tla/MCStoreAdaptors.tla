--------------------------- MODULE MCStoreAdaptors ---------------------------
(* Two paths and two values, one of them the empty vector. *)
EXTENDS StoreAdaptors

CONSTANTS p1, p2, v1, v2

MCPaths == {p1, p2}
MCValues == {v1, v2}
=============================================================================
