----------------------------- MODULE MCTransfer -----------------------------
(* Two chains, interchangeable. *)
EXTENDS Transfer, TLC

CONSTANTS a, b

MCChains == {a, b}
Interchangeable == Permutations(MCChains)
=============================================================================
