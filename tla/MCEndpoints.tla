----------------------------- MODULE MCEndpoints -----------------------------
(***************************************************************************)
(* Endpoints for TLC.                                                      *)
(***************************************************************************)
EXTENDS Endpoints, TLC

Interchangeable == Permutations(Requests) \cup Permutations(Comps)
=============================================================================
