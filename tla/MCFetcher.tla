------------------------------ MODULE MCFetcher ------------------------------
(***************************************************************************)
(* Fetcher for TLC.  Four callers are an owner, a joiner and a late caller *)
(* of one flight, and a caller of another key whose item waits behind it   *)
(* or before it.                                                           *)
(***************************************************************************)
EXTENDS Fetcher

\* No hint (or 0), the longest wait that is retried, the shortest that is not.
Hints == {0, 20, 21}
=============================================================================
