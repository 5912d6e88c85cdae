---------------------------- MODULE MCFootballData ----------------------------
(***************************************************************************)
(* FootballData for TLC.                                                   *)
(***************************************************************************)
EXTENDS FootballData, TLC

MCCallers == Requests \cup Keys \cup Syncs
MCResults == Answers \cup {Failed}

\* A wait that is retried.
Hints == {20}

Interchangeable == Permutations(Requests)
=============================================================================
