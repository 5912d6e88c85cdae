----------------------------- MODULE MCLifecycle -----------------------------
(***************************************************************************)
(* Lifecycle for TLC: a loop over two competitions, a cron with one key,   *)
(* and a request for any of the three.                                     *)
(***************************************************************************)
EXTENDS Lifecycle, TLC

CONSTANTS s1, s2, k1, k2, k3

MCCallers == Requests \cup Crons
Agendas == s1 :> <<k1, k2>> @@ s2 :> <<k3>>

\* No hint: a 429 is not retried; and a wait that is.
Hints == {0, 20}
=============================================================================
