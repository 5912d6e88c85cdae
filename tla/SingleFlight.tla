---------------------------- MODULE SingleFlight ----------------------------
(***************************************************************************)
(* What FetcherService promises to the code that calls fetch(key, task):   *)
(* calls for one key that overlap share one flight.  A call opens a flight *)
(* or boards the open one, the flight lands once with one outcome, and     *)
(* everybody aboard, late boarders included, leaves with that outcome.     *)
(* The queue, the single worker and the 429 retries of the implementation  *)
(* (module Fetcher) are invisible here, and so is the order in which the   *)
(* flights of different keys land.                                         *)
(***************************************************************************)
CONSTANTS
    Callers,    \* activities that call fetch
    Keys,       \* cache keys
    Outcomes,   \* what a flight can land with
    None        \* no outcome, no key

VARIABLES
    aboard,     \* aboard[k]: the callers on the flight of key k
    landed,     \* landed[k]: the outcome of the flight of k, None in the air
    ticket      \* ticket[c]: the outcome c has been handed and not yet used

vars == <<aboard, landed, ticket>>

\* c is neither aboard a flight nor holding an outcome.
Free(c) == ticket[c] = None /\ \A k \in Keys : c \notin aboard[k]

Init ==
    /\ aboard = [k \in Keys |-> {}]
    /\ landed = [k \in Keys |-> None]
    /\ ticket = [c \in Callers |-> None]

\* Open the flight of k, or join it while it is up or just landed.
Board(c, k) ==
    /\ Free(c)
    /\ aboard' = [aboard EXCEPT ![k] = @ \cup {c}]
    /\ UNCHANGED <<landed, ticket>>

\* The flight of k ends, once, with outcome o.
Land(k, o) ==
    /\ aboard[k] # {}
    /\ landed[k] = None
    /\ landed' = [landed EXCEPT ![k] = o]
    /\ UNCHANGED <<aboard, ticket>>

\* The flight of k is closed: its opener c leaves at once, the others take
\* the outcome with them, and the next call for k opens a new flight.
Disembark(c, k) ==
    /\ c \in aboard[k]
    /\ landed[k] # None
    /\ aboard' = [aboard EXCEPT ![k] = {}]
    /\ landed' = [landed EXCEPT ![k] = None]
    /\ ticket' = [d \in Callers |->
                    IF d \in aboard[k] \ {c} THEN landed[k] ELSE ticket[d]]

Leave(c) ==
    /\ ticket[c] # None
    /\ ticket' = [ticket EXCEPT ![c] = None]
    /\ UNCHANGED <<aboard, landed>>

Next ==
    \/ \E c \in Callers, k \in Keys : Board(c, k) \/ Disembark(c, k)
    \/ \E k \in Keys, o \in Outcomes : Land(k, o)
    \/ \E c \in Callers : Leave(c)

\* Every flight lands and is closed, and every ticket is used.
Fairness ==
    /\ \A k \in Keys : WF_vars(\E o \in Outcomes : Land(k, o))
    /\ \A k \in Keys : WF_vars(\E c \in Callers : Disembark(c, k))
    /\ \A c \in Callers : WF_vars(Leave(c))

Safe == Init /\ [][Next]_vars
Spec == Safe /\ Fairness
=============================================================================
