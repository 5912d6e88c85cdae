------------------------------ MODULE ReadThrough ------------------------------
(***************************************************************************)
(* What FootballDataService promises to the requests for its data, without *)
(* cache, queue or API calls: a request is answered, with a revision that  *)
(* football-data.org has had and that is no older than what anybody had    *)
(* been sent when the request came, or it is told to come back.  Once the  *)
(* API has stalled it may have to wait.                                    *)
(***************************************************************************)
EXTENDS Integers

CONSTANTS Requests, Keys, MaxRev, None

VARIABLES
    stalled,    \* whether the API has ceased to reply
    latest,     \* latest[k]: the revision football-data.org is at
    delivered,  \* delivered[k]: the latest revision somebody has been sent
    asking,     \* asking[r]: the key r asks for and delivered of it, or None
    answer      \* answer[r]: the revision r was last sent, or None

vars == <<stalled, latest, delivered, asking, answer>>

Init ==
    /\ stalled = FALSE
    /\ latest = [k \in Keys |-> 0]
    /\ delivered = [k \in Keys |-> 0]
    /\ asking = [r \in Requests |-> None]
    /\ answer = [r \in Requests |-> None]

Publish(k) ==
    /\ latest[k] < MaxRev
    /\ latest' = [latest EXCEPT ![k] = @ + 1]
    /\ UNCHANGED <<stalled, delivered, asking, answer>>

Stall ==
    /\ ~stalled
    /\ stalled' = TRUE
    /\ UNCHANGED <<latest, delivered, asking, answer>>

Ask(r, k) ==
    /\ asking[r] = None
    /\ asking' = [asking EXCEPT ![r] = [key |-> k, floor |-> delivered[k]]]
    /\ answer' = [answer EXCEPT ![r] = None]
    /\ UNCHANGED <<stalled, latest, delivered>>

\* r is sent a revision, be it of data or of their absence.
Deliver(r) ==
    /\ asking[r] # None
    /\ LET k == asking[r].key IN
       \E rev \in asking[r].floor..latest[k] :
            /\ delivered' = [delivered EXCEPT ![k] = IF rev > @ THEN rev ELSE @]
            /\ answer' = [answer EXCEPT ![r] = rev]
    /\ asking' = [asking EXCEPT ![r] = None]
    /\ UNCHANGED <<stalled, latest>>

\* 202 and Retry-After, or an error.
Refuse(r) ==
    /\ asking[r] # None
    /\ asking' = [asking EXCEPT ![r] = None]
    /\ UNCHANGED <<stalled, latest, delivered, answer>>

Next ==
    \/ Stall
    \/ \E k \in Keys : Publish(k)
    \/ \E r \in Requests : Deliver(r) \/ Refuse(r) \/ \E k \in Keys : Ask(r, k)

Safe == Init /\ [][Next]_vars
Spec == Safe /\ \A r \in Requests : WF_vars(~stalled /\ (Deliver(r) \/ Refuse(r)))
=============================================================================
