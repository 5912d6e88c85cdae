------------------------------- MODULE Endpoints -------------------------------
(***************************************************************************)
(* The endpoints that read.  MatchesService.getMatches and TeamService.     *)
(* getById and getMatches wait with Promise.all for their main source and  *)
(* for the list of available competitions, and leave out what is in other  *)
(* competitions; so do getFavComps and getHiddenComps, whose main source   *)
(* is a table.  The others pass one source on.  ProcessingInterceptor turns *)
(* a DataResult into HTTP.  What getData answers, and when, is up to        *)
(* FootballData.                                                           *)
(*                                                                         *)
(* Data are sets of competitions: those of the matches, of the links, or   *)
(* those that the team runs in.  Requests that join one flight get one and *)
(* the same object, which getById filters in place.                        *)
(***************************************************************************)
EXTENDS Integers

CONSTANTS Requests, Comps, None

\* A team, a list of matches, the links of a user, one source passed on.
Kinds == {"team", "matches", "links", "single"}
Joined == {"team", "matches"}
NoData == {"PROCESSING", "NOT_AVAILABLE"}

ASSUME EndpointsAssumption == None \notin Kinds

\* What getData resolves with, or that it rejects; "shared" is the object that
\* the flight of the team gave to everybody aboard.
MainParts ==
    [status : {"FRESH", "STALE"}, data : SUBSET Comps]
        \cup [status : {"SHARED"}] \cup [status : NoData \cup {"ERROR"}]
ListParts ==
    [status : {"FRESH", "STALE"}, data : SUBSET Comps]
        \cup [status : NoData \cup {"ERROR"}]

VARIABLES
    kind,       \* kind[q]: the endpoint q has called, or None
    main, list, \* main[q], list[q]: the two parts of Promise.all, once there
    object,     \* runningCompetitions of the shared team object
    returned,   \* returned[q]: what the service returned, to be serialized
    sent        \* sent[q]: the last response to q

vars == <<kind, main, list, object, returned, sent>>

TypeOK ==
    /\ kind \in [Requests -> Kinds \cup {None}]
    /\ main \in [Requests -> MainParts \cup {None}]
    /\ list \in [Requests -> ListParts \cup {None}]
    /\ object \in SUBSET Comps
    /\ returned \in [Requests -> MainParts \cup {None}]
    /\ sent \in [Requests -> [code : {200, 202, 204, 500, 503}, body : SUBSET Comps,
                             retryAfter : {None, 5, 30}] \cup {None}]

Init ==
    /\ kind = [q \in Requests |-> None]
    /\ main = [q \in Requests |-> None]
    /\ list = [q \in Requests |-> None]
    /\ object \in SUBSET Comps
    /\ returned = [q \in Requests |-> None]
    /\ sent = [q \in Requests |-> None]

Call(q, k) ==
    /\ kind[q] = None
    /\ kind' = [kind EXCEPT ![q] = k]
    /\ sent' = [sent EXCEPT ![q] = None]
    /\ list' = [list EXCEPT ![q] = None]
    /\ UNCHANGED <<main, object, returned>>

\* One of the two promises settles, in any order.
MainArrives(q, p) ==
    /\ kind[q] # None
    /\ main[q] = None
    /\ p.status = "SHARED" => kind[q] = "team"
    /\ kind[q] = "links" => p.status \in {"FRESH", "ERROR"}
    /\ main' = [main EXCEPT ![q] = p]
    /\ UNCHANGED <<kind, list, object, returned, sent>>

ListArrives(q, p) ==
    /\ kind[q] \notin {None, "single"}
    /\ list[q] = None
    /\ list' = [list EXCEPT ![q] = p]
    /\ UNCHANGED <<kind, main, object, returned, sent>>

Ready(q) == main[q] # None /\ list[q] # None /\ returned[q] = None

Send(q, code, body, retryAfter) ==
    /\ sent' = [sent EXCEPT ![q] =
            [code |-> code, body |-> body, retryAfter |-> retryAfter]]
    /\ kind' = [kind EXCEPT ![q] = None]
    /\ main' = [main EXCEPT ![q] = None]
    /\ returned' = [returned EXCEPT ![q] = None]

Statuses(q) == {p.status : p \in {main[q], list[q]} \ {None}}

\* A part rejects, and Promise.all at once; or a part has no data, and reading
\* data!.map or data!.filter throws.
Throw(q) ==
    /\ kind[q] # None
    /\ \/ "ERROR" \in Statuses(q)
       \/ /\ Ready(q) /\ kind[q] \in Joined
          /\ "PROCESSING" \notin Statuses(q)
          /\ "NOT_AVAILABLE" \in Statuses(q)
    /\ Send(q, 500, {}, None)
    /\ UNCHANGED <<list, object>>

\* getAvailableCompetitionIds of FavouriteService and HiddenService throws, as
\* soon as it has no list.
Unavailable(q) ==
    /\ kind[q] = "links"
    /\ list[q] # None /\ list[q].status \in NoData
    /\ Send(q, 503, {}, None)
    /\ UNCHANGED <<list, object>>

\* Mutant: the sources are waited for one after the other, not both at once.
RetryAfterSum(statuses) == IF statuses = {"PROCESSING"} THEN 60 ELSE 30

\* Math.max over the sources (getData says 30), || undefined, ?? the default.
RetryAfter(statuses) == IF "PROCESSING" \in statuses THEN 30 ELSE 5

\* A source is still being fetched.
Processing(q) ==
    /\ Ready(q) /\ kind[q] \in Joined
    /\ "ERROR" \notin Statuses(q)
    /\ "PROCESSING" \in Statuses(q)
    /\ Send(q, 202, {}, RetryAfter(Statuses(q)))
    /\ UNCHANGED <<list, object>>

HasData(q) == Ready(q) /\ Statuses(q) \subseteq {"FRESH", "STALE", "SHARED"}

\* getFavComps, getHiddenComps: the links to available competitions.
FilterLinks(q) ==
    /\ HasData(q) /\ kind[q] = "links"
    /\ returned' = [returned EXCEPT ![q] = [main[q] EXCEPT !.data = @ \cap list[q].data]]
    /\ UNCHANGED <<kind, main, list, object, sent>>

\* Mutant: an object that has been filtered once is not filtered again.
FilterOnce(q) ==
    /\ HasData(q) /\ kind[q] \in Joined
    /\ UNCHANGED <<kind, main, list, sent>>
    /\ \/ /\ main[q].status = "SHARED"
          /\ object' = IF \E r \in Requests : returned[r] # None THEN object
                       ELSE object \cap list[q].data
          /\ returned' = [returned EXCEPT ![q] = main[q]]
       \/ /\ main[q].status # "SHARED"
          /\ returned' = [returned EXCEPT ![q] = [main[q] EXCEPT !.data = @ \cap list[q].data]]
          /\ UNCHANGED object

\* Keep what is in an available competition, in place for a team.
Filter(q) ==
    /\ HasData(q) /\ kind[q] \in Joined
    /\ UNCHANGED <<kind, main, list, sent>>
    /\ \/ /\ main[q].status = "SHARED"
          /\ object' = object \cap list[q].data
          /\ returned' = [returned EXCEPT ![q] = main[q]]
       \/ /\ main[q].status # "SHARED"
          /\ returned' = [returned EXCEPT ![q] = [main[q] EXCEPT !.data = @ \cap list[q].data]]
          /\ UNCHANGED object

\* CompetitionService, StandingsService, getMatch and getHead2Head return what
\* getData says.
Forward(q) ==
    /\ kind[q] = "single"
    /\ main[q] # None /\ returned[q] = None
    /\ \/ /\ main[q].status = "PROCESSING"
          /\ Send(q, 202, {}, 30)
       \/ /\ main[q].status = "NOT_AVAILABLE"
          /\ Send(q, 204, {}, None)
       \/ /\ main[q].status \in {"FRESH", "STALE"}
          /\ returned' = [returned EXCEPT ![q] = main[q]]
          /\ UNCHANGED <<kind, main, sent>>
    /\ UNCHANGED <<list, object>>

\* The interceptor hands the data on and the response is serialized.
Serialize(q) ==
    /\ returned[q] # None
    /\ Send(q, 200, IF returned[q].status = "SHARED" THEN object ELSE returned[q].data, None)
    /\ UNCHANGED <<list, object>>

\* A later flight: an object that no request holds yet.
NextFlight ==
    /\ \A q \in Requests : main[q] # None => main[q].status # "SHARED"
    /\ object' \in SUBSET Comps
    /\ UNCHANGED <<kind, main, list, returned, sent>>

Next ==
    \/ \E q \in Requests, k \in Kinds : Call(q, k)
    \/ \E q \in Requests, p \in MainParts : MainArrives(q, p)
    \/ \E q \in Requests, p \in ListParts : ListArrives(q, p)
    \/ \E q \in Requests :
            \/ Throw(q) \/ Unavailable(q) \/ Processing(q) \/ Forward(q)
            \/ Filter(q) \/ FilterLinks(q) \/ Serialize(q)
    \/ NextFlight

Spec == Init /\ [][Next]_vars
-----------------------------------------------------------------------------
\* A response lists only what was in the competitions available to its own
\* request, even if another request filters the same team object between the
\* filter and the serialization (TeamService.getById, joined by Fetcher).  A
\* source that is passed on alone waits for no list.
OnlyAvailableIsListed ==
    \A q \in Requests : sent[q] # None /\ sent[q].code = 200 /\ list[q] # None
        => sent[q].body \subseteq list[q].data

\* Not a property of the code: a resource that the API does not have is answered
\* with 204 (processing.interceptor.spec.ts), on these endpoints as on others.
NotAvailableIs204 ==
    [][\A q \in Requests :
        Ready(q) /\ main[q].status = "NOT_AVAILABLE" /\ list[q].status = "FRESH"
            /\ kind'[q] = None
        => sent'[q].code = 204]_vars
=============================================================================
