---------------------------- MODULE EndpointsProofs ----------------------------
(***************************************************************************)
(* Theorems about Endpoints, for any number of requests and competitions:  *)
(* a response lists only what its own list of competitions allows, though  *)
(* requests of one flight filter one object.                               *)
(***************************************************************************)
EXTENDS Endpoints, TLAPS

WithData == [status : {"FRESH", "STALE"}, data : SUBSET Comps]

\* A part that came with data has data.
LEMMA PartsWithData ==
    ASSUME NEW p
    PROVE  /\ p \in MainParts /\ p.status \in {"FRESH", "STALE"} => p \in WithData
           /\ p \in ListParts /\ p.status \in {"FRESH", "STALE"} => p \in WithData
           /\ p \in ListParts => p.status # "SHARED"
           /\ p \in WithData => p \in MainParts /\ p.data \subseteq Comps
BY DEF MainParts, ListParts, NoData, WithData

\* What a request returns is filtered by its own list, or lies in the shared
\* object that is.
FilteredBy(q) ==
    /\ list[q] # None /\ list[q] \in WithData
    /\ returned[q].status = "SHARED" => object \subseteq list[q].data
    /\ returned[q].status # "SHARED" => returned[q].data \subseteq list[q].data

RequestOK(q) ==
    /\ kind[q] = None => main[q] = None /\ returned[q] = None
    /\ kind[q] # None => sent[q] = None
    /\ kind[q] = "single" => list[q] = None
    /\ main[q] # None /\ main[q].status = "SHARED" => kind[q] = "team"
    /\ returned[q] # None => /\ main[q] # None /\ returned[q].status = main[q].status
                             /\ main[q].status = "SHARED" \/ returned[q] \in WithData
                             /\ kind[q] # "single" => FilteredBy(q)
    /\ sent[q] # None /\ sent[q].code = 200 /\ list[q] # None
            => sent[q].body \subseteq list[q].data

EndpointsInv == TypeOK /\ \A q \in Requests : RequestOK(q)

\* A step takes one request further; the shared object only loses competitions.
LEMMA OthersStay ==
    ASSUME NEW q \in Requests, EndpointsInv, TypeOK', RequestOK(q)', object' \subseteq object,
           \A r \in Requests \ {q} :
                /\ kind'[r] = kind[r] /\ main'[r] = main[r] /\ list'[r] = list[r]
                /\ returned'[r] = returned[r] /\ sent'[r] = sent[r]
    PROVE  EndpointsInv'
<1>1. ASSUME NEW r \in Requests \ {q} PROVE RequestOK(r)'
  BY DEF EndpointsInv, RequestOK, FilteredBy
<1>2. QED  BY <1>1 DEF EndpointsInv

\* A response without a list, and so every error.
LEMMA SendKeeps ==
    ASSUME NEW q \in Requests, NEW code \in {200, 202, 204, 500, 503}, NEW body \in SUBSET Comps,
           NEW retryAfter \in {None, 5, 30},
           EndpointsInv, Send(q, code, body, retryAfter), UNCHANGED <<list, object>>,
           code = 200 /\ list[q] # None => body \subseteq list[q].data
    PROVE  EndpointsInv'
<1> DEFINE s == [code |-> code, body |-> body, retryAfter |-> retryAfter]
<1>1. s \in [code : {200, 202, 204, 500, 503}, body : SUBSET Comps, retryAfter : {None, 5, 30}]
      /\ s.code = code /\ s.body = body
  OBVIOUS
<1>2. sent' = [sent EXCEPT ![q] = s]
  BY DEF Send
<1> HIDE DEF s
<1>3. TypeOK'
  BY <1>1, <1>2 DEF EndpointsInv, TypeOK, Send
<1>4. /\ kind'[q] = None /\ main'[q] = None /\ returned'[q] = None /\ sent'[q] = s
      /\ list'[q] = list[q]
  BY <1>2 DEF EndpointsInv, TypeOK, Send
<1>5. RequestOK(q)'
  BY <1>1, <1>4, EndpointsAssumption DEF EndpointsInv, RequestOK, Kinds
<1>6. QED  BY <1>2, <1>3, <1>5, OthersStay DEF EndpointsInv, TypeOK, Send

LEMMA CallKeeps ==
    ASSUME NEW q \in Requests, NEW k \in Kinds, EndpointsInv, Call(q, k)
    PROVE  EndpointsInv'
<1>1. TypeOK'
  BY DEF EndpointsInv, TypeOK, Call
<1>2. /\ kind[q] = None /\ kind'[q] = k /\ sent'[q] = None /\ list'[q] = None
      /\ main'[q] = main[q] /\ returned'[q] = returned[q]
  BY DEF EndpointsInv, TypeOK, Call
<1>3. RequestOK(q)'
  BY <1>2 DEF EndpointsInv, RequestOK
<1>4. QED  BY <1>1, <1>3, OthersStay DEF EndpointsInv, TypeOK, Call

LEMMA MainArrivesKeeps ==
    ASSUME NEW q \in Requests, NEW p \in MainParts, EndpointsInv, MainArrives(q, p)
    PROVE  EndpointsInv'
<1>1. TypeOK'
  BY DEF EndpointsInv, TypeOK, MainArrives
<1>2. /\ kind[q] # None /\ kind'[q] = kind[q] /\ main[q] = None /\ main'[q] = p
      /\ sent'[q] = sent[q] /\ list'[q] = list[q] /\ returned'[q] = returned[q]
      /\ p.status = "SHARED" => kind[q] = "team"
  BY DEF EndpointsInv, TypeOK, MainArrives
<1>3. RequestOK(q)'
  BY <1>2 DEF EndpointsInv, RequestOK
<1>4. QED  BY <1>1, <1>3, OthersStay DEF EndpointsInv, TypeOK, MainArrives

LEMMA ListArrivesKeeps ==
    ASSUME NEW q \in Requests, NEW p \in ListParts, EndpointsInv, ListArrives(q, p)
    PROVE  EndpointsInv'
<1>1. TypeOK'
  BY DEF EndpointsInv, TypeOK, ListArrives
<1>2. /\ kind[q] # None /\ kind[q] # "single" /\ kind'[q] = kind[q] /\ main'[q] = main[q]
      /\ sent'[q] = sent[q] /\ list[q] = None /\ list'[q] = p /\ returned'[q] = returned[q]
      /\ object' = object
  BY DEF EndpointsInv, TypeOK, ListArrives
<1>3. RequestOK(q)'
  BY <1>2 DEF EndpointsInv, RequestOK, FilteredBy
<1>4. QED  BY <1>1, <1>3, OthersStay DEF EndpointsInv, TypeOK, ListArrives

\* Both parts came with data.
LEMMA BothHaveData ==
    ASSUME NEW q \in Requests, EndpointsInv, HasData(q)
    PROVE  /\ main[q] # None /\ list[q] # None /\ returned[q] = None
           /\ list[q] \in WithData /\ list[q].data \subseteq Comps
           /\ main[q].status \in {"FRESH", "STALE", "SHARED"}
           /\ main[q].status # "SHARED" => main[q] \in WithData
<1>1. /\ main[q] # None /\ list[q] # None /\ returned[q] = None
      /\ main[q] \in MainParts /\ list[q] \in ListParts
  BY DEF EndpointsInv, TypeOK, HasData, Ready
<1>2. main[q].status \in {"FRESH", "STALE", "SHARED"} /\ list[q].status \in {"FRESH", "STALE", "SHARED"}
  BY <1>1 DEF HasData, Statuses
<1>3. list[q] \in WithData /\ (main[q].status # "SHARED" => main[q] \in WithData)
  BY <1>1, <1>2, PartsWithData
<1>4. QED  BY <1>1, <1>2, <1>3, PartsWithData

\* What a filter that makes a new object makes.
LEMMA FilteredData ==
    ASSUME NEW q \in Requests, EndpointsInv, HasData(q), main[q].status # "SHARED"
    PROVE  LET f == [main[q] EXCEPT !.data = @ \cap list[q].data]
           IN  /\ f \in WithData /\ f \in MainParts /\ f.status = main[q].status
               /\ f.data \subseteq list[q].data
<1>1. main[q] \in WithData
  BY BothHaveData
<1>2. [main[q] EXCEPT !.data = @ \cap list[q].data] \in WithData
  BY <1>1 DEF WithData
<1>3. QED  BY <1>1, <1>2, PartsWithData DEF WithData

LEMMA FilteredOwn ==
    ASSUME NEW q \in Requests, EndpointsInv, HasData(q), main[q].status # "SHARED",
           NEW f, f \in WithData, f \in MainParts, f.status = main[q].status,
           f.data \subseteq list[q].data, returned' = [returned EXCEPT ![q] = f],
           UNCHANGED <<kind, main, list, object, sent>>
    PROVE  EndpointsInv'
<1>1. list[q] \in WithData /\ list[q] # None /\ main[q] # None
  BY BothHaveData
<1>2. TypeOK'
  BY DEF EndpointsInv, TypeOK
<1>3. returned'[q] = f
  BY DEF EndpointsInv, TypeOK
<1>4. kind[q] # None
  BY <1>1 DEF EndpointsInv, RequestOK
<1>5. RequestOK(q)'
  <2>1. FilteredBy(q)'
    BY <1>1, <1>3 DEF FilteredBy
  <2>2. RequestOK(q)
    BY DEF EndpointsInv
  <2>3. QED  BY <1>1, <1>3, <1>4, <2>1, <2>2 DEF RequestOK
<1>6. QED  BY <1>2, <1>5, OthersStay DEF EndpointsInv, TypeOK

LEMMA FilterKeeps ==
    ASSUME NEW q \in Requests, EndpointsInv, Filter(q)
    PROVE  EndpointsInv'
<1>1. CASE main[q].status # "SHARED"
  BY <1>1, FilteredData, FilteredOwn DEF Filter
<1>2. CASE main[q].status = "SHARED"
  <2>1. /\ main[q] # None /\ list[q] # None /\ returned[q] = None /\ main[q] \in MainParts
        /\ list[q] \in WithData /\ list[q].data \subseteq Comps
    BY BothHaveData DEF Filter, EndpointsInv, TypeOK
  <2>2. /\ object' = object \cap list[q].data
        /\ returned' = [returned EXCEPT ![q] = main[q]]
        /\ kind' = kind /\ main' = main /\ list' = list /\ sent' = sent
    BY <1>2 DEF Filter
  <2>3. TypeOK'
    BY <2>1, <2>2 DEF EndpointsInv, TypeOK
  <2>4. returned'[q] = main[q]
    BY <2>2 DEF EndpointsInv, TypeOK
  <2>5. RequestOK(q)'
    BY <1>2, <2>1, <2>2, <2>4 DEF EndpointsInv, RequestOK, FilteredBy
  <2>6. object' \subseteq object
    BY <2>2
  <2>7. QED  BY <2>2, <2>3, <2>5, <2>6, OthersStay DEF EndpointsInv, TypeOK
<1>3. QED  BY <1>1, <1>2

LEMMA FilterLinksKeeps ==
    ASSUME NEW q \in Requests, EndpointsInv, FilterLinks(q)
    PROVE  EndpointsInv'
<1>1. main[q] # None /\ kind[q] = "links"
  BY BothHaveData DEF FilterLinks
<1>2. main[q].status # "SHARED"
  BY <1>1 DEF EndpointsInv, RequestOK
<1>3. QED  BY <1>2, FilteredData, FilteredOwn DEF FilterLinks

LEMMA ForwardKeeps ==
    ASSUME NEW q \in Requests, EndpointsInv, Forward(q)
    PROVE  EndpointsInv'
<1>1. kind[q] = "single" /\ main[q] # None /\ main[q] \in MainParts /\ kind[q] # None
  BY EndpointsAssumption DEF Forward, EndpointsInv, TypeOK, Kinds
<1>2. CASE Send(q, 202, {}, 30) /\ UNCHANGED <<list, object>>
  BY <1>2, SendKeeps
<1>3. CASE Send(q, 204, {}, None) /\ UNCHANGED <<list, object>>
  BY <1>3, SendKeeps
<1>4. CASE /\ main[q].status \in {"FRESH", "STALE"}
           /\ returned' = [returned EXCEPT ![q] = main[q]]
           /\ UNCHANGED <<kind, main, list, object, sent>>
  <2>1. main[q] \in WithData
    BY <1>1, <1>4, PartsWithData
  <2>2. TypeOK'
    BY <1>1, <1>4 DEF EndpointsInv, TypeOK
  <2>3. returned'[q] = main[q]
    BY <1>4 DEF EndpointsInv, TypeOK
  <2>4. RequestOK(q)'
    BY <1>1, <1>4, <2>1, <2>3 DEF EndpointsInv, RequestOK
  <2>5. QED  BY <1>4, <2>2, <2>4, OthersStay DEF EndpointsInv, TypeOK
<1>5. QED  BY <1>2, <1>3, <1>4 DEF Forward

LEMMA SerializeKeeps ==
    ASSUME NEW q \in Requests, EndpointsInv, Serialize(q)
    PROVE  EndpointsInv'
<1> DEFINE body == IF returned[q].status = "SHARED" THEN object ELSE returned[q].data
<1>1. RequestOK(q) /\ returned[q] # None
  BY DEF EndpointsInv, Serialize
<1>2. body \in SUBSET Comps
  BY <1>1, PartsWithData DEF EndpointsInv, TypeOK, RequestOK
<1>3. list[q] # None => body \subseteq list[q].data
  BY <1>1 DEF RequestOK, FilteredBy
<1>4. Send(q, 200, body, None) /\ UNCHANGED <<list, object>>
  BY DEF Serialize
<1> HIDE DEF body
<1>5. QED  BY <1>2, <1>3, <1>4, SendKeeps

LEMMA NextFlightKeeps ==
    ASSUME EndpointsInv, NextFlight
    PROVE  EndpointsInv'
<1>1. TypeOK'
  BY DEF EndpointsInv, TypeOK, NextFlight
<1>2. ASSUME NEW q \in Requests PROVE RequestOK(q)'
  BY DEF EndpointsInv, RequestOK, FilteredBy, NextFlight
<1>3. QED  BY <1>1, <1>2 DEF EndpointsInv

LEMMA InitEndpointsInv == Init => EndpointsInv
BY DEF Init, EndpointsInv, TypeOK, RequestOK

LEMMA StepEndpointsInv == EndpointsInv /\ [Next]_vars => EndpointsInv'
<1> SUFFICES ASSUME EndpointsInv, [Next]_vars PROVE EndpointsInv'
  OBVIOUS
<1>1. ASSUME NEW q \in Requests, Throw(q) \/ Unavailable(q) \/ Processing(q) PROVE EndpointsInv'
  <2>1. CASE Throw(q)
    BY <2>1, SendKeeps DEF Throw
  <2>2. CASE Unavailable(q)
    BY <2>2, SendKeeps DEF Unavailable
  <2>3. CASE Processing(q)
    <3>1. RetryAfter(Statuses(q)) \in {None, 5, 30}
      BY DEF RetryAfter
    <3>2. QED  BY <2>3, <3>1, SendKeeps DEF Processing
  <2>4. QED  BY <1>1, <2>1, <2>2, <2>3
<1>2. CASE UNCHANGED vars
  BY <1>2 DEF vars, EndpointsInv, TypeOK, RequestOK, FilteredBy
<1>3. QED
  BY <1>1, <1>2, CallKeeps, MainArrivesKeeps, ListArrivesKeeps, ForwardKeeps, FilterKeeps,
     FilterLinksKeeps, SerializeKeeps, NextFlightKeeps
  DEF Next

\* The inductive invariant, from which the others follow.
THEOREM EndpointsInvariance == Spec => []EndpointsInv
BY InitEndpointsInv, StepEndpointsInv, PTL DEF Spec
-----------------------------------------------------------------------------
\* The parts, what a service returns and what is sent keep their types.
THEOREM EndpointsTypeCorrect == Spec => []TypeOK
<1>1. EndpointsInv => TypeOK
  BY DEF EndpointsInv
<1>2. QED  BY <1>1, EndpointsInvariance, PTL

\* A response lists only what was in the competitions available to its own
\* request, though others filter the same team object meanwhile.
THEOREM ListsOnlyAvailable == Spec => []OnlyAvailableIsListed
<1>1. EndpointsInv => OnlyAvailableIsListed
  BY DEF EndpointsInv, RequestOK, OnlyAvailableIsListed
<1>2. QED  BY <1>1, EndpointsInvariance, PTL
=============================================================================
