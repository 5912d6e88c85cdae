-------------------------- MODULE FootballDataProofs --------------------------
(***************************************************************************)
(* Theorems about FootballData, for every set of requests, crons and keys, *)
(* any number of revisions, and every fault that the constants allow.      *)
(*                                                                         *)
(* The argument has two parts.  The service drives the queue only as       *)
(* FetcherSpec allows, so that FetcherProofs applies.  And revisions are   *)
(* in order: what has been sent, read or cached of a key is never newer    *)
(* than anything from which the key can still be answered.                 *)
(***************************************************************************)
EXTENDS FootballData, FetcherProofs

\* A request holds what getData needs at that point, and it has a call of
\* fetch under way exactly while it is in fetchInline.
RequestRecords ==
    \A r \in Requests :
        /\ step[r] = "idle" <=> want[r] = None
        /\ step[r] # "idle" => resp[r] = None
        /\ step[r] # "reading" => snap[r] = None
        /\ step[r] = "fetching" <=> stage[r] # "idle"
        /\ step[r] = "fetching" => key[r] = want[r]

\* A reply is the running task's, and it is stored when everybody who had to
\* act on an earlier one has done so.
TaskRecords ==
    /\ reply # None => phase = "task"
    /\ stored => IsData(reply) /\ Quiescent

\* Whatever k can still be answered from is of revision n or later: the entry,
\* the outcome of a flight, the reply to the task under way, and the API.
KnownFrom(k, n) ==
    /\ n <= api[k].rev
    /\ cache[k] # None => n <= cache[k].rev
    /\ \A c \in Callers : key[c] = k /\ out[c] \in Answers => n <= out[c].rev
    /\ reply \in Answers /\ key[current] = k => n <= reply.rev

\* What has been sent to a client, and what is in the cache.
EntriesInOrder ==
    \A k \in Keys : /\ KnownFrom(k, delivered[k])
                    /\ cache[k] # None => KnownFrom(k, cache[k].rev)

\* What a request has read, and what had been sent when it did.
SnapshotsInOrder ==
    \A r \in Requests : want[r] # None =>
        /\ floor[r] <= delivered[want[r]]
        /\ snap[r] # None => /\ floor[r] <= snap[r].rev
                             /\ KnownFrom(want[r], snap[r].rev)

\* The outcomes of the flights: calls that have one of the same key were in one
\* flight, and data have been cached before their flight landed.
OutcomesInOrder ==
    \A c \in Callers : out[c] \in Answers =>
        /\ out[c].rev <= api[key[c]].rev
        /\ reply \in Answers /\ key[current] = key[c] => out[c].rev <= reply.rev
        /\ \A d \in Callers :
                out[d] \in Answers /\ key[d] = key[c] => out[c].rev <= out[d].rev
        /\ IsData(out[c]) => KnownFrom(key[c], out[c].rev)

\* The reply to the task under way.
ReplyInOrder ==
    reply \in Answers =>
        /\ reply.rev <= api[key[current]].rev
        /\ stored => KnownFrom(key[current], reply.rev)

CacheInv ==
    /\ TypeOK
    /\ IInv
    /\ RequestRecords
    /\ TaskRecords
    /\ EntriesInOrder
    /\ SnapshotsInOrder
    /\ OutcomesInOrder
    /\ ReplyInOrder
-----------------------------------------------------------------------------
(* Names and entries.                                                      *)

LEMMA Nobody ==
    /\ None \notin Callers /\ None \notin Keys /\ None \notin Outcomes
    /\ Requests \subseteq Callers /\ Keys \subseteq Callers /\ Syncs \subseteq Callers
    /\ Answers \subseteq Outcomes /\ Failed \in Outcomes /\ RateLimited \in Outcomes
    /\ None \notin Answers /\ Failed \notin Answers /\ RateLimited \notin Answers
    /\ None \notin Entries
BY FetcherAssumption, FootballDataAssumption DEF Outcomes

\* What is cached is an entry of the answer's revision.
LEMMA EntryOf ==
    ASSUME NEW a \in Answers
    PROVE  Entry(a) \in Entries /\ Entry(a).rev = a.rev /\ Entry(a) # None
<1>1. Entry(a) \in Entries /\ Entry(a).rev = a.rev
  BY DEF Answers, Entry, Entries
<1>2. QED  BY <1>1, Nobody

-----------------------------------------------------------------------------
(* Where data go.                                                          *)

\* Data go from the API to the running task, from it to its call and to the
\* cache, from call to call, and from calls to the cache.
Flows ==
    /\ \A k \in Keys : api[k].rev <= api'[k].rev
    /\ \A k \in Keys : cache'[k] # None =>
            \/ cache[k] # None /\ cache'[k].rev = cache[k].rev
            \/ /\ reply \in Answers /\ key[current] = k
               /\ cache'[k].rev = reply.rev
            \/ \E c \in Callers : /\ out[c] \in Answers /\ key[c] = k
                                  /\ cache'[k].rev = out[c].rev
    /\ \A c \in Callers : out'[c] \in Answers =>
            \/ \E d \in Callers : out'[c] = out[d] /\ key'[c] = key[d]
            \/ out'[c] = reply /\ key'[c] = key[current]
    /\ reply' \in Answers =>
            \/ reply' = reply /\ key'[current'] = key[current]
            \/ key'[current'] \in Keys /\ reply' = api[key'[current']]

\* So nothing that a key can be answered from gets older.
LEMMA KnownStays ==
    ASSUME TypeOK, TypeOK', Flows, NEW k \in Keys, NEW n \in Int, KnownFrom(k, n)
    PROVE  KnownFrom(k, n)'
<1>1. /\ api[k].rev \in Int /\ api'[k].rev \in Int
      /\ n <= api[k].rev /\ api[k].rev <= api'[k].rev
  BY FootballDataAssumption DEF TypeOK, Answers, KnownFrom, Flows
<1>2. n <= api'[k].rev
  BY <1>1
<1>3. cache'[k] # None => n <= cache'[k].rev
  BY DEF KnownFrom, Flows
<1>4. \A c \in Callers : key'[c] = k /\ out'[c] \in Answers => n <= out'[c].rev
  BY DEF KnownFrom, Flows
<1>5. reply' \in Answers /\ key'[current'] = k => n <= reply'.rev
  BY <1>1 DEF KnownFrom, Flows
<1>6. QED  BY <1>2, <1>3, <1>4, <1>5 DEF KnownFrom

\* No outcome is new: those there are have been there for the same key.
Carried ==
    \A c \in Callers : out'[c] # None =>
        \E d \in Callers : out'[c] = out[d] /\ key'[c] = key[d]

\* The running task keeps its reply and its key.
TaskStays ==
    UNCHANGED taskVars /\ (reply # None => key'[current'] = key[current])

\* The running task keeps its reply and its key, or has just been answered.
ReplyStays ==
    reply' \in Answers =>
        \/ reply' = reply /\ key'[current'] = key[current]
        \/ reply' = api[key'[current']]

LEMMA OutcomesStayInOrder ==
    ASSUME TypeOK, TypeOK', IInv, OutcomesInOrder, Flows, Carried, ReplyStays
    PROVE  OutcomesInOrder'
<1> SUFFICES ASSUME NEW c \in Callers, out'[c] \in Answers
             PROVE  /\ out'[c].rev <= api'[key'[c]].rev
                    /\ reply' \in Answers /\ key'[current'] = key'[c] =>
                            out'[c].rev <= reply'.rev
                    /\ \A d \in Callers : out'[d] \in Answers /\ key'[d] = key'[c] =>
                            out'[c].rev <= out'[d].rev
                    /\ IsData(out'[c]) => KnownFrom(key[c], out[c].rev)'
  BY DEF OutcomesInOrder, IsData
<1>1. PICK e \in Callers : out'[c] = out[e] /\ key'[c] = key[e]
  BY Nobody DEF Carried
<1>2. PICK k \in Keys, n \in Int : k = key[e] /\ n = out[e].rev
  BY <1>1, Nobody DEF Answers, IInv, CallRecords
<1>3. /\ n <= api[k].rev /\ api[k].rev <= api'[k].rev
      /\ api[k].rev \in Int /\ api'[k].rev \in Int
  BY <1>1, <1>2 DEF OutcomesInOrder, Flows, TypeOK, Answers
<1>4. n <= api'[k].rev
  BY <1>3
<1>5. reply' \in Answers /\ key'[current'] = k => n <= reply'.rev
  BY <1>1, <1>2, <1>3 DEF OutcomesInOrder, ReplyStays
<1>6. ASSUME NEW d \in Callers, out'[d] \in Answers, key'[d] = k
      PROVE  n <= out'[d].rev
  BY <1>1, <1>2, <1>6, Nobody DEF Carried, OutcomesInOrder
<1>7. IsData(out'[c]) => KnownFrom(k, n)'
  BY <1>1, <1>2, KnownStays DEF OutcomesInOrder
<1>8. IsData(out'[c]) => KnownFrom(key[c], out[c].rev)'
  BY <1>1, <1>2, <1>7 DEF KnownFrom
<1>9. QED  BY <1>1, <1>2, <1>4, <1>5, <1>6, <1>8

LEMMA ReplyStaysInOrder ==
    ASSUME TypeOK, TypeOK', IInv, TaskRecords, ReplyInOrder, Flows, TaskStays
    PROVE  ReplyInOrder'
<1> SUFFICES ASSUME reply' \in Answers
             PROVE  /\ reply'.rev <= api'[key'[current']].rev
                    /\ stored' => KnownFrom(key[current], reply.rev)'
  BY DEF ReplyInOrder
<1>1. reply' = reply /\ stored' = stored /\ key'[current'] = key[current]
  BY Nobody DEF TaskStays, taskVars
<1>2. PICK k \in Keys, n \in Int : k = key[current] /\ n = reply.rev
  BY <1>1, RunningTask, Nobody DEF Answers, TaskRecords
<1>3. /\ n <= api[k].rev /\ api[k].rev <= api'[k].rev
      /\ api[k].rev \in Int /\ api'[k].rev \in Int
  BY <1>1, <1>2 DEF ReplyInOrder, Flows, TypeOK, Answers
<1>4. stored => KnownFrom(k, n)'
  BY <1>1, <1>2, KnownStays DEF ReplyInOrder
<1>5. QED  BY <1>1, <1>2, <1>3, <1>4 DEF KnownFrom

\* No request has begun or read the cache, and what was sent is not older.
RequestsStay ==
    /\ \A k \in Keys : delivered[k] <= delivered'[k]
    /\ \A r \in Requests : want'[r] # None =>
            want'[r] = want[r] /\ snap'[r] = snap[r] /\ floor'[r] = floor[r]

LEMMA SnapshotsStayInOrder ==
    ASSUME TypeOK, TypeOK', SnapshotsInOrder, Flows, RequestsStay
    PROVE  SnapshotsInOrder'
<1> SUFFICES ASSUME NEW r \in Requests, want'[r] # None
             PROVE  /\ floor'[r] <= delivered'[want'[r]]
                    /\ snap'[r] # None => /\ floor'[r] <= snap'[r].rev
                                          /\ KnownFrom(want[r], snap[r].rev)'
  BY DEF SnapshotsInOrder
<1>1. want'[r] = want[r] /\ snap'[r] = snap[r] /\ floor'[r] = floor[r]
  BY DEF RequestsStay
<1>2. PICK k \in Keys : k = want[r]
  BY <1>1 DEF TypeOK
<1>3. /\ floor[r] <= delivered[k] /\ delivered[k] <= delivered'[k]
      /\ floor[r] \in Int /\ delivered[k] \in Int /\ delivered'[k] \in Int
  BY <1>1, <1>2, FootballDataAssumption DEF SnapshotsInOrder, RequestsStay, TypeOK
<1>4. ASSUME snap'[r] # None
      PROVE  floor'[r] <= snap'[r].rev /\ KnownFrom(want[r], snap[r].rev)'
  <2>1. PICK n \in Int : n = snap[r].rev
    BY <1>1, <1>4 DEF TypeOK, Entries
  <2>2. floor[r] <= n /\ KnownFrom(k, n)
    BY <1>1, <1>2, <1>4, <2>1 DEF SnapshotsInOrder
  <2>3. KnownFrom(k, n)'
    BY <2>2, KnownStays
  <2>4. QED  BY <1>1, <1>2, <2>1, <2>2, <2>3 DEF KnownFrom
<1>5. QED  BY <1>1, <1>2, <1>3, <1>4

\* What has been sent is known when it was known, or is now.
LEMMA SentStaysInOrder ==
    ASSUME TypeOK, TypeOK', EntriesInOrder, Flows, NEW k \in Keys,
           delivered'[k] = delivered[k] \/ KnownFrom(k, delivered[k])'
    PROVE  KnownFrom(k, delivered[k])'
<1>1. delivered[k] \in Int /\ KnownFrom(k, delivered[k])
  BY DEF TypeOK, EntriesInOrder
<1>2. QED  BY <1>1, KnownStays DEF KnownFrom

\* So is an entry, unless it is new.
LEMMA CacheStaysInOrder ==
    ASSUME TypeOK, TypeOK', EntriesInOrder, Flows, NEW k \in Keys, cache'[k] # None,
           \/ cache[k] # None /\ cache'[k].rev = cache[k].rev
           \/ KnownFrom(k, cache[k].rev)'
    PROVE  KnownFrom(k, cache[k].rev)'
<1>1. CASE cache[k] # None /\ cache'[k].rev = cache[k].rev
  <2>1. PICK n \in Int : n = cache[k].rev /\ n = cache'[k].rev
    BY <1>1 DEF TypeOK, Entries
  <2>2. KnownFrom(k, n)'
    BY <1>1, <2>1, KnownStays DEF EntriesInOrder
  <2>3. QED  BY <2>1, <2>2 DEF KnownFrom
<1>2. QED  BY <1>1

\* No request is answered, and an entry ages at most.
EntriesStay ==
    /\ UNCHANGED delivered
    /\ \A k \in Keys : cache'[k] # None => cache[k] # None /\ cache'[k].rev = cache[k].rev

LEMMA EntriesStayInOrder ==
    ASSUME TypeOK, TypeOK', EntriesInOrder, Flows, EntriesStay
    PROVE  EntriesInOrder'
BY SentStaysInOrder, CacheStaysInOrder DEF EntriesInOrder, EntriesStay
-----------------------------------------------------------------------------
(* One lemma per action: first those that leave the queue alone.           *)

\* What the queue holds is as it was, and so are the outcomes.
LEMMA QueueUntouched ==
    ASSUME IInv, UNCHANGED fetcherVars
    PROVE  IInv' /\ Carried /\ (Quiescent => Quiescent')
<1>1. IInv'
  BY StepIInv
<1>2. Carried /\ (Quiescent => Quiescent')
  BY DEF fetcherVars, Carried, Quiescent
<1>3. QED  BY <1>1, <1>2

LEMMA ServeKeeps ==
    ASSUME CacheInv, Serve
    PROVE  CacheInv' /\ Flows
<1> USE DEF CacheInv
<1>1. /\ UNCHANGED fetcherVars /\ UNCHANGED requestVars
      /\ UNCHANGED <<api, hung, stored, cache>>
      /\ phase = "task" /\ reply = None /\ ~stored
      /\ reply' \in {api[key[current]], RateLimited, Failed}
  BY Nobody DEF Serve, apiVars, TaskRecords, IsData
<1>2. key[current] \in Keys /\ api[key[current]] \in Answers
  BY <1>1, RunningTask DEF TypeOK
<1>3. IInv' /\ Carried
  BY <1>1, QueueUntouched
<1>4. TypeOK'
  BY <1>1, <1>2, <1>3, Nobody DEF TypeOK, IInv, requestVars
<1>5. RequestRecords' /\ TaskRecords'
  BY <1>1 DEF RequestRecords, TaskRecords, requestVars, fetcherVars
<1>6. Flows /\ ReplyStays /\ RequestsStay /\ EntriesStay
  BY <1>1, <1>2, Nobody
  DEF Flows, ReplyStays, RequestsStay, EntriesStay, requestVars, fetcherVars, TypeOK, Answers
<1>7. ReplyInOrder'
  BY <1>1, <1>2, Nobody DEF ReplyInOrder, fetcherVars, TypeOK, Answers
<1>8. QED
  BY <1>3, <1>4, <1>5, <1>6, <1>7, OutcomesStayInOrder, SnapshotsStayInOrder,
     EntriesStayInOrder

\* A step of the world around, or of a request, that changes neither the queue
\* nor the task, nor what has been sent.
LEMMA OutsideKeeps ==
    ASSUME CacheInv, UNCHANGED <<fetcherVars, taskVars>>, TypeOK', RequestRecords',
           Flows, EntriesStay, SnapshotsInOrder'
    PROVE  CacheInv'
<1> USE DEF CacheInv
<1>1. IInv' /\ Carried /\ (Quiescent => Quiescent')
  BY QueueUntouched
<1>2. TaskRecords'
  BY <1>1 DEF TaskRecords, fetcherVars, taskVars, IsData
<1>3. ReplyStays /\ TaskStays
  BY DEF ReplyStays, TaskStays, fetcherVars, taskVars
<1>4. QED
  BY <1>1, <1>2, <1>3, OutcomesStayInOrder, ReplyStaysInOrder, EntriesStayInOrder

LEMMA HangKeeps ==
    ASSUME CacheInv, Hang
    PROVE  CacheInv' /\ Flows
<1> USE DEF CacheInv
<1>1. UNCHANGED <<fetcherVars, taskVars, requestVars, api, cache>> /\ hung' = TRUE
  BY DEF Hang
<1>2. TypeOK' /\ RequestRecords'
  BY <1>1, QueueUntouched DEF TypeOK, IInv, RequestRecords, requestVars, taskVars, fetcherVars
<1>3. Flows /\ EntriesStay /\ RequestsStay
  BY <1>1 DEF Flows, EntriesStay, RequestsStay, TypeOK, Answers, fetcherVars, requestVars,
              taskVars
<1>4. QED  BY <1>1, <1>2, <1>3, OutsideKeeps, SnapshotsStayInOrder

LEMMA WorldKeeps ==
    ASSUME CacheInv, NEW k \in Keys, Publish(k) \/ GoStale(k) \/ Expire(k)
    PROVE  CacheInv' /\ Flows
<1> USE DEF CacheInv
<1>1. UNCHANGED <<fetcherVars, taskVars, requestVars, hung>>
  BY DEF Publish, GoStale, Expire, apiVars
<1>2. \A l \in Keys : /\ api'[l] \in Answers
                      /\ api[l].rev <= api'[l].rev
                      /\ cache'[l] \in Entries \cup {None}
                      /\ cache'[l] # None => cache[l] # None /\ cache'[l].rev = cache[l].rev
  <2>1. CASE Publish(k)
    BY <2>1, FootballDataAssumption DEF Publish, TypeOK, Answers
  <2>2. CASE GoStale(k)
    <3>1. /\ cache[k] \in Entries /\ api' = api
          /\ cache' = [cache EXCEPT ![k] = [cache[k] EXCEPT !.stale = TRUE]]
      BY <2>2 DEF GoStale, apiVars, TypeOK
    <3>2. /\ [cache[k] EXCEPT !.stale = TRUE] \in Entries
          /\ [cache[k] EXCEPT !.stale = TRUE].rev = cache[k].rev
      BY <3>1 DEF Entries
    <3>3. \A l \in Keys : api[l].rev <= api[l].rev
      BY FootballDataAssumption DEF TypeOK, Answers
    <3>4. QED  BY <2>2, <3>1, <3>2, <3>3 DEF TypeOK, GoStale
  <2>3. CASE Expire(k)
    BY <2>3, FootballDataAssumption DEF Expire, apiVars, TypeOK, Answers
  <2>4. QED  BY <2>1, <2>2, <2>3
<1>3. api' \in [Keys -> Answers] /\ cache' \in [Keys -> Entries \cup {None}]
  <2>1. api' = [l \in Keys |-> api'[l]] /\ cache' = [l \in Keys |-> cache'[l]]
    BY DEF Publish, GoStale, Expire, apiVars, TypeOK
  <2>2. QED  BY <1>2, <2>1
<1>4. TypeOK' /\ RequestRecords'
  BY <1>1, <1>3, QueueUntouched
  DEF TypeOK, IInv, RequestRecords, requestVars, taskVars, fetcherVars
<1>5. Flows /\ EntriesStay /\ RequestsStay
  BY <1>1, <1>2 DEF Flows, EntriesStay, RequestsStay, TypeOK, fetcherVars, requestVars, taskVars
<1>6. QED  BY <1>1, <1>4, <1>5, OutsideKeeps, SnapshotsStayInOrder

LEMMA LookupKeeps ==
    ASSUME CacheInv, NEW r \in Requests, NEW k \in Keys, Lookup(r, k)
    PROVE  CacheInv' /\ Flows
<1> USE DEF CacheInv
<1>1. /\ UNCHANGED <<fetcherVars, taskVars, api, hung, cache, delivered>>
      /\ step[r] = "idle" /\ step' = [step EXCEPT ![r] = "reading"]
      /\ want' = [want EXCEPT ![r] = k]
      /\ snap' = [snap EXCEPT ![r] = cache[k]]
      /\ resp' = [resp EXCEPT ![r] = None]
      /\ floor' = [floor EXCEPT ![r] = delivered[k]]
  BY DEF Lookup, apiVars
<1>2. TypeOK'
  BY <1>1, QueueUntouched DEF TypeOK, IInv, taskVars
<1>3. RequestRecords'
  BY <1>1, Nobody DEF RequestRecords, TypeOK, fetcherVars
<1>4. Flows /\ EntriesStay
  BY <1>1 DEF Flows, EntriesStay, TypeOK, Answers, fetcherVars, taskVars
<1>5. SnapshotsInOrder'
  <2>1. SUFFICES ASSUME NEW q \in Requests, want'[q] # None
                 PROVE  /\ floor'[q] <= delivered'[want'[q]]
                        /\ snap'[q] # None => /\ floor'[q] <= snap'[q].rev
                                              /\ KnownFrom(want[q], snap[q].rev)'
    BY DEF SnapshotsInOrder
  <2>2. \A l, n : KnownFrom(l, n) => KnownFrom(l, n)'
    BY <1>1 DEF KnownFrom, fetcherVars, taskVars
  <2>3. CASE q = r
    <3>1. /\ want'[r] = k /\ snap'[r] = cache[k] /\ floor'[r] = delivered[k]
          /\ delivered[k] \in Int
      BY <1>1 DEF TypeOK
    <3>2. cache[k] # None => delivered[k] <= cache[k].rev /\ KnownFrom(k, cache[k].rev)
      BY DEF EntriesInOrder, KnownFrom
    <3>3. cache[k] # None => KnownFrom(want[r], snap[r].rev)'
      BY <2>2, <3>1, <3>2 DEF KnownFrom
    <3>4. QED  BY <1>1, <2>3, <3>1, <3>2, <3>3
  <2>4. CASE q # r
    <3>1. want'[q] = want[q] /\ snap'[q] = snap[q] /\ floor'[q] = floor[q]
      BY <1>1, <2>4 DEF TypeOK
    <3>2. snap[q] # None => KnownFrom(want[q], snap[q].rev)'
      BY <2>1, <2>2, <3>1 DEF SnapshotsInOrder, KnownFrom
    <3>3. QED  BY <1>1, <2>1, <3>1, <3>2 DEF SnapshotsInOrder
  <2>5. QED  BY <2>3, <2>4
<1>6. QED  BY <1>1, <1>2, <1>3, <1>4, <1>5, OutsideKeeps
-----------------------------------------------------------------------------
(* The actions of the task.                                                *)

\* The reply of the running task and the key it is for.
LEMMA RunningReply ==
    ASSUME CacheInv, reply # None
    PROVE  /\ phase = "task" /\ current \in Callers /\ key[current] \in Keys
           /\ stage[current] = "awaiting" /\ out[current] = None
           /\ reply \in Answers => reply.rev \in 0..MaxRev
BY RunningTask DEF CacheInv, TaskRecords, Answers

\* Nobody has an outcome when everybody has acted on theirs.
LEMMA NoOutcomes ==
    ASSUME CacheInv, Quiescent
    PROVE  \A c \in Callers : out[c] = None
BY DEF CacheInv, IInv, CallRecords, Quiescent

LEMMA StoreKeeps ==
    ASSUME CacheInv, Store
    PROVE  CacheInv' /\ Flows
<1> USE DEF CacheInv
<1>1. /\ IsData(reply) /\ ~stored /\ Quiescent /\ reply # None
      /\ UNCHANGED <<fetcherVars, apiVars, requestVars>>
  BY Nobody DEF Store, IsData
<1>2. /\ IInv' /\ Carried /\ Quiescent'
  BY <1>1, QueueUntouched
<1>3. \A c \in Callers : out[c] = None /\ out'[c] = None
  BY <1>1, NoOutcomes DEF fetcherVars
<1>4. OutcomesInOrder'
  BY <1>3, Nobody DEF OutcomesInOrder
<1>5. PICK k \in Keys, n \in 0..MaxRev : k = key[current] /\ n = reply.rev
  BY <1>1, RunningReply DEF IsData
<1>6. RequestRecords' /\ RequestsStay
  BY <1>1 DEF RequestRecords, RequestsStay, requestVars, fetcherVars, TypeOK
<1>7. CASE reply' = Failed /\ UNCHANGED <<cache, stored>>
  <2>1. TypeOK' /\ TaskRecords' /\ ReplyInOrder'
    BY <1>1, <1>2, <1>7, Nobody, RunningReply
    DEF TypeOK, IInv, TaskRecords, ReplyInOrder, IsData, apiVars, requestVars, fetcherVars
  <2>2. Flows /\ EntriesStay
    BY <1>1, <1>3, <1>7, Nobody
    DEF Flows, EntriesStay, TypeOK, Answers, apiVars, requestVars
  <2>3. QED
    BY <1>2, <1>4, <1>6, <2>1, <2>2, SnapshotsStayInOrder, EntriesStayInOrder
<1>8. CASE /\ cache' = [cache EXCEPT ![key[current]] = Entry(reply)]
           /\ stored' = TRUE /\ UNCHANGED reply
  <2>1. /\ cache' = [cache EXCEPT ![k] = Entry(reply)]
        /\ Entry(reply) \in Entries /\ Entry(reply).rev = n /\ Entry(reply) # None
    BY <1>1, <1>5, <1>8, EntryOf DEF IsData
  <2>2. TypeOK' /\ TaskRecords'
    BY <1>1, <1>2, <1>8, <2>1, Nobody, RunningReply
    DEF TypeOK, IInv, TaskRecords, IsData, apiVars, requestVars, fetcherVars
  <2>3. Flows
    BY <1>1, <1>3, <1>5, <1>8, <2>1, Nobody
    DEF Flows, TypeOK, Answers, IsData, apiVars, fetcherVars
  <2>4. KnownFrom(k, n)'
    BY <1>1, <1>3, <1>5, <1>8, <2>1, Nobody
    DEF KnownFrom, ReplyInOrder, TypeOK, IsData, apiVars, fetcherVars
  <2>5. ReplyInOrder'
    BY <1>1, <1>5, <1>8, <2>4 DEF ReplyInOrder, KnownFrom, IsData, apiVars, fetcherVars
  <2>6. EntriesInOrder'
    <3>1. \A l \in Keys : KnownFrom(l, delivered[l])'
      BY <1>1, <2>2, <2>3, SentStaysInOrder DEF requestVars
    <3>2. \A l \in Keys : cache'[l] # None => KnownFrom(l, cache[l].rev)'
      BY <1>5, <2>1, <2>2, <2>3, <2>4, CacheStaysInOrder DEF TypeOK, KnownFrom
    <3>3. QED  BY <3>1, <3>2 DEF EntriesInOrder
  <2>7. QED
    BY <1>2, <1>4, <1>6, <2>2, <2>3, <2>5, <2>6, SnapshotsStayInOrder
<1>9. QED  BY <1>7, <1>8 DEF Store

\* The task ends: its call gets the reply, which is stored by now if it is data.
LEMMA LandingKeeps ==
    ASSUME CacheInv, reply \in Outcomes, Settle(reply),
           IsData(reply) => stored, stored \/ Quiescent, reply' = None, stored' = FALSE,
           UNCHANGED <<apiVars, cache, requestVars>>
    PROVE  CacheInv' /\ Flows
<1> USE DEF CacheInv
<1>1. /\ phase = "task" /\ current \in Callers /\ key[current] \in Keys
      /\ stage[current] = "awaiting" /\ out[current] = None
  BY Nobody, RunningReply
<1>2. /\ UNCHANGED key
      /\ out' = [out EXCEPT ![current] = reply]
      /\ stage' = [stage EXCEPT ![current] = "settled"]
  BY SettleEffect
<1>3. IInv'
  BY SettleKeeps
<1>4. TypeOK'
  BY <1>3 DEF TypeOK, IInv, apiVars, requestVars
<1>5. RequestRecords' /\ TaskRecords'
  BY <1>1, <1>2, Nobody DEF RequestRecords, TaskRecords, requestVars, IInv, FetcherTypeOK
<1>6. /\ \A c \in Callers : out'[c] = IF c = current THEN reply ELSE out[c]
      /\ \A k \in Keys : api'[k] = api[k] /\ api[k].rev \in Int
      /\ cache' = cache
  BY <1>1, <1>2, FootballDataAssumption
  DEF IInv, FetcherTypeOK, TypeOK, Answers, apiVars
<1>7. Flows /\ RequestsStay /\ EntriesStay /\ ReplyInOrder'
  <2>1. \A k \in Keys : api[k].rev <= api'[k].rev
    BY <1>6
  <2>2. QED
    BY <1>1, <1>2, <1>6, <2>1, Nobody
    DEF Flows, RequestsStay, EntriesStay, ReplyInOrder, TypeOK, requestVars
<1>8. OutcomesInOrder'
  <2> SUFFICES ASSUME NEW c \in Callers, out'[c] \in Answers
               PROVE  /\ out'[c].rev <= api'[key'[c]].rev
                      /\ \A d \in Callers : out'[d] \in Answers /\ key'[d] = key'[c] =>
                              out'[c].rev <= out'[d].rev
                      /\ IsData(out'[c]) => KnownFrom(key[c], out[c].rev)'
    BY Nobody DEF OutcomesInOrder, IsData
  <2>1. PICK k \in Keys, n \in Int : k = key[c] /\ n = out'[c].rev
    BY <1>1, <1>6, Nobody DEF Answers, IInv, CallRecords
  <2>2. n <= api[k].rev
    BY <1>6, <2>1 DEF OutcomesInOrder, ReplyInOrder
  <2>3. ASSUME NEW d \in Callers, out'[d] \in Answers, key[d] = k
        PROVE  n <= out'[d].rev
    <3>1. CASE c # current
      BY <1>6, <2>1, <2>3, <3>1 DEF OutcomesInOrder
    <3>2. CASE c = current /\ d = current
      BY <1>6, <2>1, <2>3, <3>2
    <3>3. CASE c = current /\ d # current
      BY <1>6, <2>1, <2>3, <3>3, NoOutcomes, Nobody DEF ReplyInOrder, KnownFrom
    <3>4. QED  BY <3>1, <3>2, <3>3
  <2>4. ASSUME IsData(out'[c])
        PROVE  KnownFrom(k, n)'
    <3>1. KnownFrom(k, n)
      BY <1>6, <2>1, <2>4, Nobody DEF ReplyInOrder, OutcomesInOrder, IsData
    <3>2. QED  BY <1>4, <1>7, <3>1, KnownStays
  <2>5. IsData(out'[c]) => KnownFrom(key[c], out[c].rev)'
    BY <1>2, <2>1, <2>4 DEF KnownFrom
  <2>6. QED  BY <1>2, <1>6, <2>1, <2>2, <2>3, <2>5
<1>9. QED
  BY <1>3, <1>4, <1>5, <1>7, <1>8, SnapshotsStayInOrder, EntriesStayInOrder

LEMMA FinishKeeps ==
    ASSUME CacheInv, Finish
    PROVE  CacheInv' /\ Flows
BY LandingKeeps DEF Finish, Outcomes

\* The running task starts to sleep, or wakes up, with no reply.
LEMMA SleepKeeps ==
    ASSUME CacheInv, IInv', reply' = None, stored' = FALSE,
           UNCHANGED <<flightVars, current, apiVars, cache, requestVars>>
    PROVE  CacheInv' /\ Flows
<1> USE DEF CacheInv
<1>1. UNCHANGED <<stage, key, out, api, hung>>
  BY DEF flightVars, apiVars
<1>2. TypeOK' /\ RequestRecords' /\ TaskRecords' /\ ReplyInOrder'
  BY <1>1, Nobody
  DEF TypeOK, IInv, RequestRecords, TaskRecords, ReplyInOrder, requestVars
<1>3. Flows /\ Carried /\ ReplyStays /\ RequestsStay /\ EntriesStay
  BY <1>1, Nobody
  DEF Flows, Carried, ReplyStays, RequestsStay, EntriesStay, TypeOK, Answers, requestVars
<1>4. QED
  BY <1>2, <1>3, OutcomesStayInOrder, SnapshotsStayInOrder, EntriesStayInOrder

LEMMA LimitedKeeps ==
    ASSUME CacheInv, NEW h \in WaitHints, Limited(h)
    PROVE  CacheInv' /\ Flows
<1>1. /\ reply = RateLimited /\ Quiescent /\ reply' = None /\ stored' = FALSE
      /\ UNCHANGED <<apiVars, cache, requestVars>> /\ TaskLimited(h)
      /\ reply \in Outcomes /\ ~IsData(reply)
  BY Nobody DEF Limited, CacheInv, TypeOK, TaskRecords, IsData
<1>2. CASE Settle(RateLimited)
  BY <1>1, <1>2, LandingKeeps
<1>3. CASE UNCHANGED <<flightVars, current>>
  <2>1. IInv'
    BY <1>1, TaskLimitedKeeps DEF CacheInv
  <2>2. QED  BY <1>1, <1>3, <2>1, SleepKeeps
<1>4. QED  BY <1>1, <1>2, <1>3 DEF TaskLimited

LEMMA WakingKeeps ==
    ASSUME CacheInv, Retry
    PROVE  CacheInv' /\ Flows
<1>1. reply = None /\ ~stored
  BY Nobody DEF Retry, Wake, CacheInv, TaskRecords, IsData
<1>2. QED
  BY <1>1, SleepKeeps, WakeKeeps DEF Retry, Wake, taskVars, CacheInv, TypeOK
-----------------------------------------------------------------------------
(* The actions of the requests and of the crons.                           *)

\* A call of fetch that begins or returns leaves the running task alone.
LEMMA CallEffect ==
    ASSUME CacheInv, NEW c \in Callers, NEW k \in Keys, Fetch(c, k) \/ Return(c),
           UNCHANGED taskVars
    PROVE  /\ IInv' /\ Carried /\ TaskStays /\ ReplyStays /\ TaskRecords'
           /\ \A d \in Callers : d # c =>
                key'[d] = key[d] /\ (stage'[d] = "idle" <=> stage[d] = "idle")
<1> USE DEF CacheInv, taskVars
<1>1. CASE Fetch(c, k)
  <2>1. IInv'
    BY <1>1, JoinKeeps, EnqueueKeeps DEF Fetch
  <2>2. /\ \A d \in Callers : d # c => key'[d] = key[d] /\ stage'[d] = stage[d]
        /\ out' = out /\ out[c] = None
    BY <1>1, FetchEffect DEF IInv, FetcherTypeOK
  <2>4. reply # None => key'[current'] = key[current]
    BY <1>1, <2>2, FetchEffect, RunningTask DEF TaskRecords
  <2>5. Carried /\ TaskStays /\ ReplyStays
    BY <2>2, <2>4, Nobody DEF Carried, TaskStays, ReplyStays
  <2>3. TaskRecords'
    BY <1>1, FetchEffect DEF TaskRecords, Quiescent, IsData, IInv, FetcherTypeOK
  <2>6. QED  BY <2>1, <2>2, <2>3, <2>5
<1>2. CASE Return(c)
  <2>1. IInv'
    BY <1>2, OwnerReturnsKeeps, JoinerReturnsKeeps DEF Return
  <2>2. /\ Carried /\ TaskStays /\ ReplyStays
        /\ \A d \in Callers : d # c =>
                key'[d] = key[d] /\ (stage'[d] = "idle" <=> stage[d] = "idle")
    BY <1>2, ReturnEffect, RunningTask, Nobody
    DEF Carried, TaskStays, ReplyStays, TaskRecords, workerVars
  <2>3. TaskRecords'
    BY <1>2, ReturnEffect DEF TaskRecords, Quiescent, workerVars
  <2>4. QED  BY <2>1, <2>2, <2>3
<1>3. QED  BY <1>1, <1>2

\* A request leaves getData, or fetchInline, with an answer.
LEMMA AnsweringKeeps ==
    ASSUME CacheInv, IInv', Carried, TaskStays, ReplyStays, TaskRecords', Flows,
           UNCHANGED <<apiVars, taskVars>>, cache' \in [Keys -> Entries \cup {None}],
           NEW r \in Requests, step[r] # "idle", stage'[r] = "idle",
           \A q \in Requests : q # r =>
                key'[q] = key[q] /\ (stage'[q] = "idle" <=> stage[q] = "idle"),
           NEW s \in Statuses, NEW n \in 0..MaxRev \cup {None}, Reply(r, s, n),
           NEW k \in Keys, k = want[r],
           n # None => KnownFrom(k, n)',
           \A l \in Keys : cache'[l] # None =>
                \/ cache[l] # None /\ cache'[l].rev = cache[l].rev
                \/ KnownFrom(l, cache[l].rev)'
    PROVE  CacheInv'
<1> USE DEF CacheInv
<1>1. /\ step' = [step EXCEPT ![r] = "idle"]
      /\ want' = [want EXCEPT ![r] = None]
      /\ snap' = [snap EXCEPT ![r] = None]
      /\ resp' = [resp EXCEPT ![r] = [status |-> s, rev |-> n]]
      /\ floor' = floor
      /\ \/ delivered' = delivered
         \/ n \in 0..MaxRev /\ delivered[k] <= n /\ delivered' = [delivered EXCEPT ![k] = n]
  BY FootballDataAssumption DEF Reply, TypeOK
<1>2. [status |-> s, rev |-> n] \in Responses
  BY DEF Responses
<1>3. TypeOK'
  BY <1>1, <1>2 DEF TypeOK, IInv, apiVars, taskVars
<1>4. RequestRecords'
  BY <1>1, Nobody DEF RequestRecords, TypeOK
<1>5. RequestsStay
  <2>1. \A l \in Keys : delivered[l] \in Int
    BY DEF TypeOK
  <2>2. \A l \in Keys : delivered[l] <= delivered'[l]
    BY <1>1, <2>1 DEF TypeOK
  <2>3. QED  BY <1>1, <2>2, Nobody DEF RequestsStay, TypeOK
<1>6. EntriesInOrder'
  <2> SUFFICES ASSUME NEW l \in Keys
               PROVE  /\ KnownFrom(l, delivered[l])'
                      /\ cache'[l] # None => KnownFrom(l, cache[l].rev)'
    BY DEF EntriesInOrder
  <2>1. delivered'[l] = delivered[l] \/ KnownFrom(l, delivered[l])'
    BY <1>1, FootballDataAssumption DEF TypeOK, KnownFrom
  <2>2. QED  BY <1>3, <2>1, SentStaysInOrder, CacheStaysInOrder
<1>7. QED
  BY <1>3, <1>4, <1>5, <1>6, OutcomesStayInOrder, SnapshotsStayInOrder, ReplyStaysInOrder

\* The answers of getData from the cache, and its failure.
LEMMA ReadFailsKeeps ==
    ASSUME CacheInv, NEW r \in Requests, ReadFails(r)
    PROVE  CacheInv' /\ Flows
<1> USE DEF CacheInv
<1>1. /\ step[r] = "reading" /\ Reply(r, "ERROR", None) /\ stage[r] = "idle"
      /\ UNCHANGED <<fetcherVars, apiVars, taskVars, cache>>
  BY DEF ReadFails, RequestRecords
<1>2. PICK k \in Keys : k = want[r]
  BY <1>1 DEF RequestRecords, TypeOK
<1>3. IInv' /\ Carried /\ TaskStays /\ ReplyStays /\ TaskRecords'
  BY <1>1, QueueUntouched
  DEF TaskStays, ReplyStays, TaskRecords, fetcherVars, taskVars, IsData, Quiescent
<1>4. Flows
  BY <1>1 DEF Flows, TypeOK, Answers, apiVars, taskVars, fetcherVars
<1>5. /\ \A l \in Keys : cache'[l] # None => cache[l] # None /\ cache'[l].rev = cache[l].rev
      /\ cache' \in [Keys -> Entries \cup {None}] /\ stage'[r] = "idle"
      /\ \A q \in Requests : key'[q] = key[q] /\ (stage'[q] = "idle" <=> stage[q] = "idle")
  BY <1>1 DEF TypeOK, fetcherVars
<1>6. QED
  BY <1>1, <1>2, <1>3, <1>4, <1>5, AnsweringKeeps DEF Statuses

\* A call that begins or returns moves no data, but to those who joined it.
LEMMA CallFlows ==
    ASSUME CacheInv, Carried, TaskStays, UNCHANGED <<apiVars, cache>>
    PROVE  Flows
<1>1. \A k \in Keys : api[k].rev <= api'[k].rev
  BY FootballDataAssumption DEF CacheInv, TypeOK, Answers, apiVars
<1>2. QED  BY <1>1, Nobody DEF Flows, Carried, TaskStays, taskVars

\* A step that begins or returns a call, and answers no request.
LEMMA CallKeeps ==
    ASSUME CacheInv, NEW c \in Callers, NEW k \in Keys, Fetch(c, k) \/ Return(c),
           UNCHANGED <<apiVars, taskVars, cache, want, snap, resp, delivered, floor>>,
           step' \in [Requests -> {"idle", "reading", "fetching"}], RequestRecords'
    PROVE  CacheInv' /\ Flows
<1> USE DEF CacheInv
<1>1. IInv' /\ Carried /\ TaskStays /\ ReplyStays /\ TaskRecords'
  BY CallEffect
<1>2. TypeOK'
  BY <1>1 DEF TypeOK, IInv, apiVars, taskVars
<1>3. Flows /\ RequestsStay /\ EntriesStay
  <2>1. \A l \in Keys : delivered[l] <= delivered'[l]
    BY FootballDataAssumption DEF TypeOK
  <2>2. QED  BY <1>1, <2>1, CallFlows DEF RequestsStay, EntriesStay
<1>4. QED
  BY <1>1, <1>2, <1>3, OutcomesStayInOrder, SnapshotsStayInOrder, ReplyStaysInOrder,
     EntriesStayInOrder

LEMMA SyncKeeps ==
    ASSUME CacheInv, NEW s \in Syncs, NEW k \in Keys, Sync(s, k)
    PROVE  CacheInv' /\ Flows
<1>1. s \in Callers /\ s \notin Requests /\ UNCHANGED <<taskVars, requestVars>> /\ Fetch(s, k)
  BY Nobody, FootballDataAssumption DEF Sync
<1>2. \A r \in Requests : key'[r] = key[r] /\ (stage'[r] = "idle" <=> stage[r] = "idle")
  BY <1>1, CallEffect, Nobody
<1>3. step' = step /\ RequestRecords'
  BY <1>1, <1>2 DEF CacheInv, RequestRecords, requestVars
<1>4. QED  BY <1>1, <1>3, CallKeeps DEF Sync, requestVars, CacheInv, TypeOK

LEMMA DiscardKeeps ==
    ASSUME CacheInv, NEW c \in Callers, Discard(c)
    PROVE  CacheInv' /\ Flows
<1>1. c \notin Requests /\ UNCHANGED <<taskVars, requestVars>> /\ Return(c)
  BY FootballDataAssumption DEF Discard
<1>2. PICK k \in Keys : k = key[c]
  BY <1>1, ReturnEffect DEF CacheInv, IInv, CallRecords
<1>3. \A r \in Requests : key'[r] = key[r] /\ (stage'[r] = "idle" <=> stage[r] = "idle")
  BY <1>1, <1>2, CallEffect, Nobody
<1>4. step' = step /\ RequestRecords'
  BY <1>1, <1>3 DEF CacheInv, RequestRecords, requestVars
<1>5. QED  BY <1>1, <1>2, <1>4, CallKeeps DEF Discard, requestVars, CacheInv, TypeOK

LEMMA ResumeKeeps ==
    ASSUME CacheInv, NEW r \in Requests, Resume(r)
    PROVE  CacheInv' /\ Flows
<1> USE DEF CacheInv
<1>1. /\ step[r] = "reading" /\ stage[r] = "idle" /\ r \in Callers
      /\ UNCHANGED <<apiVars, taskVars, cache>>
  BY Nobody DEF Resume, RequestRecords
<1>2. PICK k \in Keys : k = want[r]
  BY <1>1 DEF RequestRecords, TypeOK
<1>3. k \in Callers /\ k # r
  BY Nobody, FootballDataAssumption
<1>4. CASE snap[r] = None
  <2>1. Fetch(r, k) /\ step' = [step EXCEPT ![r] = "fetching"]
        /\ UNCHANGED <<want, snap, resp, delivered, floor>>
    BY <1>2, <1>4 DEF Resume
  <2>2. \A q \in Requests : q # r => key'[q] = key[q] /\ (stage'[q] = "idle" <=> stage[q] = "idle")
    BY <1>1, <2>1, CallEffect, Nobody
  <2>3. stage'[r] = "awaiting" /\ key'[r] = k
    BY <1>1, <2>1, FetchEffect DEF IInv, FetcherTypeOK
  <2>4. RequestRecords'
    BY <1>1, <1>2, <1>4, <2>1, <2>2, <2>3, Nobody DEF RequestRecords, TypeOK
  <2>5. QED  BY <1>1, <2>1, <2>4, CallKeeps DEF TypeOK
<1>5. CASE snap[r] # None
  <2>1. PICK n \in 0..MaxRev : n = snap[r].rev
    BY <1>5 DEF TypeOK, Entries
  <2>2. PICK s \in Statuses : Reply(r, s, n) /\ (UNCHANGED fetcherVars \/ Fetch(k, k))
    BY <1>2, <1>5, <2>1 DEF Resume, Refresh, Statuses
  <2>3. /\ IInv' /\ Carried /\ TaskStays /\ ReplyStays /\ TaskRecords'
        /\ \A q \in Requests : key'[q] = key[q] /\ (stage'[q] = "idle" <=> stage[q] = "idle")
    <3>1. CASE UNCHANGED fetcherVars
      BY <1>1, <3>1, QueueUntouched
      DEF TaskStays, ReplyStays, TaskRecords, fetcherVars, taskVars, IsData, Quiescent
    <3>2. CASE Fetch(k, k)
      <4>1. \A q \in Requests : q \in Callers /\ q # k
        BY Nobody, FootballDataAssumption
      <4>2. QED  BY <1>1, <1>3, <3>2, <4>1, CallEffect
    <3>3. QED  BY <2>2, <3>1, <3>2
  <2>4. Flows
    BY <1>1, <2>3, CallFlows
  <2>5. KnownFrom(k, n)
    BY <1>2, <1>5, <2>1, Nobody DEF SnapshotsInOrder
  <2>6. KnownFrom(k, n)'
    <3>1. api' = api /\ api[k].rev \in Int /\ cache' = cache
      BY <1>1 DEF apiVars, TypeOK, Answers
    <3>2. \A c \in Callers : key'[c] = k /\ out'[c] \in Answers => n <= out'[c].rev
      BY <2>3, <2>5, Nobody DEF Carried, KnownFrom
    <3>3. reply' \in Answers /\ key'[current'] = k => n <= reply'.rev
      BY <2>3, <2>5, Nobody DEF TaskStays, taskVars, KnownFrom
    <3>4. QED  BY <2>5, <3>1, <3>2, <3>3 DEF KnownFrom
  <2>7. /\ cache' \in [Keys -> Entries \cup {None}] /\ stage'[r] = "idle"
        /\ \A l \in Keys : cache'[l] # None => cache[l] # None /\ cache'[l].rev = cache[l].rev
    BY <1>1, <2>3 DEF TypeOK
  <2>8. CacheInv'
    BY <1>1, <1>2, <2>2, <2>3, <2>4, <2>6, <2>7, AnsweringKeeps
  <2>9. QED  BY <2>4, <2>8
<1>6. QED  BY <1>4, <1>5

LEMMA AnswerKeeps ==
    ASSUME CacheInv, NEW r \in Requests, Answer(r)
    PROVE  CacheInv' /\ Flows
<1> USE DEF CacheInv
<1>1. /\ step[r] = "fetching" /\ Return(r) /\ r \in Callers
      /\ UNCHANGED <<apiVars, taskVars>>
  BY Nobody DEF Answer
<1>2. PICK k \in Keys : k = want[r] /\ k = key[r]
  BY <1>1 DEF RequestRecords, TypeOK
<1>3. /\ IInv' /\ Carried /\ TaskStays /\ ReplyStays /\ TaskRecords'
      /\ \A q \in Requests : q # r => key'[q] = key[q] /\ (stage'[q] = "idle" <=> stage[q] = "idle")
      /\ stage'[r] = "idle" /\ ~stored
  BY <1>1, <1>2, CallEffect, ReturnEffect, Nobody DEF TaskRecords, Quiescent
<1>4. CASE UNCHANGED cache /\ \E s \in Statuses : Reply(r, s, None)
  <2>1. Flows
    BY <1>1, <1>3, <1>4, CallFlows
  <2>2. /\ cache' \in [Keys -> Entries \cup {None}]
        /\ \A l \in Keys : cache'[l] # None => cache[l] # None /\ cache'[l].rev = cache[l].rev
    BY <1>4 DEF TypeOK
  <2>3. QED  BY <1>1, <1>2, <1>3, <1>4, <2>1, <2>2, AnsweringKeeps
<1>5. CASE IsData(out[r]) /\ Reply(r, "FRESH", out[r].rev) /\ UNCHANGED cache
  <2>1. PICK n \in 0..MaxRev : n = out[r].rev
    BY <1>5 DEF IsData, Answers
  <2>2. KnownFrom(k, n)
    BY <1>1, <1>2, <1>5, <2>1 DEF OutcomesInOrder, IsData
  <2>3. Flows
    BY <1>1, <1>3, <1>5, CallFlows
  <2>4. KnownFrom(k, n)'
    <3>1. api' = api /\ cache' = cache
      BY <1>1, <1>5 DEF apiVars
    <3>2. \A c \in Callers : key'[c] = k /\ out'[c] \in Answers => n <= out'[c].rev
      BY <1>3, <2>2, Nobody DEF Carried, KnownFrom
    <3>3. reply' \in Answers /\ key'[current'] = k => n <= reply'.rev
      BY <1>3, <2>2, Nobody DEF TaskStays, taskVars, KnownFrom
    <3>4. QED  BY <2>2, <3>1, <3>2, <3>3 DEF KnownFrom
  <2>5. /\ cache' \in [Keys -> Entries \cup {None}]
        /\ \A l \in Keys : cache'[l] # None => cache[l] # None /\ cache'[l].rev = cache[l].rev
    BY <1>5 DEF TypeOK
  <2>6. CacheInv'
    BY <1>1, <1>2, <1>3, <1>5, <2>1, <2>3, <2>4, <2>5, AnsweringKeeps DEF Statuses
  <2>7. QED  BY <2>3, <2>6
<1>6. CASE /\ out[r] \in Answers /\ Reply(r, "NOT_AVAILABLE", out[r].rev)
           /\ cache' = [cache EXCEPT ![k] = Entry(out[r])]
  <2>1. PICK n \in 0..MaxRev : n = out[r].rev
    BY <1>6 DEF Answers
  <2>2. cache'[k].rev = n /\ cache' \in [Keys -> Entries \cup {None}]
        /\ \A l \in Keys : l # k => cache'[l] = cache[l]
    BY <1>6, <2>1, EntryOf DEF TypeOK
  <2>3. Flows
    <3>1. \A l \in Keys : api[l].rev <= api'[l].rev
      BY <1>1, FootballDataAssumption DEF TypeOK, Answers, apiVars
    <3>2. QED
      BY <1>1, <1>2, <1>3, <1>6, <2>1, <2>2, <3>1, Nobody
      DEF Flows, Carried, TaskStays, taskVars
  <2>4. KnownFrom(k, n)'
    <3>1. n <= api'[k].rev
      BY <1>1, <1>2, <1>6, <2>1 DEF OutcomesInOrder, apiVars
    <3>2. \A c \in Callers : key'[c] = k /\ out'[c] \in Answers => n <= out'[c].rev
      BY <1>1, <1>2, <1>3, <1>6, <2>1, Nobody DEF Carried, OutcomesInOrder
    <3>3. reply' \in Answers /\ key'[current'] = k => n <= reply'.rev
      BY <1>1, <1>2, <1>3, <1>6, <2>1, Nobody DEF TaskStays, taskVars, OutcomesInOrder
    <3>4. QED  BY <2>1, <2>2, <3>1, <3>2, <3>3 DEF KnownFrom
  <2>5. \A l \in Keys : cache'[l] # None =>
            \/ cache[l] # None /\ cache'[l].rev = cache[l].rev
            \/ KnownFrom(l, cache[l].rev)'
    BY <2>2, <2>4 DEF KnownFrom
  <2>6. CacheInv'
    <3>1. Reply(r, "NOT_AVAILABLE", n) /\ "NOT_AVAILABLE" \in Statuses /\ step[r] # "idle"
      BY <1>1, <1>6, <2>1 DEF Statuses
    <3>2. UNCHANGED <<apiVars, taskVars>>
      BY <1>1
    <3>3. QED
      BY ONLY CacheInv, <1>2, <1>3, <2>2, <2>3, <2>4, <2>5, <3>1, <3>2, AnsweringKeeps
  <2>7. QED  BY <2>3, <2>6
<1>7. QED  BY <1>2, <1>4, <1>5, <1>6 DEF Answer, Statuses
-----------------------------------------------------------------------------
(* The theorems.                                                           *)

LEMMA InitCacheInv == Init => CacheInv
<1> SUFFICES ASSUME Init PROVE CacheInv
  OBVIOUS
<1> USE DEF Init
<1>1. IInv
  BY InitIInv
<1>2. TypeOK
  <2>1. api \in [Keys -> Answers] /\ \A k \in Keys : api[k].rev = 0
    BY FootballDataAssumption DEF Answers
  <2>2. 0 \in 0..MaxRev
    BY FootballDataAssumption
  <2>3. QED  BY <1>1, <2>1, <2>2 DEF TypeOK, IInv
<1>3. /\ \A c \in Callers : out[c] = None /\ stage[c] = "idle"
      /\ \A k \in Keys : api[k].rev = 0
  BY DEF FetcherInit
<1>4. RequestRecords /\ TaskRecords /\ SnapshotsInOrder
  BY <1>3, Nobody DEF RequestRecords, TaskRecords, SnapshotsInOrder
<1>5. EntriesInOrder /\ OutcomesInOrder /\ ReplyInOrder
  BY <1>3, Nobody DEF EntriesInOrder, OutcomesInOrder, ReplyInOrder, KnownFrom
<1>6. QED  BY <1>1, <1>2, <1>4, <1>5 DEF CacheInv

LEMMA StepCacheInv == CacheInv /\ [Next]_vars => CacheInv' /\ Flows
<1> SUFFICES ASSUME CacheInv, [Next]_vars PROVE CacheInv' /\ Flows
  OBVIOUS
<1>1. CASE Task
  BY <1>1, ServeKeeps, StoreKeeps, FinishKeeps, LimitedKeeps, WakingKeeps DEF Task
<1>2. CASE Hang
  BY <1>2, HangKeeps
<1>3. ASSUME NEW r \in Requests,
             Resume(r) \/ ReadFails(r) \/ Answer(r) \/ \E k \in Keys : Lookup(r, k)
      PROVE  CacheInv' /\ Flows
  BY <1>3, LookupKeeps, ResumeKeeps, ReadFailsKeeps, AnswerKeeps
<1>4. CASE \E s \in Syncs, k \in Keys : Sync(s, k)
  BY <1>4, SyncKeeps
<1>5. CASE \E c \in Callers : Discard(c)
  BY <1>5, DiscardKeeps
<1>6. CASE \E k \in Keys : Publish(k) \/ GoStale(k) \/ Expire(k)
  BY <1>6, WorldKeeps
<1>7. CASE UNCHANGED vars
  <2>1. UNCHANGED <<fetcherVars, apiVars, taskVars, cache, requestVars>>
    BY <1>7 DEF vars
  <2>2. /\ UNCHANGED <<api, hung, reply, stored, step, want, snap, resp, delivered, floor>>
        /\ UNCHANGED <<stage, key, out, phase, current, cache>>
    BY <2>1 DEF apiVars, taskVars, requestVars, fetcherVars
  <2>3. IInv'
    BY <2>1, QueueUntouched DEF CacheInv
  <2>4. TypeOK' /\ RequestRecords' /\ TaskRecords'
    BY <2>2, <2>3
    DEF CacheInv, TypeOK, IInv, RequestRecords, TaskRecords, IsData, Quiescent
  <2>5. EntriesInOrder' /\ SnapshotsInOrder' /\ OutcomesInOrder' /\ ReplyInOrder'
    BY <2>2 DEF CacheInv, EntriesInOrder, SnapshotsInOrder, OutcomesInOrder, ReplyInOrder,
                KnownFrom, IsData
  <2>6. Flows
    BY <2>2, FootballDataAssumption DEF Flows, CacheInv, TypeOK, Answers
  <2>7. QED  BY <2>3, <2>4, <2>5, <2>6 DEF CacheInv
<1>8. QED  BY <1>1, <1>2, <1>3, <1>4, <1>5, <1>6, <1>7 DEF Next

\* The invariant is inductive.
THEOREM CacheInvariance == Spec => []CacheInv
BY InitCacheInv, StepCacheInv, PTL DEF Spec

\* Every variable keeps its type.
THEOREM CacheTypeCorrect == Spec => []TypeOK
BY CacheInvariance, PTL DEF CacheInv

\* The cache, the requests and the crons drive the queue in no other way than
\* FetcherSpec allows, so what is proved of it holds here as well: fetch shares
\* the flights, loses no call, and retries a task three times at most.
THEOREM DrivesTheQueue == Spec => FetcherSpec
<1>1. Init => FetcherInit
  BY DEF Init
<1>2. CacheInv /\ [Next]_vars => [FetcherNext]_fetcherVars
  <2> SUFFICES ASSUME CacheInv, [Next]_vars PROVE [FetcherNext]_fetcherVars
    OBVIOUS
  <2>1. /\ \A r \in Requests : r \in Callers
        /\ \A k \in Keys : k \in Callers
        /\ \A s \in Syncs : s \in Callers
    BY Nobody
  <2>2. CASE Task
    BY <2>2 DEF Task, Serve, Store, Finish, Limited, Retry, FetcherNext, TaskSettles,
                TaskHitsLimit
  <2>3. CASE Hang \/ \E k \in Keys : Publish(k) \/ GoStale(k) \/ Expire(k)
    BY <2>3 DEF Hang, Publish, GoStale, Expire
  <2>4. ASSUME NEW r \in Requests,
               ReadFails(r) \/ Answer(r) \/ \E k \in Keys : Lookup(r, k)
        PROVE  [FetcherNext]_fetcherVars
    BY <2>1, <2>4 DEF ReadFails, Answer, Lookup, FetcherNext
  <2>5. CASE (\E c \in Callers : Discard(c)) \/ (\E s \in Syncs, k \in Keys : Sync(s, k))
    BY <2>1, <2>5 DEF Discard, Sync, FetcherNext
  <2>6. ASSUME NEW r \in Requests, Resume(r)
        PROVE  [FetcherNext]_fetcherVars
    <3>1. want[r] \in Keys
      BY <2>6 DEF CacheInv, TypeOK, RequestRecords, Resume
    <3>2. QED  BY <2>1, <2>6, <3>1 DEF Resume, Refresh, FetcherNext
  <2>7. CASE UNCHANGED vars
    BY <2>7 DEF vars
  <2>8. QED  BY <2>2, <2>3, <2>4, <2>5, <2>6, <2>7 DEF Next
<1>3. QED  BY <1>1, <1>2, CacheInvariance, PTL DEF Spec, FetcherSpec

\* What a request does to its records: it waits on, or it is answered, from what
\* had been sent when it came up to what the API holds.
LEMMA RequestEffect ==
    ASSUME CacheInv, NEW r \in Requests, Resume(r) \/ ReadFails(r) \/ Answer(r)
    PROVE  /\ step[r] # "idle" /\ UNCHANGED apiVars
           /\ \/ /\ step' = [step EXCEPT ![r] = "fetching"]
                 /\ UNCHANGED <<want, snap, resp, delivered, floor>>
              \/ \E s \in Statuses, n \in 0..MaxRev \cup {None} :
                    /\ Reply(r, s, n)
                    /\ n # None => floor[r] <= n /\ n <= api[want[r]].rev
<1> USE DEF CacheInv
<1>1. step[r] # "idle" /\ UNCHANGED apiVars
  BY DEF Resume, ReadFails, Answer
<1>2. PICK k \in Keys : k = want[r]
  BY <1>1 DEF RequestRecords, TypeOK
<1>3. floor[r] \in Int /\ delivered[k] \in Int /\ floor[r] <= delivered[k]
  BY <1>1, <1>2, Nobody DEF TypeOK, SnapshotsInOrder
<1>4. ASSUME NEW n \in 0..MaxRev, n <= api[k].rev, floor[r] <= n, NEW s \in Statuses,
             Reply(r, s, n)
      PROVE  \E t \in Statuses, m \in 0..MaxRev \cup {None} :
                /\ Reply(r, t, m)
                /\ m # None => floor[r] <= m /\ m <= api[want[r]].rev
  BY <1>2, <1>4
<1>5. CASE Resume(r) /\ snap[r] = None
  BY <1>1, <1>5 DEF Resume
<1>6. CASE Resume(r) /\ snap[r] # None
  <2>1. PICK n \in 0..MaxRev : n = snap[r].rev
    BY <1>6 DEF TypeOK, Entries
  <2>2. floor[r] <= n /\ n <= api[k].rev
    BY <1>2, <1>6, <2>1, Nobody DEF SnapshotsInOrder, KnownFrom
  <2>3. PICK s \in Statuses : Reply(r, s, n)
    BY <1>6, <2>1 DEF Resume, Statuses
  <2>4. QED  BY <1>1, <1>4, <2>2, <2>3
<1>7. CASE \E s \in Statuses : Reply(r, s, None)
  BY <1>1, <1>7
<1>8. CASE Answer(r) /\ out[r] \in Answers /\ \E s \in Statuses : Reply(r, s, out[r].rev)
  <2>1. PICK n \in 0..MaxRev : n = out[r].rev
    BY <1>8 DEF Answers
  <2>2. key[r] = k /\ r \in Callers
    BY <1>2, <1>8, Nobody DEF Answer, RequestRecords
  <2>3. n <= api[k].rev /\ delivered[k] <= n
    BY <1>8, <2>1, <2>2 DEF OutcomesInOrder, EntriesInOrder, KnownFrom
  <2>4. floor[r] <= n
    BY <1>3, <2>3
  <2>5. QED  BY <1>1, <1>4, <1>8, <2>1, <2>3, <2>4
<1>9. QED
  BY <1>5, <1>6, <1>7, <1>8 DEF ReadFails, Answer, IsData, Statuses

\* No client is sent a revision older than one sent when its request came.
THEOREM NoAnswerGoesBack == Spec => []AnswersDoNotGoBack
<1>1. Init => AnswersDoNotGoBack
  BY DEF Init, AnswersDoNotGoBack
<1>2. CacheInv /\ AnswersDoNotGoBack /\ [Next]_vars => AnswersDoNotGoBack'
  <2> SUFFICES ASSUME CacheInv, AnswersDoNotGoBack, [Next]_vars
               PROVE  AnswersDoNotGoBack'
    OBVIOUS
  <2>1. CASE UNCHANGED <<resp, floor>>
    BY <2>1 DEF AnswersDoNotGoBack
  <2>2. ASSUME NEW r \in Requests, NEW k \in Keys, Lookup(r, k)
        PROVE  AnswersDoNotGoBack'
    BY <2>2 DEF Lookup, AnswersDoNotGoBack, CacheInv, TypeOK
  <2>3. ASSUME NEW r \in Requests, Resume(r) \/ ReadFails(r) \/ Answer(r)
        PROVE  AnswersDoNotGoBack'
    <3>1. PICK s \in Statuses, n \in 0..MaxRev \cup {None} :
            \/ UNCHANGED <<resp, floor>>
            \/ /\ floor' = floor /\ resp' = [resp EXCEPT ![r] = [status |-> s, rev |-> n]]
               /\ n # None => floor[r] <= n
      BY <2>3, RequestEffect DEF Reply, Statuses
    <3>2. QED  BY <2>1, <3>1 DEF AnswersDoNotGoBack, CacheInv, TypeOK
  <2>4. CASE Task \/ Hang \/ (\E k \in Keys : Publish(k) \/ GoStale(k) \/ Expire(k))
    BY <2>1, <2>4 DEF Task, Serve, Store, Finish, Limited, Retry, Hang, Publish, GoStale,
                      Expire, requestVars
  <2>5. CASE (\E c \in Callers : Discard(c)) \/ (\E s \in Syncs, k \in Keys : Sync(s, k))
    BY <2>1, <2>5 DEF Discard, Sync, requestVars
  <2>6. CASE UNCHANGED vars
    BY <2>1, <2>6 DEF vars, requestVars
  <2>7. QED  BY <2>2, <2>3, <2>4, <2>5, <2>6 DEF Next
<1>3. QED  BY <1>1, <1>2, CacheInvariance, PTL DEF Spec

\* An entry is never overwritten by an older one.
THEOREM NoEntryGoesBack == Spec => CacheDoesNotGoBack
<1>1. CacheInv /\ [Next]_vars =>
        [\A k \in Keys : cache[k] # None /\ cache'[k] # None
            => cache'[k].rev >= cache[k].rev]_vars
  <2> SUFFICES ASSUME CacheInv, [Next]_vars,
                      NEW k \in Keys, cache[k] # None, cache'[k] # None
               PROVE  cache'[k].rev >= cache[k].rev
    OBVIOUS
  <2>1. CacheInv' /\ Flows
    BY StepCacheInv
  <2>2. PICK n \in Int, m \in Int : n = cache[k].rev /\ m = cache'[k].rev
    BY <2>1 DEF CacheInv, TypeOK, Entries
  <2>3. KnownFrom(k, n)
    BY <2>2 DEF CacheInv, EntriesInOrder
  <2>4. KnownFrom(k, n)'
    BY <2>1, <2>3, KnownStays DEF CacheInv
  <2>5. QED  BY <2>2, <2>4 DEF KnownFrom
<1>2. QED  BY <1>1, CacheInvariance, PTL DEF Spec, CacheDoesNotGoBack
-----------------------------------------------------------------------------
(* FootballDataService implements ReadThrough, but for fairness, which is  *)
(* left to TLC.                                                            *)

Latest == [k \in Keys |-> api[k].rev]
Asking == [r \in Requests |-> IF step[r] = "idle" THEN None
                              ELSE [key |-> want[r], floor |-> floor[r]]]
Sent == [r \in Requests |-> IF resp[r] = None THEN None ELSE resp[r].rev]

LEMMA AskStep ==
    ASSUME CacheInv, NEW r \in Requests, NEW k \in Keys, Lookup(r, k)
    PROVE  Promised!Ask(r, k)
<1>1. /\ UNCHANGED <<api, hung, delivered>>
      /\ step[r] = "idle" /\ step' = [step EXCEPT ![r] = "reading"]
      /\ want' = [want EXCEPT ![r] = k]
      /\ resp' = [resp EXCEPT ![r] = None]
      /\ floor' = [floor EXCEPT ![r] = delivered[k]]
  BY DEF Lookup, apiVars
<1>2. Asking[r] = None
      /\ Asking' = [Asking EXCEPT ![r] = [key |-> k, floor |-> delivered[k]]]
  BY <1>1 DEF Asking, CacheInv, TypeOK
<1>3. Sent' = [Sent EXCEPT ![r] = None]
  BY <1>1 DEF Sent, CacheInv, TypeOK
<1>4. Latest' = Latest
  BY <1>1 DEF Latest
<1>5. QED  BY <1>1, <1>2, <1>3, <1>4 DEF Promised!Ask, Asking, Sent, Latest

LEMMA AnswerStep ==
    ASSUME CacheInv, NEW r \in Requests, step[r] # "idle", UNCHANGED apiVars,
           NEW s \in Statuses, NEW n \in 0..MaxRev \cup {None}, Reply(r, s, n),
           n # None => floor[r] <= n /\ n <= api[want[r]].rev
    PROVE  Promised!Deliver(r) \/ Promised!Refuse(r)
<1>1. PICK k \in Keys : k = want[r]
  BY DEF CacheInv, RequestRecords, TypeOK
<1>2. /\ step' = [step EXCEPT ![r] = "idle"]
      /\ want' = [want EXCEPT ![r] = None]
      /\ resp' = [resp EXCEPT ![r] = [status |-> s, rev |-> n]]
      /\ UNCHANGED <<floor, api, hung>> /\ resp[r] = None
      /\ [status |-> s, rev |-> n] \in Responses
  BY DEF Reply, apiVars, Responses, CacheInv, RequestRecords
<1>3. /\ Asking[r] = [key |-> k, floor |-> floor[r]]
      /\ Asking[r] # None
  <2>1. [key |-> k, floor |-> floor[r]] \in [key : Keys, floor : 0..MaxRev]
    BY DEF CacheInv, TypeOK
  <2>2. QED  BY <1>1, <2>1, FootballDataAssumption DEF Asking
<1>4. Asking' = [Asking EXCEPT ![r] = None]
  BY <1>2 DEF Asking, CacheInv, TypeOK
<1>5. Sent' = [Sent EXCEPT ![r] = n] /\ Sent[r] = None
  BY <1>2, FootballDataAssumption DEF Sent, CacheInv, TypeOK
<1>6. Latest' = Latest
  BY <1>2 DEF Latest
<1>7. CASE n = None
  <2>1. Sent' = Sent /\ delivered' = delivered
    BY <1>2, <1>5, <1>7 DEF Sent, Reply
  <2>2. QED
    BY <1>2, <1>3, <1>4, <1>6, <2>1 DEF Promised!Refuse, Asking, Sent, Latest
<1>8. CASE n # None
  <2>1. /\ n \in floor[r]..Latest[k] /\ n \in 0..MaxRev
    BY <1>1, <1>8, FootballDataAssumption DEF Latest, CacheInv, TypeOK, Answers
  <2>2. delivered' = [delivered EXCEPT ![k] = IF n > delivered[k] THEN n ELSE delivered[k]]
    <3>1. n \in Int /\ delivered[k] \in Int /\ delivered \in [Keys -> 0..MaxRev]
      BY <1>8, <2>1, FootballDataAssumption DEF CacheInv, TypeOK
    <3>2. CASE n < delivered[k]
      <4>1. delivered' = delivered /\ ~(n > delivered[k])
        BY <1>1, <3>1, <3>2 DEF Reply
      <4>2. QED  BY <3>1, <4>1
    <3>3. CASE ~(n < delivered[k])
      <4>1. delivered' = [delivered EXCEPT ![k] = n]
        BY <1>1, <1>8, <3>3 DEF Reply
      <4>2. n = IF n > delivered[k] THEN n ELSE delivered[k]
        BY <3>1, <3>3
      <4>3. QED  BY <4>1, <4>2
    <3>4. QED  BY <3>2, <3>3
  <2>3. Asking[r].key = k /\ Asking[r].floor = floor[r]
    BY <1>3
  <2>4. QED
    BY <1>2, <1>3, <1>4, <1>5, <1>6, <2>1, <2>2, <2>3
    DEF Promised!Deliver, Asking, Sent, Latest
<1>9. QED  BY <1>7, <1>8

LEMMA PublishStep ==
    ASSUME CacheInv, NEW k \in Keys, Publish(k)
    PROVE  Promised!Publish(k)
<1>1. Latest[k] < MaxRev
  BY DEF Publish, Latest
<1>2. Latest' = [Latest EXCEPT ![k] = Latest[k] + 1]
  <2>1. PICK f \in BOOLEAN : api' = [api EXCEPT ![k] = [rev |-> api[k].rev + 1, found |-> f]]
    BY DEF Publish
  <2>2. \A l \in Keys : Latest'[l] = IF l = k THEN Latest[k] + 1 ELSE Latest[l]
    BY <2>1 DEF Latest, CacheInv, TypeOK
  <2>3. Latest' = [l \in Keys |-> Latest'[l]] /\ DOMAIN Latest = Keys
    BY DEF Latest
  <2>4. QED  BY <2>2, <2>3
<1>3. UNCHANGED <<hung, delivered>> /\ Asking' = Asking /\ Sent' = Sent
  BY DEF Publish, requestVars, Asking, Sent
<1>4. QED  BY <1>1, <1>2, <1>3 DEF Promised!Publish, Asking, Sent, Latest

LEMMA SilentStep ==
    ASSUME UNCHANGED <<api, hung, step, want, resp, delivered, floor>>
    PROVE  UNCHANGED Promised!vars
BY DEF Promised!vars

\* Whatever the cache, the queue, Redis and the API do, the service answers as
\* ReadThrough promises: with a revision that football-data.org has had, and
\* none older than one that somebody had been sent.
THEOREM AnswersAsPromised == Spec => Promised!Safe
<1>1. Init => Promised!Init
  <2> SUFFICES ASSUME Init PROVE Promised!Init
    OBVIOUS
  <2>1. Latest = [k \in Keys |-> 0] /\ Asking = [r \in Requests |-> None]
        /\ Sent = [r \in Requests |-> None]
    BY DEF Init, Latest, Asking, Sent
  <2>2. QED  BY <2>1 DEF Init, Promised!Init, Latest, Asking, Sent
<1>2. CacheInv /\ [Next]_vars => [Promised!Next]_(Promised!vars)
  <2> SUFFICES ASSUME CacheInv, [Next]_vars
               PROVE  [Promised!Next]_(Promised!vars)
    OBVIOUS
  <2>1. CASE Task \/ (\E k \in Keys : GoStale(k) \/ Expire(k))
    BY <2>1, SilentStep DEF Task, Serve, Store, Finish, Limited, Retry, GoStale, Expire,
                            requestVars, apiVars
  <2>2. CASE Hang
    <3>1. ~hung /\ hung' = TRUE /\ delivered' = delivered
          /\ Latest' = Latest /\ Asking' = Asking /\ Sent' = Sent
      BY <2>2 DEF Hang, Latest, Asking, Sent, requestVars
    <3>2. QED  BY <3>1 DEF Promised!Next, Promised!Stall, Latest, Asking, Sent
  <2>3. ASSUME NEW r \in Requests, NEW k \in Keys, Lookup(r, k)
        PROVE  Promised!Next
    BY <2>3, AskStep DEF Promised!Next
  <2>4. ASSUME NEW r \in Requests, Resume(r) \/ ReadFails(r) \/ Answer(r)
        PROVE  [Promised!Next]_(Promised!vars)
    <3>1. CASE /\ step' = [step EXCEPT ![r] = "fetching"]
               /\ UNCHANGED <<want, snap, resp, delivered, floor>>
      <4>1. step[r] # "idle" /\ UNCHANGED apiVars
        BY <2>4, RequestEffect
      <4>2. Asking' = Asking /\ Latest' = Latest /\ Sent' = Sent
            /\ UNCHANGED <<hung, delivered>>
        BY <3>1, <4>1 DEF Asking, Latest, Sent, apiVars, CacheInv, TypeOK
      <4>3. QED  BY <4>2 DEF Promised!vars, Asking, Latest, Sent
    <3>2. CASE \E s \in Statuses, n \in 0..MaxRev \cup {None} :
                    /\ Reply(r, s, n)
                    /\ n # None => floor[r] <= n /\ n <= api[want[r]].rev
      BY <2>4, <3>2, RequestEffect, AnswerStep DEF Promised!Next
    <3>3. QED  BY <2>4, <3>1, <3>2, RequestEffect
  <2>5. CASE (\E c \in Callers : Discard(c)) \/ (\E s \in Syncs, k \in Keys : Sync(s, k))
    BY <2>5, SilentStep DEF Discard, Sync, requestVars, apiVars
  <2>6. ASSUME NEW k \in Keys, Publish(k)
        PROVE  Promised!Next
    BY <2>6, PublishStep DEF Promised!Next
  <2>7. CASE UNCHANGED vars
    BY <2>7, SilentStep DEF vars, requestVars, apiVars
  <2>8. QED  BY <2>1, <2>2, <2>3, <2>4, <2>5, <2>6, <2>7 DEF Next
<1>3. QED  BY <1>1, <1>2, CacheInvariance, PTL DEF Spec, Promised!Safe
===============================================================================
