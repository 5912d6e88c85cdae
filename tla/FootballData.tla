----------------------------- MODULE FootballData -----------------------------
(***************************************************************************)
(* FootballDataService (football-data/football-data.service.ts): the cache *)
(* in front of the football-data.org API.  A request reads the cache, is   *)
(* answered from it (asking for a refresh behind its back when the entry is *)
(* stale) or waits for a fetch; the crons of SyncService fetch as well.    *)
(* All the fetching goes through Fetcher.                                  *)
(*                                                                         *)
(* The API holds for each key a revision of the data, or the fact that it  *)
(* has none (400 or 404); every change of either is a new revision.  Time  *)
(* is not counted: an entry is stale, or gone, at any moment, so whatever  *)
(* the thresholds of CACHE_CONFIG are, the behaviours are among these.     *)
(***************************************************************************)
EXTENDS Fetcher

CONSTANTS
    Requests,       \* HTTP requests to this service, each for one key
    Syncs,          \* cron jobs
    MaxRev,         \* bound on the revisions of the API
    Failed,         \* the task rejects: 5xx, network or Redis error
    RedisMayFail,   \* whether commands to Redis may fail
    ApiMayHang      \* whether the API may accept a request and never reply

Answers == [rev : 0..MaxRev, found : BOOLEAN]
Entries == [rev : 0..MaxRev, found : BOOLEAN, stale : BOOLEAN]
Statuses == {"FRESH", "STALE", "PROCESSING", "NOT_AVAILABLE", "ERROR"}
Responses == [status : Statuses, rev : 0..MaxRev \cup {None}]

\* A fire-and-forget refresh of k calls fetch under the name k: there is one
\* at a time.
ASSUME FootballDataAssumption ==
    /\ Callers = Requests \cup Keys \cup Syncs
    /\ Requests \cap Keys = {} /\ Requests \cap Syncs = {} /\ Keys \cap Syncs = {}
    /\ MaxRev \in Nat
    /\ Results = Answers \cup {Failed}
    /\ Failed \notin Answers /\ RateLimited \notin Results
    /\ RedisMayFail \in BOOLEAN /\ ApiMayHang \in BOOLEAN
    /\ None \notin 0..MaxRev \cup Entries \cup Responses \cup [key : Keys, floor : 0..MaxRev]

VARIABLES
    api,            \* api[k]: what football-data.org answers for k
    hung,           \* whether the API has left a request without a reply
    reply,          \* how the HTTP request of the task ended, if it has
    stored,         \* whether the task has put its reply into the cache
    cache,          \* cache[k]: the entry Redis holds, or None
    step,           \* step[r]: "idle", "reading" the cache, "fetching"
    want,           \* want[r]: the key r asks for
    snap,           \* snap[r]: what r read from the cache
    resp,           \* resp[r]: the answer to the last request r
    delivered,      \* delivered[k]: the latest revision of k sent to a client
    floor           \* floor[r]: delivered for want[r] when r read the cache

taskVars == <<reply, stored>>
requestVars == <<step, want, snap, resp, delivered, floor>>
apiVars == <<api, hung>>
vars == <<fetcherVars, apiVars, taskVars, cache, requestVars>>

TypeOK ==
    /\ FetcherTypeOK
    /\ api \in [Keys -> Answers]
    /\ hung \in BOOLEAN
    /\ reply \in Outcomes \cup {None}
    /\ stored \in BOOLEAN
    /\ cache \in [Keys -> Entries \cup {None}]
    /\ step \in [Requests -> {"idle", "reading", "fetching"}]
    /\ want \in [Requests -> Keys \cup {None}]
    /\ snap \in [Requests -> Entries \cup {None}]
    /\ resp \in [Requests -> Responses \cup {None}]
    /\ delivered \in [Keys -> 0..MaxRev]
    /\ floor \in [Requests -> 0..MaxRev]

Init ==
    /\ FetcherInit
    /\ api \in [Keys -> [rev : {0}, found : BOOLEAN]]
    /\ hung = FALSE
    /\ reply = None
    /\ stored = FALSE
    /\ cache = [k \in Keys |-> None]
    /\ step = [r \in Requests |-> "idle"]
    /\ want = [r \in Requests |-> None]
    /\ snap = [r \in Requests |-> None]
    /\ resp = [r \in Requests |-> None]
    /\ delivered = [k \in Keys |-> 0]
    /\ floor = [r \in Requests |-> 0]

\* Mutant: the bare answer is cached, without a timestamp.
EntryBare(answer) == answer

\* What is cached: the answer, or that there is none, and its timestamp.
Entry(answer) == [rev |-> answer.rev, found |-> answer.found, stale |-> FALSE]

\* The reply of an HTTP request, and a timer, come as an event of their own:
\* the continuations of the promises settled before have all run by then.
Quiescent == \A c \in Callers : stage[c] # "settled"
-----------------------------------------------------------------------------
(* The task, doFetchAndCache, in the hands of Fetcher's worker.            *)

\* football-data.org answers, or fails to; the reply is on its way.
Serve ==
    /\ phase = "task"
    /\ reply = None /\ ~hung
    /\ reply' \in {api[key[current]], RateLimited, Failed}
    /\ UNCHANGED <<fetcherVars, apiVars, stored, cache, requestVars>>

\* The reply never comes: get has no time limit.
Hang ==
    /\ ApiMayHang
    /\ phase = "task"
    /\ reply = None /\ ~hung
    /\ hung' = TRUE
    /\ UNCHANGED <<fetcherVars, api, taskVars, cache, requestVars>>

IsData(o) == o \in Answers /\ o.found

\* Mutant: an error of cacheManager.set is swallowed.
StoreSwallowing ==
    /\ IsData(reply) /\ ~stored /\ Quiescent
    /\ \/ cache' = [cache EXCEPT ![key[current]] = Entry(reply)]
       \/ RedisMayFail /\ UNCHANGED cache
    /\ stored' = TRUE
    /\ UNCHANGED <<fetcherVars, apiVars, reply, requestVars>>

\* Mutant: the reply of a later request overtakes a caller that still has to
\* act on an earlier one.
StoreOvertaking ==
    /\ IsData(reply) /\ ~stored
    /\ cache' = [cache EXCEPT ![key[current]] = Entry(reply)]
    /\ stored' = TRUE
    /\ UNCHANGED <<fetcherVars, apiVars, reply, requestVars>>

\* The task has data: cacheManager.set, which it awaits.
Store ==
    /\ IsData(reply) /\ ~stored /\ Quiescent
    /\ \/ /\ cache' = [cache EXCEPT ![key[current]] = Entry(reply)]
          /\ stored' = TRUE
          /\ UNCHANGED reply
       \/ /\ RedisMayFail
          /\ reply' = Failed
          /\ UNCHANGED <<cache, stored>>
    /\ UNCHANGED <<fetcherVars, apiVars, requestVars>>

\* The task resolves with the data it has stored, or rejects.
Finish ==
    /\ reply \in Results
    /\ IsData(reply) => stored
    /\ stored \/ Quiescent
    /\ Settle(reply)
    /\ reply' = None
    /\ stored' = FALSE
    /\ UNCHANGED <<apiVars, cache, requestVars>>

\* The task rejects with 429.
Limited(hint) ==
    /\ reply = RateLimited
    /\ Quiescent
    /\ TaskLimited(hint)
    /\ reply' = None
    /\ UNCHANGED <<apiVars, stored, cache, requestVars>>

Retry == Wake /\ UNCHANGED <<apiVars, taskVars, cache, requestVars>>
-----------------------------------------------------------------------------
(* Requests: getData and fetchInline.                                      *)

Reply(r, status, rev) ==
    /\ step' = [step EXCEPT ![r] = "idle"]
    /\ want' = [want EXCEPT ![r] = None]
    /\ snap' = [snap EXCEPT ![r] = None]
    /\ resp' = [resp EXCEPT ![r] = [status |-> status, rev |-> rev]]
    /\ delivered' = IF rev = None \/ rev < delivered[want[r]] THEN delivered
                    ELSE [delivered EXCEPT ![want[r]] = rev]
    /\ UNCHANGED floor

\* getData up to its first await, Redis serving the read.
Lookup(r, k) ==
    /\ step[r] = "idle"
    /\ step' = [step EXCEPT ![r] = "reading"]
    /\ want' = [want EXCEPT ![r] = k]
    /\ snap' = [snap EXCEPT ![r] = cache[k]]
    /\ resp' = [resp EXCEPT ![r] = None]
    /\ floor' = [floor EXCEPT ![r] = delivered[k]]
    /\ UNCHANGED <<fetcherVars, apiVars, taskVars, cache, delivered>>

\* Mutant: the answer waits until the refresh can begin.
RefreshAwaited(k) ==
    /\ inFlight[k] = None
    /\ Fetch(k, k)

\* triggerBackgroundRefresh.
Refresh(k) ==
    \/ inFlight[k] # None /\ UNCHANGED fetcherVars
    \/ inFlight[k] = None /\ Fetch(k, k)

\* The rest of getData.  The age is taken now, not when Redis was read.
Resume(r) ==
    LET k == want[r]  entry == snap[r] IN
    /\ step[r] = "reading"
    /\ UNCHANGED <<apiVars, taskVars, cache>>
    /\ \/ /\ entry # None
          /\ ~entry.found
          /\ Reply(r, "NOT_AVAILABLE", entry.rev)
          /\ UNCHANGED fetcherVars
       \/ /\ entry # None
          /\ entry.found
          /\ Refresh(k)
          /\ Reply(r, "STALE", entry.rev)
       \/ /\ entry # None
          /\ entry.found /\ ~entry.stale
          /\ Reply(r, "FRESH", entry.rev)
          /\ UNCHANGED fetcherVars
       \/ /\ entry = None
          /\ Fetch(r, k)
          /\ step' = [step EXCEPT ![r] = "fetching"]
          /\ UNCHANGED <<want, snap, resp, delivered, floor>>

\* The read fails, and getData with it.
ReadFails(r) ==
    /\ RedisMayFail
    /\ step[r] = "reading"
    /\ Reply(r, "ERROR", None)
    /\ UNCHANGED <<fetcherVars, apiVars, taskVars, cache>>

\* fetchInline after its await; a 400 or 404 is cached by every caller.
Answer(r) ==
    LET o == out[r] IN
    /\ step[r] = "fetching"
    /\ Return(r)
    /\ UNCHANGED <<apiVars, taskVars>>
    /\ \/ /\ IsData(o)
          /\ Reply(r, "FRESH", o.rev)
          /\ UNCHANGED cache
       \/ /\ o \in Answers /\ ~o.found
          /\ cache' = [cache EXCEPT ![want[r]] = Entry(o)]
          /\ Reply(r, "NOT_AVAILABLE", o.rev)
       \/ /\ o \in Answers /\ ~o.found
          /\ RedisMayFail
          /\ Reply(r, "ERROR", None)
          /\ UNCHANGED cache
       \/ /\ o \in {Failed, RateLimited}
          /\ Reply(r, "PROCESSING", None)
          /\ UNCHANGED cache
-----------------------------------------------------------------------------
(* Everybody else.                                                         *)

\* fetchAndCache, called by a cron of SyncService, and its return.
Sync(s, k) == Fetch(s, k) /\ UNCHANGED <<apiVars, taskVars, cache, requestVars>>

\* A cron logs how the fetch ended, a background refresh drops it.
Discard(c) ==
    /\ c \in Syncs \cup Keys
    /\ Return(c)
    /\ UNCHANGED <<apiVars, taskVars, cache, requestVars>>

\* football-data.org publishes a new revision, or drops the resource.
Publish(k) ==
    /\ api[k].rev < MaxRev
    /\ \E f \in BOOLEAN :
            api' = [api EXCEPT ![k] = [rev |-> @.rev + 1, found |-> f]]
    /\ UNCHANGED <<fetcherVars, hung, taskVars, cache, requestVars>>

GoStale(k) ==
    /\ cache[k] # None
    /\ ~cache[k].stale
    /\ cache' = [cache EXCEPT ![k].stale = TRUE]
    /\ UNCHANGED <<fetcherVars, apiVars, taskVars, requestVars>>

\* The TTL passes, or Redis evicts the entry or restarts empty.
Expire(k) ==
    /\ cache[k] # None
    /\ cache' = [cache EXCEPT ![k] = None]
    /\ UNCHANGED <<fetcherVars, apiVars, taskVars, requestVars>>

Task == Serve \/ Store \/ Finish \/ (\E h \in WaitHints : Limited(h)) \/ Retry

Next ==
    \/ Task \/ Hang
    \/ \E r \in Requests, k \in Keys : Lookup(r, k)
    \/ \E r \in Requests : Resume(r) \/ ReadFails(r) \/ Answer(r)
    \/ \E s \in Syncs, k \in Keys : Sync(s, k)
    \/ \E c \in Callers : Discard(c)
    \/ \E k \in Keys : Publish(k) \/ GoStale(k) \/ Expire(k)

\* The API, unless it hangs, and Redis answer in the end, timers fire and
\* continuations run.
Fairness ==
    /\ WF_vars(Task)
    /\ \A r \in Requests : WF_vars(Resume(r)) /\ WF_vars(Answer(r))
    /\ \A c \in Callers : WF_vars(Discard(c))

Spec == Init /\ [][Next]_vars
FairSpec == Spec /\ Fairness
-----------------------------------------------------------------------------
(* Properties.                                                             *)

\* No client is sent a revision of a key older than one that some client had
\* been sent when its own request read the cache: not through an entry read
\* long ago, nor a flight joined late, nor a 404 (getData, fetchInline).
AnswersDoNotGoBack ==
    \A r \in Requests :
        resp[r] # None /\ resp[r].rev # None => resp[r].rev >= floor[r]

\* An entry is never overwritten by an older one, though the task, and every
\* caller that gets a 400 or 404, write to the cache on their own.
CacheDoesNotGoBack ==
    [][\A k \in Keys : cache[k] # None /\ cache'[k] # None
            => cache'[k].rev >= cache[k].rev]_vars

\* r holds a stale entry of k that it has read, and no reply that is newer has
\* been handled yet.
ReadsStale(r, k) ==
    /\ step[r] = "reading" /\ want[r] = k
    /\ snap[r] # None /\ snap[r].found /\ snap[r].stale
    /\ ~stored /\ Quiescent

\* The entry of k has been replaced or is gone, or fetching k has failed.
Refreshed(k) ==
    \/ cache[k] = None \/ ~cache[k].stale
    \/ reply # None /\ ~IsData(reply) /\ key[current] = k

\* "isRefreshing: true" keeps its word: a stale entry that was read is replaced
\* in the end, by this request's refresh or by the flight it found, unless
\* fetching it fails or hangs or Redis fails before the request is answered
\* (getData).
StaleIsRefreshed ==
    \A r \in Requests, k \in Keys :
        ReadsStale(r, k) ~>
            Refreshed(k) \/ hung \/ (resp[r] # None /\ resp[r].status = "ERROR")

\* An API that hangs, and the only worker with it, stops those requests alone
\* that find nothing in the cache (getData does not await the refresh).
CachedRequestsDoNotWait ==
    \A r \in Requests :
        step[r] = "reading" /\ snap[r] # None ~> step[r] = "idle"

\* The service as its clients see it.
Promised == INSTANCE ReadThrough WITH
    stalled <- hung,
    latest <- [k \in Keys |-> api[k].rev],
    asking <- [r \in Requests |-> IF step[r] = "idle" THEN None
                                  ELSE [key |-> want[r], floor |-> floor[r]]],
    answer <- [r \in Requests |-> IF resp[r] = None THEN None ELSE resp[r].rev]

\* FootballDataService implements ReadThrough, its fairness included: every
\* request is answered, whatever it waits for and whatever fails, unless the
\* API hangs, and never with older data than somebody has been sent.
ImplementsReadThrough == Promised!Spec
=============================================================================
