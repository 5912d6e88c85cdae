--------------------------------- MODULE Peers ---------------------------------
(***************************************************************************)
(* The replicas of the service (k8s/deployment.yaml) over one Redis: each  *)
(* has a Fetcher of its own, so that their writes to the one entry of a key *)
(* come in any order, and each compares the timestamps of the entry with a *)
(* clock of its own.  One key; within a replica it has one flight at most, *)
(* as Fetcher promises.                                                    *)
(*                                                                         *)
(* Times are ages, in ticks: an entry or a reply is as old as its data, the *)
(* time since football-data.org sent them.                                 *)
(***************************************************************************)
EXTENDS Integers

CONSTANTS
    Replicas,
    Ahead,          \* Ahead[p]: how far the clock of p is ahead of the true time
    Skew,           \* bound on the difference of two clocks
    Stale, TTL,     \* the thresholds of the key in CACHE_CONFIG
    MaxDelay,       \* bound on the way of a reply from the API into the cache
    Nothing

ASSUME PeersAssumption ==
    /\ Ahead \in [Replicas -> Nat]
    /\ Skew \in Nat
    /\ \A p, q \in Replicas : Ahead[p] - Ahead[q] <= Skew
    /\ Stale \in Nat /\ TTL \in Nat /\ MaxDelay \in Nat /\ Stale < TTL
    /\ Nothing \notin Int

VARIABLES
    flight,         \* flight[p]: whether the key is in flight at p
    reply,          \* reply[p]: the data on their way to p, or Nothing
    entry           \* the entry in Redis, with its writer and its timestamp

peersVars == <<flight, reply, entry>>

Data == [age : 0..(MaxDelay + TTL), found : BOOLEAN]

PeersTypeOK ==
    /\ flight \in [Replicas -> BOOLEAN]
    /\ reply \in [Replicas -> Data \cup {Nothing}]
    /\ entry \in [data : Data, stamped : 0..(TTL - 1), by : Replicas] \cup {Nothing}

PeersInit ==
    /\ flight = [p \in Replicas |-> FALSE]
    /\ reply = [p \in Replicas |-> Nothing]
    /\ entry = Nothing

\* The age of the entry by the clock of p, in the test of getData.
IsStale(p) == entry.stamped + Ahead[p] - Ahead[entry.by] > Stale

\* A request at p that misses or finds a stale entry, or a cron of p.
Ask(p, isCron) ==
    /\ ~flight[p]
    /\ isCron \/ IF entry = Nothing THEN TRUE ELSE entry.data.found /\ IsStale(p)
    /\ flight' = [flight EXCEPT ![p] = TRUE]
    /\ UNCHANGED <<reply, entry>>

\* football-data.org sends what it has, or 400 or 404.
Serve(p) ==
    /\ flight[p] /\ reply[p] = Nothing
    /\ \E f \in BOOLEAN : reply' = [reply EXCEPT ![p] = [age |-> 0, found |-> f]]
    /\ UNCHANGED <<flight, entry>>

Land(p) ==
    /\ flight' = [flight EXCEPT ![p] = FALSE]
    /\ reply' = [reply EXCEPT ![p] = Nothing]

\* Mutant: a refresh that fails renews the timestamp of what there is.
FailRenewing(p) ==
    /\ flight[p]
    /\ Land(p)
    /\ entry' = IF entry = Nothing THEN Nothing ELSE [entry EXCEPT !.stamped = 0, !.by = p]

\* The task rejects, or the replica dies and starts again; or the data are not
\* found and nobody in fetchInline is waiting for them.
Fail(p) ==
    /\ flight[p]
    /\ Land(p)
    /\ UNCHANGED entry

\* cacheManager.set, in doFetchAndCache or, for a 400 or 404, in fetchInline.
Store(p) ==
    /\ reply[p] # Nothing
    /\ Land(p)
    /\ entry' = [data |-> reply[p], stamped |-> 0, by |-> p]

\* Redis evicts the entry or restarts.
Evict == entry # Nothing /\ entry' = Nothing /\ UNCHANGED <<flight, reply>>

\* The entry one tick later; Redis drops it at the end of its TTL.
Aged == IF entry.stamped + 1 >= TTL THEN Nothing
        ELSE [entry EXCEPT !.data.age = @ + 1, !.stamped = @ + 1]

Tick ==
    /\ \A p \in Replicas : reply[p] # Nothing => reply[p].age < MaxDelay
    /\ reply' = [p \in Replicas |-> IF reply[p] = Nothing THEN Nothing
                                    ELSE [reply[p] EXCEPT !.age = @ + 1]]
    /\ entry' = IF entry = Nothing THEN Nothing ELSE Aged
    /\ UNCHANGED flight

PeersNext ==
    \/ \E p \in Replicas : (\E b \in BOOLEAN : Ask(p, b)) \/ Serve(p) \/ Fail(p) \/ Store(p)
    \/ Evict
    \/ Tick

PeersSpec == PeersInit /\ [][PeersNext]_peersVars
-----------------------------------------------------------------------------
\* What any replica answers as FRESH was sent by the API no longer ago than the
\* threshold, the delay of a reply and the skew of the clocks allow, though an
\* older reply may overwrite a newer one (getData, doFetchAndCache).
FreshMeansFresh ==
    \A p \in Replicas : entry # Nothing /\ entry.data.found /\ ~IsStale(p)
        => entry.data.age <= Stale + Skew + MaxDelay

\* Whatever the replicas do, a failing API does not keep old data, or the word
\* that there are none, alive: nothing is served that is older than the TTL
\* and the delay of a reply.
NothingOutlivesItsTTL == entry # Nothing => entry.data.age < TTL + MaxDelay
=============================================================================
