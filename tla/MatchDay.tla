------------------------------- MODULE MatchDay -------------------------------
(***************************************************************************)
(* The cache entry for the matches of one date, as the clock moves from the *)
(* days before it to the days after it (football-data.types.ts): how long   *)
(* an entry lives is decided when its task starts, how old it may be when   *)
(* it is read, and getMatchesCacheConfig changes its mind at midnight and   *)
(* at 3 AM.  Times are minutes (UTC).  When the actions are taken, and by   *)
(* whom, is Warmup's.                                                      *)
(***************************************************************************)
EXTENDS Integers

CONSTANTS
    Step,       \* the clock advances by this many minutes
    LastDay,    \* the clock stops at the end of this day
    Date,       \* the day whose matches the entry holds
    MaxDelay,   \* bound on the minutes between a task's start and its reply
    None

Minutes(h) == 60 * h
Day == Minutes(24)

ASSUME MatchDayAssumption ==
    /\ Step \in Nat \ {0} /\ Date \in Nat /\ LastDay \in Nat /\ MaxDelay \in Nat
    /\ None \notin [asked : Nat, ttl : Nat] \cup [asked : Nat, at : Nat, ttl : Nat]

\* CACHE_CONFIG.
MATCHES_TODAY == [stale |-> 2, ttl |-> 10]
MATCHES_PAST == [stale |-> Minutes(12), ttl |-> Minutes(24)]
MATCHES_FUTURE == [stale |-> Minutes(6), ttl |-> Minutes(12)]

\* Mutant: yesterday is over at midnight.
MidnightConfig(date, now) ==
    IF date < now \div Day THEN MATCHES_PAST
    ELSE IF date > now \div Day THEN MATCHES_FUTURE ELSE MATCHES_TODAY

\* getMatchesCacheConfig(date) called at the time now.
MatchesCacheConfig(date, now) ==
    LET today == now \div Day
        hour == (now % Day) \div 60
    IN  IF hour < 3 /\ date = today - 1 THEN MATCHES_TODAY
        ELSE IF date < today THEN MATCHES_PAST
        ELSE IF date > today THEN MATCHES_FUTURE
        ELSE MATCHES_TODAY

VARIABLES
    now,        \* the time
    task,       \* the task under way: when it started and the TTL it chose
    entry       \* the entry: when its task started, its timestamp, its TTL

vars == <<now, task, entry>>

TypeOK ==
    /\ now \in 0..((LastDay + 1) * Day)
    /\ task \in [asked : Nat, ttl : Nat] \cup {None}
    /\ entry \in [asked : Nat, at : Nat, ttl : Nat] \cup {None}

Init == now = 0 /\ task = None /\ entry = None

\* Mutant: the TTL is what is left of the date.
StartUntilMidnight ==
    /\ task = None
    /\ task' = [asked |-> now, ttl |-> (Date + 1) * Day - now]
    /\ UNCHANGED <<now, entry>>

\* doFetchAndCache: getPathAndTtl, then the HTTP request.
Start ==
    /\ task = None
    /\ task' = [asked |-> now, ttl |-> MatchesCacheConfig(Date, now).ttl]
    /\ UNCHANGED <<now, entry>>

\* The reply: the timestamp is taken and the entry set.
Complete ==
    /\ task # None
    /\ entry' = [asked |-> task.asked, at |-> now, ttl |-> task.ttl]
    /\ task' = None
    /\ UNCHANGED now

Fail == task # None /\ task' = None /\ UNCHANGED <<now, entry>>

Alive(e, t) == t - e.at < e.ttl

\* Time passes; Redis drops the entry at the end of its TTL.
Tick ==
    /\ now + Step <= (LastDay + 1) * Day
    /\ task # None => now + Step <= task.asked + MaxDelay
    /\ now' = now + Step
    /\ entry' = IF entry # None /\ Alive(entry, now') THEN entry ELSE None
    /\ UNCHANGED task

\* How getData would answer a request for the date now.
IsServed == entry # None

\* Mutant: the threshold is that of the moment of the fetch.
StaleSinceFetch(t) == t - entry.at > MatchesCacheConfig(Date, entry.asked).stale

\* And whether as stale, if it is read at the time t.
StaleAt(t) == t - entry.at > MatchesCacheConfig(Date, t).stale
-----------------------------------------------------------------------------
\* The matches of the date are over three hours after it ("results
\* finalized"): what was asked for before does not survive as a final result.
Final == (Date + 1) * Day + Minutes(3)

ResultsAreFinal ==
    IsServed /\ now > Final + MATCHES_TODAY.ttl + MaxDelay => entry.asked >= Final

\* Fixtures, asked for before the date began, are stale as soon as it has, and
\* gone by noon even if no refresh succeeds ("fixtures rarely change").
FixturesGiveWay ==
    IsServed /\ entry.asked < Date * Day
             /\ Date * Day + MaxDelay + MATCHES_TODAY.stale < now /\ now < Final
        => StaleAt(now) /\ now < Date * Day + MaxDelay + MATCHES_FUTURE.ttl

\* The TTL is of one moment and the threshold of a later one: an entry is stale
\* in its last minute, so that a request can be answered while it is refreshed,
\* or has lived through the moment at which the results became final.  Then it
\* keeps the TTL of a live score, is fresh again, and vanishes as it is (getData,
\* getPathAndTtl).
GoesStaleFirst ==
    IsServed => \/ StaleAt(entry.at + entry.ttl - 1)
                \/ entry.asked < Final /\ Final < entry.at + entry.ttl
=============================================================================
