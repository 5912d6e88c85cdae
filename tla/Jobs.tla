--------------------------------- MODULE Jobs ---------------------------------
(***************************************************************************)
(* The jobs of football-data.types.ts: from a job to its key, its path at  *)
(* football-data.org, the part of the reply that is kept, and how long it  *)
(* is fresh and kept.  Fetcher and the cache tell jobs apart by the key    *)
(* alone.  Keys and paths are sequences of the parts that the templates    *)
(* put together; an id or a date holds no separator.                       *)
(***************************************************************************)
EXTENDS Integers, Sequences

CONSTANTS
    Ids,        \* ids of competitions, teams and matches
    Dates,
    None

ASSUME JobsAssumption == None \notin Ids \cup Dates /\ "all" \notin Dates

VARIABLES
    job,        \* the job that was fetched last
    other,      \* the one before it
    startedIn,  \* the era of the date of job in which its task started
    readIn      \* and that in which its entry is read, by the same clock
jobVars == <<job, other, startedIn, readIn>>

CompetitionTypes ==
    {"competition", "competition-matches", "competition-standings", "competition-scorers"}
MatchTypes == {"match", "head2head"}
TeamTypes == {"team", "team-matches"}

\* FootballJobData, as the getters of FootballDataService and SyncService make it.
JobSet ==
    [type : CompetitionTypes \cup MatchTypes \cup TeamTypes, arg : Ids]
        \cup [type : {"matches"}, arg : Dates \cup {None}]
        \cup [type : {"available-competitions"}, arg : {None}]

Types == {j.type : j \in JobSet}

\* Mutant: the prefix does not say whose matches they are.
PrefixShort(t) == IF t \in {"competition-matches", "team-matches"} THEN <<"matches">> ELSE <<t>>

\* The literal part of a key.
Prefix(t) ==
    CASE t = "competition-matches" -> <<"competition", "matches">>
      [] t = "competition-standings" -> <<"standings">>
      [] t = "competition-scorers" -> <<"scorers">>
      [] t = "team-matches" -> <<"team", "matches">>
      [] t = "available-competitions" -> <<"available", "competitions">>
      [] OTHER -> <<t>>

CacheKey(j) ==
    Prefix(j.type) \o (IF j.arg # None THEN <<j.arg>>
                      ELSE IF j.type = "matches" THEN <<"all">> ELSE <<>>)

Collection(t) ==
    IF t \in CompetitionTypes \cup {"available-competitions"} THEN "competitions"
    ELSE IF t \in TeamTypes THEN "teams" ELSE "matches"

\* What follows the id in the path; a date is followed by the next one.
Below(t) ==
    CASE t \in {"competition-matches", "team-matches"} -> <<"matches">>
      [] t = "competition-standings" -> <<"standings">>
      [] t = "competition-scorers" -> <<"scorers">>
      [] t = "head2head" -> <<"head2head">>
      [] t = "matches" -> <<"dateTo">>
      [] OTHER -> <<>>

Path(j) ==
    <<Collection(j.type)>> \o (IF j.arg = None THEN <<>> ELSE <<j.arg>> \o Below(j.type))

\* The part of the reply that is kept.
Extract(t) ==
    CASE t \in {"competition-matches", "team-matches", "matches"} -> "matches"
      [] t = "available-competitions" -> "competitions"
      [] t = "competition-scorers" -> "scorers"
      [] OTHER -> "all"

\* CACHE_CONFIG, in minutes.
CONFIG ==
    [COMPETITION |-> [stale |-> 720, ttl |-> 1440],
     COMPETITIONS_LIST |-> [stale |-> 720, ttl |-> 1440],
     COMPETITION_MATCHES |-> [stale |-> 15, ttl |-> 30],
     COMPETITION_SCORERS |-> [stale |-> 360, ttl |-> 720],
     MATCHES_TODAY |-> [stale |-> 2, ttl |-> 10],
     MATCHES_PAST |-> [stale |-> 720, ttl |-> 1440],
     MATCHES_FUTURE |-> [stale |-> 360, ttl |-> 720],
     MATCH |-> [stale |-> 5, ttl |-> 15],
     HEAD2HEAD |-> [stale |-> 360, ttl |-> 720],
     STANDINGS |-> [stale |-> 30, ttl |-> 60],
     TEAM |-> [stale |-> 720, ttl |-> 1440],
     TEAM_MATCHES |-> [stale |-> 15, ttl |-> 30]]

\* A date is ahead, then on or its results are not final, then over; when one
\* era ends and the next begins is MatchDay's.
Eras == 1..3
Over == 3

\* getMatchesCacheConfig(date) of a moment in the era of the date, or of no date.
MatchesRow(date, era) ==
    IF date = None THEN "MATCHES_TODAY"
    ELSE <<"MATCHES_FUTURE", "MATCHES_TODAY", "MATCHES_PAST">>[era]

\* The row whose stale the getter of FootballDataService passes to getData, for
\* matches that of the moment of the request.
StaleRow(j, era) ==
    CASE j.type = "competition" -> "COMPETITION"
      [] j.type = "available-competitions" -> "COMPETITIONS_LIST"
      [] j.type = "competition-matches" -> "COMPETITION_MATCHES"
      [] j.type = "competition-scorers" -> "COMPETITION_SCORERS"
      [] j.type = "competition-standings" -> "STANDINGS"
      [] j.type = "matches" -> MatchesRow(j.arg, era)
      [] j.type = "match" -> "MATCH"
      [] j.type = "head2head" -> "HEAD2HEAD"
      [] j.type = "team" -> "TEAM"
      [] j.type = "team-matches" -> "TEAM_MATCHES"

\* Mutant: getMatchesCacheConfig is called without the date.
TtlRowUndated(j, era) == StaleRow([j EXCEPT !.arg = None], era)

\* The row whose ttl getPathAndTtl gives to Redis, for matches that of the moment
\* at which the task starts.
TtlRow(j, era) ==
    CASE j.type = "competition" -> "COMPETITION"
      [] j.type = "available-competitions" -> "COMPETITIONS_LIST"
      [] j.type = "competition-matches" -> "COMPETITION_MATCHES"
      [] j.type = "competition-scorers" -> "COMPETITION_SCORERS"
      [] j.type = "competition-standings" -> "STANDINGS"
      [] j.type = "matches" -> MatchesRow(j.arg, era)
      [] j.type = "match" -> "MATCH"
      [] j.type = "head2head" -> "HEAD2HEAD"
      [] j.type = "team" -> "TEAM"
      [] j.type = "team-matches" -> "TEAM_MATCHES"

FirstJob == [type |-> "available-competitions", arg |-> None]

JobInit == job = FirstJob /\ other = FirstJob /\ startedIn = 1 /\ readIn = 1

Fetch ==
    /\ job' \in JobSet /\ other' = job
    /\ startedIn' \in Eras /\ readIn' \in startedIn'..Over
JobNext == Fetch
JobSpec == JobInit /\ [][JobNext]_jobVars
-----------------------------------------------------------------------------
\* The key is all that Fetcher and the cache know of a job: two jobs have one
\* key exactly when they ask the API for the same, and then keep the same part
\* of the reply (getJobId, getPathAndTtl, extractResponseData).
KeysNameRequests ==
    /\ CacheKey(job) = CacheKey(other) <=> Path(job) = Path(other)
    /\ CacheKey(job) = CacheKey(other) => Extract(job.type) = Extract(other.type)

\* An entry is stale for a while before Redis drops it, so that a request can be
\* answered while it is refreshed: the threshold of the getter and the TTL of the
\* task, which are looked up apart and at two moments, go together.  Only the
\* matches of a date that has become over in between are excepted: they keep
\* the short TTL, and are fresh until they vanish.
StaleBeforeGone ==
    \/ CONFIG[StaleRow(job, readIn)].stale < CONFIG[TtlRow(job, startedIn)].ttl
    \/ job.type = "matches" /\ job.arg # None /\ startedIn < readIn /\ readIn = Over
=============================================================================
