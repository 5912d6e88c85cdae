-------------------------------- MODULE Warmup --------------------------------
(***************************************************************************)
(* MatchDay together with SyncService.syncTodayMatches                     *)
(* (football-data/sync.service.ts), which fetches the matches of the local *)
(* date every quarter of an hour, while requests fetch them when they like. *)
(***************************************************************************)
EXTENDS MatchDay

CONSTANTS
    Offset      \* minutes by which the local time of the server is ahead of UTC

Period == 15

\* The clock does not step over a run of the cron.
ASSUME WarmupAssumption == Offset \in Int /\ Step \in {1, 3, 5, Period}

\* What is longer than this is not told apart.
MaxMissing == 60

VARIABLES
    due,        \* the schedule has fired and the method has yet to run
    missing,    \* minutes for which there has been no entry
    failed      \* whether a fetch has failed since the last that did not

warmVars == <<vars, due, missing, failed>>

WarmTypeOK ==
    /\ TypeOK
    /\ due \in BOOLEAN
    /\ missing \in 0..MaxMissing
    /\ failed \in BOOLEAN

WarmInit == Init /\ due = TRUE /\ missing = 0 /\ failed = FALSE

\* Mutant: an hour east of Greenwich.
LocalDateEast(t) == (t + Offset + 60) \div Day

\* formatDate(new Date()).
LocalDate(t) == (t + Offset) \div Day

\* '*/15 * * * *'
IsDue(t) == t % Period = 0

\* syncTodayMatches; the fetch joins a task that is under way.
Sync ==
    /\ due
    /\ due' = FALSE
    /\ \/ LocalDate(now) = Date /\ Start
       \/ (LocalDate(now) # Date \/ task # None) /\ UNCHANGED vars
    /\ UNCHANGED <<missing, failed>>

\* A request for the date.
Request == Start /\ UNCHANGED <<due, missing, failed>>

Stored == Complete /\ missing' = 0 /\ failed' = FALSE /\ UNCHANGED due

Rejected == Fail /\ failed' = TRUE /\ UNCHANGED <<due, missing>>

Pass ==
    /\ ~due
    /\ Tick
    /\ due' = IsDue(now')
    /\ missing' = IF entry # None THEN 0
                  ELSE IF missing + Step > MaxMissing THEN MaxMissing ELSE missing + Step
    /\ UNCHANGED failed

WarmNext == Sync \/ Request \/ Stored \/ Rejected \/ Pass
WarmSpec == WarmInit /\ [][WarmNext]_warmVars
-----------------------------------------------------------------------------
\* From the first run of the cron on its day until midnight (UTC), the entry of
\* today's matches is missing for no longer than the TTL falls short of the
\* period and a reply takes, unless a fetch fails: the local date and that of
\* getMatchesCacheConfig agree (syncTodayMatches; the container runs in UTC).
TodayIsWarm ==
    ~failed /\ Date * Day + MaxDelay < now /\ now < (Date + 1) * Day
        => missing <= Period - MATCHES_TODAY.ttl + MaxDelay
=============================================================================
