-------------------------------- MODULE Health --------------------------------
(***************************************************************************)
(* AppService.checkHealth (app.service.ts, health.controller.ts): what the *)
(* probes of the kubelet, on every replica, ask.  A check queries the      *)
(* database, without a time limit, and sets and gets one key of the Redis  *)
(* that all replicas share, within three seconds.  Times are milliseconds. *)
(***************************************************************************)
EXTENDS Integers

Max(a, b) == IF a > b THEN a ELSE b
Min(a, b) == IF a < b THEN a ELSE b

CONSTANTS
    Checks,     \* requests to /health, on any replica
    Step        \* the clock advances by this many milliseconds

TestTTL == 1000
Timeout == 3000

ASSUME HealthAssumption == Step \in Nat \ {0} /\ Timeout % Step = 0

VARIABLES
    left,       \* how long the test key still lives, 0 if it is not there
    status,     \* status[c]: "none" before the first request, "checking",
                \* or the status it was answered with
    database,   \* database[c]: "asked", "up" or "down"
    redis,      \* redis[c]: the race: "open", "up", "missing", or "caught"
    command,    \* command[c]: the command to Redis that is under way, or "none"
    clock,      \* clock[c]: how long the race has been open
    gap         \* gap[c]: time since the set of c, up to TestTTL

healthVars == <<left, status, database, redis, command, clock, gap>>

HealthTypeOK ==
    /\ left \in 0..TestTTL
    /\ status \in [Checks -> {"none", "checking", "200", "503"}]
    /\ database \in [Checks -> {"asked", "up", "down"}]
    /\ redis \in [Checks -> {"open", "up", "missing", "caught"}]
    /\ command \in [Checks -> {"none", "set", "get"}]
    /\ clock \in [Checks -> 0..Timeout]
    /\ gap \in [Checks -> 0..TestTTL]

HealthInit ==
    /\ left = 0
    /\ status = [c \in Checks |-> "none"]
    /\ database = [c \in Checks |-> "asked"]
    /\ redis = [c \in Checks |-> "open"]
    /\ command = [c \in Checks |-> "none"]
    /\ clock = [c \in Checks |-> 0]
    /\ gap = [c \in Checks |-> 0]

\* checkHealth up to Promise.all; a command of an earlier check of that name
\* must have come back.
Start(c) ==
    /\ status[c] # "checking" /\ command[c] = "none"
    /\ status' = [status EXCEPT ![c] = "checking"]
    /\ database' = [database EXCEPT ![c] = "asked"]
    /\ redis' = [redis EXCEPT ![c] = "open"]
    /\ command' = [command EXCEPT ![c] = "set"]
    /\ clock' = [clock EXCEPT ![c] = 0]
    /\ UNCHANGED <<left, gap>>

\* SELECT 1 returns or fails.
DatabaseReplies(c) ==
    /\ status[c] = "checking" /\ database[c] = "asked"
    /\ \E s \in {"up", "down"} : database' = [database EXCEPT ![c] = s]
    /\ UNCHANGED <<left, status, redis, command, clock, gap>>

\* Promise.race: the first to settle decides.
Settle(c, s) == redis' = [redis EXCEPT ![c] = IF @ = "open" THEN s ELSE @]

\* Mutant: the TTL, 1000 milliseconds, is taken for seconds.
SetServedLong(c) ==
    /\ command[c] = "set"
    /\ left' = 1000 * TestTTL
    /\ gap' = [gap EXCEPT ![c] = 0]
    /\ command' = [command EXCEPT ![c] = "get"]
    /\ UNCHANGED <<status, database, redis, clock>>

\* Redis executes the set, and the get is sent even if the race is over.
SetServed(c) ==
    /\ command[c] = "set"
    /\ left' = TestTTL
    /\ gap' = [gap EXCEPT ![c] = 0]
    /\ command' = [command EXCEPT ![c] = "get"]
    /\ UNCHANGED <<status, database, redis, clock>>

\* Mutant: the check deletes its key when it has read it.
GetServedDeletes(c) ==
    /\ command[c] = "get"
    /\ command' = [command EXCEPT ![c] = "none"]
    /\ Settle(c, IF left > 0 THEN "up" ELSE "missing")
    /\ left' = 0
    /\ UNCHANGED <<status, database, clock, gap>>

\* Redis executes the get.
GetServed(c) ==
    /\ command[c] = "get"
    /\ command' = [command EXCEPT ![c] = "none"]
    /\ Settle(c, IF left > 0 THEN "up" ELSE "missing")
    /\ UNCHANGED <<left, status, database, clock, gap>>

\* A command is refused; nothing more is sent.
RedisFails(c) ==
    /\ command[c] # "none"
    /\ command' = [command EXCEPT ![c] = "none"]
    /\ Settle(c, "caught")
    /\ UNCHANGED <<left, status, database, clock, gap>>

\* Mutant: the race is tested for the time when the command has come back.
TimesOutLate(c) ==
    /\ status[c] = "checking" /\ redis[c] = "open"
    /\ clock[c] = Timeout /\ command[c] = "none"
    /\ Settle(c, "caught")
    /\ UNCHANGED <<left, status, database, command, clock, gap>>

\* The timer of the race.
TimesOut(c) ==
    /\ status[c] = "checking" /\ redis[c] = "open"
    /\ clock[c] = Timeout
    /\ Settle(c, "caught")
    /\ UNCHANGED <<left, status, database, command, clock, gap>>

IsHealthy(c) == database[c] = "up" /\ redis[c] = "up"

\* Both have settled: the controller answers.
Answer(c) ==
    /\ status[c] = "checking"
    /\ database[c] # "asked" /\ redis[c] # "open"
    /\ status' = [status EXCEPT ![c] = IF IsHealthy(c) THEN "200" ELSE "503"]
    /\ UNCHANGED <<left, database, redis, command, clock, gap>>

\* Time passes, up to the next timer.
Advance ==
    /\ \A c \in Checks : status[c] = "checking" /\ redis[c] = "open" => clock[c] < Timeout
    /\ left' = Max(0, left - Step)
    /\ clock' = [c \in Checks |-> IF status[c] = "checking" /\ redis[c] = "open"
                                  THEN clock[c] + Step ELSE clock[c]]
    /\ gap' = [c \in Checks |-> Min(TestTTL, gap[c] + Step)]
    /\ UNCHANGED <<status, database, redis, command>>

\* Redis evicts the key or restarts; to the checks it is as if its time were up.
EvictTestKey ==
    /\ left > 0
    /\ left' = 0
    /\ gap' = [c \in Checks |-> TestTTL]
    /\ UNCHANGED <<status, database, redis, command, clock>>

HealthNext ==
    \/ \E c \in Checks :
            \/ Start(c) \/ DatabaseReplies(c) \/ SetServed(c) \/ GetServed(c)
            \/ RedisFails(c) \/ TimesOut(c) \/ Answer(c)
    \/ Advance
    \/ EvictTestKey

\* Time passes, timers fire and the database replies.  Redis need not.
HealthFairness ==
    /\ WF_healthVars(Advance)
    /\ \A c \in Checks : /\ WF_healthVars(DatabaseReplies(c))
                         /\ WF_healthVars(TimesOut(c))
                         /\ WF_healthVars(Answer(c))

HealthSpec == HealthInit /\ [][HealthNext]_healthVars
HealthFairSpec == HealthSpec /\ HealthFairness
-----------------------------------------------------------------------------
\* A check finds its key missing only if a whole TTL has passed between its own
\* set and its get: the checks of the other replica, or overlapping ones, never
\* make it fail (redisHealthCheck, one key for all).
ChecksDoNotDisturb == \A c \in Checks : redis[c] = "missing" => gap[c] >= TestTTL

\* A check is answered even if Redis never replies, as long as the database
\* does (checkRedis' limit, Promise.all).
CheckEnds == \A c \in Checks : status[c] = "checking" ~> status[c] # "checking"
=============================================================================
