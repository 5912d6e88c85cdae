----------------------------- MODULE WarmupProofs -----------------------------
(***************************************************************************)
(* Theorems about MatchDay and Warmup, for every date, every bound on the  *)
(* delay of a reply, and every clock that meets the runs of the cron.      *)
(***************************************************************************)
EXTENDS Warmup, TLAPS

\* The first minute of the date.
Midnight == Date * Day

\* The configurations that getMatchesCacheConfig chooses among, in their order:
\* the date is ahead, it is on or its results are not final, it is over.
LEMMA ConfigOf ==
    ASSUME NEW t \in Nat
    PROVE  /\ t < Midnight => MatchesCacheConfig(Date, t) = MATCHES_FUTURE
           /\ Midnight <= t /\ t < Final => MatchesCacheConfig(Date, t) = MATCHES_TODAY
           /\ Final <= t => MatchesCacheConfig(Date, t) = MATCHES_PAST
<1> DEFINE today == t \div Day
           hour == (t % Day) \div 60
<1>1. today \in Nat /\ hour \in Nat /\ Date \in Nat
      /\ today * 1440 <= t /\ t < today * 1440 + 1440
      /\ (hour < 3 <=> t - today * 1440 < 180)
  BY MatchDayAssumption DEF Day, Minutes
<1>2. CASE t < Midnight
  <2>1. today < Date
    BY <1>1, <1>2 DEF Midnight, Day, Minutes
  <2>2. ~(hour < 3 /\ Date = today - 1) /\ ~(Date < today) /\ Date > today
    BY <1>1, <2>1
  <2>3. QED  BY <1>1, <1>2, <2>2 DEF MatchesCacheConfig, Midnight, Final, Day, Minutes
<1>3. CASE Midnight <= t /\ t < Final
  <2>1. Date = today \/ (hour < 3 /\ Date = today - 1)
    BY <1>1, <1>3 DEF Midnight, Final, Day, Minutes
  <2>2. Midnight <= t /\ t < Final /\ MatchesCacheConfig(Date, t) = MATCHES_TODAY
    BY <1>1, <1>3, <2>1 DEF MatchesCacheConfig
  <2>3. QED  BY <1>1, <2>2 DEF Midnight, Final, Day, Minutes
<1>4. CASE Final <= t
  <2>1. Date < today /\ ~(hour < 3 /\ Date = today - 1)
    BY <1>1, <1>4 DEF Final, Day, Minutes
  <2>2. QED  BY <1>1, <1>4, <2>1 DEF MatchesCacheConfig, Midnight, Final, Day, Minutes
<1>5. QED  BY <1>1, <1>2, <1>3, <1>4 DEF Midnight, Final, Day, Minutes

\* The TTLs of the three.
TtlOf(t) == MatchesCacheConfig(Date, t).ttl

LEMMA TtlsOf ==
    ASSUME NEW t \in Nat
    PROVE  /\ TtlOf(t) \in Nat /\ TtlOf(t) >= 10
           /\ t < Midnight => TtlOf(t) = 720
           /\ Midnight <= t /\ t < Final => TtlOf(t) = 10
           /\ Final <= t => TtlOf(t) = 1440
<1>1. Midnight \in Int /\ Final \in Int
  BY MatchDayAssumption DEF Midnight, Final, Day, Minutes
<1>2. MatchesCacheConfig(Date, t) \in {MATCHES_FUTURE, MATCHES_TODAY, MATCHES_PAST}
  BY <1>1, ConfigOf
<1>3. MATCHES_FUTURE.ttl = 720 /\ MATCHES_TODAY.ttl = 10 /\ MATCHES_PAST.ttl = 1440
  BY DEF MATCHES_FUTURE, MATCHES_TODAY, MATCHES_PAST, Minutes
<1>4. QED  BY <1>2, <1>3, ConfigOf DEF TtlOf

\* A task replies in time and keeps the TTL that it chose when it started; so
\* does the entry, which is there only as long as its TTL.
TaskInTime ==
    task # None => /\ task.asked <= now /\ now <= task.asked + MaxDelay
                   /\ task.ttl = TtlOf(task.asked)

EntryInTime ==
    entry # None => /\ entry.asked <= entry.at /\ entry.at <= entry.asked + MaxDelay
                    /\ entry.at <= now /\ Alive(entry, now)
                    /\ entry.ttl = TtlOf(entry.asked)

DayInv == WarmTypeOK /\ TaskInTime /\ EntryInTime

\* The values of the variables, and the constants.
LEMMA Numbers ==
    ASSUME DayInv
    PROVE  /\ now \in Nat /\ missing \in 0..60 /\ Step \in {1, 3, 5, 15}
           /\ MaxDelay \in Nat /\ Date \in Nat /\ Midnight = Date * 1440
           /\ task # None => task.asked \in Nat /\ task.ttl \in Nat
           /\ entry # None => entry.asked \in Nat /\ entry.at \in Nat /\ entry.ttl \in Nat
BY MatchDayAssumption, WarmupAssumption
DEF DayInv, WarmTypeOK, TypeOK, MaxMissing, Midnight, Day, Minutes, Period

\* Starting a task.
LEMMA StartKeeps ==
    ASSUME DayInv, Start, due' \in BOOLEAN, UNCHANGED <<missing, failed>>
    PROVE  DayInv' /\ task' # None /\ task'.asked = now
<1>1. now \in Nat /\ TtlOf(now) \in Nat /\ MaxDelay \in Nat
  BY Numbers, TtlsOf
<1>2. task' = [asked |-> now, ttl |-> TtlOf(now)] /\ UNCHANGED <<now, entry>>
  BY DEF Start, TtlOf
<1>3. task' \in [asked : Nat, ttl : Nat] /\ task' # None
  BY <1>1, <1>2, MatchDayAssumption
<1>4. task'.asked = now /\ task'.ttl = TtlOf(now)
  BY <1>2
<1>5. WarmTypeOK'
  BY <1>2, <1>3 DEF DayInv, WarmTypeOK, TypeOK
<1>6. TaskInTime' /\ EntryInTime'
  BY <1>1, <1>2, <1>4 DEF DayInv, TaskInTime, EntryInTime, TtlOf, Alive
<1>7. QED  BY <1>3, <1>4, <1>5, <1>6 DEF DayInv

LEMMA StoredKeeps ==
    ASSUME DayInv, Stored
    PROVE  DayInv' /\ entry' # None /\ entry'.at = now
<1>1. /\ task # None /\ task' = None /\ now' = now /\ missing' = 0 /\ failed' = FALSE
      /\ due' = due
      /\ entry' = [asked |-> task.asked, at |-> now, ttl |-> task.ttl]
  BY DEF Stored, Complete
<1>2. now \in Nat /\ task.asked \in Nat /\ task.ttl \in Nat /\ MaxDelay \in Nat
  BY <1>1, Numbers
<1>3. task.asked <= now /\ now <= task.asked + MaxDelay /\ task.ttl = TtlOf(task.asked)
  BY <1>1 DEF DayInv, TaskInTime
<1>4. task.ttl >= 10
  BY <1>2, <1>3, TtlsOf
<1>5. entry' \in [asked : Nat, at : Nat, ttl : Nat] /\ entry' # None
  BY <1>1, <1>2, MatchDayAssumption
<1>6. entry'.asked = task.asked /\ entry'.at = now /\ entry'.ttl = task.ttl
  BY <1>1
<1>7. WarmTypeOK'
  <2>1. now' \in 0..((LastDay + 1) * Day) /\ due' \in BOOLEAN
    BY <1>1 DEF DayInv, WarmTypeOK, TypeOK
  <2>2. 0 \in 0..MaxMissing
    BY DEF MaxMissing
  <2>3. TypeOK'
    BY <1>1, <1>5, <2>1 DEF TypeOK
  <2>4. QED  BY <1>1, <2>1, <2>2, <2>3 DEF WarmTypeOK
<1>8. TaskInTime' /\ EntryInTime'
  BY <1>1, <1>2, <1>3, <1>4, <1>6 DEF TaskInTime, EntryInTime, TtlOf, Alive
<1>9. QED  BY <1>5, <1>6, <1>7, <1>8 DEF DayInv

LEMMA PassKeeps ==
    ASSUME DayInv, Pass
    PROVE  /\ DayInv' /\ now' = now + Step /\ task' = task /\ failed' = failed
           /\ due' = ((now + Step) % 15 = 0)
           /\ entry' = entry \/ entry' = None
           /\ entry # None /\ entry' = None => now + Step - entry.at >= entry.ttl
           /\ missing' <= IF entry # None THEN 0 ELSE missing + Step
<1>1. /\ now' = now + Step /\ now + Step <= (LastDay + 1) * Day
      /\ task # None => now + Step <= task.asked + MaxDelay
      /\ entry' = IF entry # None /\ Alive(entry, now') THEN entry ELSE None
      /\ task' = task /\ failed' = failed
      /\ due' = (now' % 15 = 0)
      /\ missing' = IF entry # None THEN 0
                    ELSE IF missing + Step > 60 THEN 60 ELSE missing + Step
  BY DEF Pass, Tick, IsDue, Period, MaxMissing
<1>2. /\ now \in Nat /\ missing \in 0..60 /\ Step \in {1, 3, 5, 15}
      /\ task # None => task.asked \in Nat
      /\ entry # None => entry.asked \in Nat /\ entry.at \in Nat /\ entry.ttl \in Nat
  BY Numbers
<1>3. /\ now' \in 0..((LastDay + 1) * Day) /\ now <= now'
      /\ missing' \in 0..60 /\ missing' <= IF entry # None THEN 0 ELSE missing + Step
  BY <1>1, <1>2, MatchDayAssumption DEF Day, Minutes
<1>4. WarmTypeOK'
  BY <1>1, <1>3 DEF DayInv, WarmTypeOK, TypeOK, MaxMissing
<1>5. TaskInTime' /\ EntryInTime'
  BY <1>1, <1>2, <1>3 DEF DayInv, TaskInTime, EntryInTime, TtlOf
<1>6. entry # None /\ entry' = None => now + Step - entry.at >= entry.ttl
  BY <1>1, <1>2 DEF Alive
<1>7. QED  BY <1>1, <1>3, <1>4, <1>5, <1>6 DEF DayInv

LEMMA InitDayInv == WarmInit => DayInv
<1> SUFFICES ASSUME WarmInit PROVE DayInv
  OBVIOUS
<1>1. 0 \in 0..((LastDay + 1) * Day)
  BY MatchDayAssumption DEF Day, Minutes
<1>2. now = 0 /\ task = None /\ entry = None /\ due = TRUE /\ missing = 0 /\ failed = FALSE
  BY DEF WarmInit, Init
<1>3. TypeOK
  BY <1>1, <1>2 DEF TypeOK
<1>4. 0 \in 0..MaxMissing
  BY DEF MaxMissing
<1>5. WarmTypeOK
  BY <1>2, <1>3, <1>4 DEF WarmTypeOK
<1>6. QED  BY <1>2, <1>5 DEF DayInv, TaskInTime, EntryInTime

LEMMA StepDayInv == DayInv /\ [WarmNext]_warmVars => DayInv'
<1> SUFFICES ASSUME DayInv, [WarmNext]_warmVars PROVE DayInv'
  OBVIOUS
<1>1. CASE Start /\ due' \in BOOLEAN /\ UNCHANGED <<missing, failed>>
  BY <1>1, StartKeeps
<1>2. CASE Stored
  BY <1>2, StoredKeeps
<1>3. CASE Pass
  BY <1>3, PassKeeps
<1>4. CASE UNCHANGED <<now, entry, missing>> /\ task' \in {task, None} /\ due' \in BOOLEAN
           /\ failed' \in BOOLEAN
  BY <1>4 DEF DayInv, WarmTypeOK, TypeOK, TaskInTime, EntryInTime, TtlOf, Alive
<1>5. CASE UNCHANGED warmVars
  BY <1>4, <1>5 DEF warmVars, vars, DayInv, WarmTypeOK
<1>6. due \in BOOLEAN /\ failed \in BOOLEAN
  BY DEF DayInv, WarmTypeOK
<1>7. QED
  BY <1>1, <1>2, <1>3, <1>4, <1>5, <1>6
  DEF WarmNext, Sync, Request, Rejected, Fail, vars

\* A task replies within the bound, and the entry outlives neither its TTL nor
\* the choice of it: the inductive invariant behind the theorems on the date.
THEOREM DayInvariance == WarmSpec => []DayInv
BY InitDayInv, StepDayInv, PTL DEF WarmSpec
-----------------------------------------------------------------------------
\* Every variable of MatchDay and of SyncService keeps its type.
THEOREM DayTypeCorrect == WarmSpec => []WarmTypeOK
<1>1. DayInv => WarmTypeOK
  BY DEF DayInv
<1>2. QED  BY <1>1, DayInvariance, PTL

\* Once the results of the date are final and the last task that began before
\* is over, what is served was asked for when they were final.
THEOREM ResultsGetFinal == WarmSpec => []ResultsAreFinal
<1>1. DayInv => ResultsAreFinal
  <2> SUFFICES ASSUME DayInv, entry # None, now > Final + MATCHES_TODAY.ttl + MaxDelay,
                      entry.asked < Final
               PROVE  FALSE
    BY Numbers DEF ResultsAreFinal, IsServed, Final, Day, Minutes
  <2>1. /\ now \in Nat /\ MaxDelay \in Nat /\ Midnight \in Nat /\ Final = Midnight + 1620
        /\ entry.asked \in Nat /\ entry.at \in Nat /\ entry.ttl \in Nat
    BY Numbers DEF Final, Midnight, Day, Minutes
  <2>2. now > Final + 10 + MaxDelay
    BY DEF MATCHES_TODAY
  <2>3. entry.at <= entry.asked + MaxDelay /\ now - entry.at < entry.ttl
        /\ entry.ttl = TtlOf(entry.asked)
    BY DEF DayInv, EntryInTime, Alive
  <2>4. \/ entry.asked < Midnight /\ entry.ttl = 720
        \/ entry.ttl = 10
    BY <2>1, <2>3, TtlsOf
  <2>5. QED  BY <2>1, <2>2, <2>3, <2>4
<1>2. QED  BY <1>1, DayInvariance, PTL

\* Fixtures that were asked for before the date began are stale soon after it
\* has, and gone by noon.
THEOREM FixturesAreReplaced == WarmSpec => []FixturesGiveWay
<1>1. DayInv => FixturesGiveWay
  <2> SUFFICES ASSUME DayInv, entry # None, entry.asked < Date * Day,
                      Date * Day + MaxDelay + MATCHES_TODAY.stale < now, now < Final
               PROVE  StaleAt(now) /\ now < Date * Day + MaxDelay + MATCHES_FUTURE.ttl
    BY DEF FixturesGiveWay, IsServed
  <2>1. /\ now \in Nat /\ MaxDelay \in Nat /\ Midnight \in Nat /\ Date * Day = Midnight
        /\ entry.asked \in Nat /\ entry.at \in Nat /\ entry.ttl \in Nat
    BY Numbers DEF Midnight, Day, Minutes
  <2>2. MATCHES_TODAY.stale = 2 /\ MATCHES_FUTURE.ttl = 720
    BY DEF MATCHES_TODAY, MATCHES_FUTURE, Minutes
  <2>3. entry.at <= entry.asked + MaxDelay /\ now - entry.at < entry.ttl
        /\ entry.ttl = TtlOf(entry.asked)
    BY DEF DayInv, EntryInTime, Alive
  <2>4. entry.ttl = 720
    BY <2>1, <2>3, TtlsOf
  <2>5. Midnight <= now /\ MatchesCacheConfig(Date, now) = MATCHES_TODAY
    BY <2>1, <2>2, ConfigOf
  <2>6. now - entry.at > 2
    BY <2>1, <2>2, <2>3
  <2>7. QED  BY <2>1, <2>2, <2>3, <2>4, <2>5, <2>6 DEF StaleAt
<1>2. QED  BY <1>1, DayInvariance, PTL

\* An entry is stale in its last minute, however late its reply came and wherever
\* midnight falls in between, unless its results became final while it lived.
THEOREM StaleFirst == WarmSpec => []GoesStaleFirst
<1>1. DayInv => GoesStaleFirst
  <2> DEFINE end == entry.at + entry.ttl - 1
             threshold == MatchesCacheConfig(Date, end).stale
  <2> SUFFICES ASSUME DayInv, entry # None, ~(entry.asked < Final /\ Final < entry.at + entry.ttl)
               PROVE  end - entry.at > threshold
    BY DEF GoesStaleFirst, IsServed, StaleAt
  <2>1. /\ entry.asked \in Nat /\ entry.at \in Nat /\ entry.asked <= entry.at
        /\ entry.ttl = TtlOf(entry.asked) /\ entry.ttl \in Nat /\ entry.ttl >= 10
        /\ Midnight \in Nat /\ Final = Midnight + 1620
    BY Numbers, TtlsOf DEF DayInv, EntryInTime, Final, Midnight, Day, Minutes
  <2>2. end \in Nat /\ entry.asked <= end /\ end - entry.at = entry.ttl - 1
    BY <2>1
  <2>3. /\ MATCHES_FUTURE.stale = 360 /\ MATCHES_TODAY.stale = 2 /\ MATCHES_PAST.stale = 720
    BY DEF MATCHES_FUTURE, MATCHES_TODAY, MATCHES_PAST, Minutes
  <2>4. /\ end < Midnight => threshold = 360
        /\ Midnight <= end /\ end < Final => threshold = 2
        /\ Final <= end => threshold = 720
    BY <2>2, <2>3, ConfigOf
  <2>5. CASE Final <= entry.asked
    <3>1. entry.ttl = 1440 /\ Final <= end
      BY <2>1, <2>2, <2>5, TtlsOf
    <3>2. QED  BY <2>2, <2>4, <3>1
  <2>6. CASE entry.asked < Final
    <3>1. end < Final
      BY <2>1, <2>2, <2>6
    <3>2. CASE Midnight <= end
      BY <2>1, <2>2, <2>4, <3>1, <3>2
    <3>3. CASE end < Midnight
      <4>1. entry.ttl = 720
        BY <2>1, <2>2, <3>3, TtlsOf
      <4>2. QED  BY <2>2, <2>4, <3>3, <4>1
    <3>4. QED  BY <2>1, <2>2, <3>2, <3>3
  <2>7. QED  BY <2>1, <2>5, <2>6
<1>2. QED  BY <1>1, DayInvariance, PTL
-----------------------------------------------------------------------------
(***************************************************************************)
(* How the cron keeps the entry of today's matches, with the server on UTC *)
(***************************************************************************)
\* The last run of the cron that is due.
LastRun == now - (now % Period)

OnTheDay == ~failed /\ Midnight <= now /\ now < Midnight + Day

\* A task that began on the day found an entry that was missing for no longer
\* than the TTL falls short of the period; between two tasks there has been an
\* entry since the last run of the cron, ten minutes less counted.
WarmInv ==
    /\ now % Step = 0
    /\ due => now % Period = 0
    /\ entry # None => missing = 0
    /\ OnTheDay =>
        /\ task # None => task.asked <= Midnight \/ missing <= 5 + now - task.asked
        /\ task = None /\ ~due => \/ entry # None /\ entry.at >= LastRun
                                  \/ entry = None /\ missing <= now - LastRun - 10
        /\ task = None /\ due => now = Midnight \/ missing <= 5

LEMMA InitWarmInv == Offset = 0 /\ WarmInit => WarmInv
<1> SUFFICES ASSUME WarmInit PROVE WarmInv
  OBVIOUS
<1>1. now = 0 /\ task = None /\ entry = None /\ due = TRUE /\ missing = 0
  BY DEF WarmInit, Init
<1>2. 0 % Step = 0 /\ 0 % Period = 0
  BY WarmupAssumption DEF Period
<1>3. Midnight <= now => now = Midnight
  BY <1>1, MatchDayAssumption DEF Midnight, Day, Minutes
<1>4. QED  BY <1>1, <1>2, <1>3 DEF WarmInv, OnTheDay

\* What the clock does to the run of the cron.
LEMMA Quarters ==
    ASSUME NEW t \in Nat, Step \in {1, 3, 5, 15}, t % Step = 0
    PROVE  /\ (t + Step) % Step = 0
           /\ (t + Step) % 15 = 0 => t + Step = t - (t % 15) + 15
           /\ (t + Step) % 15 # 0 => t + Step - ((t + Step) % 15) = t - (t % 15)
<1>1. CASE Step = 1  BY <1>1
<1>2. CASE Step = 3  BY <1>2
<1>3. CASE Step = 5  BY <1>3
<1>4. CASE Step = 15  BY <1>4
<1>5. QED  BY <1>1, <1>2, <1>3, <1>4

\* The clock does not step over midnight, when the cron runs too.
LEMMA Midnights ==
    ASSUME NEW t \in Nat, NEW d \in Nat, Step \in {1, 3, 5, 15}, t % Step = 0,
           t < d * 1440, d * 1440 <= t + Step
    PROVE  t + Step = d * 1440 /\ (t + Step) % 15 = 0
<1>1. CASE Step = 1  BY <1>1
<1>2. CASE Step = 3  BY <1>2
<1>3. CASE Step = 5  BY <1>3
<1>4. CASE Step = 15  BY <1>4
<1>5. QED  BY <1>1, <1>2, <1>3, <1>4

LEMMA StepWarmInv ==
    Offset = 0 /\ DayInv /\ WarmInv /\ [WarmNext]_warmVars => WarmInv'
<1> SUFFICES ASSUME Offset = 0, DayInv, WarmInv, [WarmNext]_warmVars PROVE WarmInv'
  OBVIOUS
<1>1. /\ now \in Nat /\ missing \in 0..60 /\ Step \in {1, 3, 5, 15}
      /\ Midnight \in Nat /\ Midnight = Date * 1440 /\ Period = 15 /\ Day = 1440
      /\ task # None => task.asked \in Nat /\ task.asked <= now
  BY Numbers, MatchDayAssumption DEF DayInv, TaskInTime, Period, Day, Minutes
<1>2. due \in BOOLEAN /\ failed \in BOOLEAN
  BY DEF DayInv, WarmTypeOK
<1>3. LastRun \in Int /\ LastRun = now - (now % 15) /\ LastRun <= now /\ now < LastRun + 15
      /\ (now % 15 = 0 => LastRun = now)
  BY <1>1 DEF LastRun
<1>4. CASE Start /\ due' \in {due, FALSE} /\ UNCHANGED <<missing, failed>>
  <2>1. task' # None /\ task'.asked = now /\ task = None /\ now' = now /\ entry' = entry
    BY <1>2, <1>4, StartKeeps DEF Start
  <2>2. OnTheDay => now = Midnight \/ missing <= 5
    <3> SUFFICES ASSUME OnTheDay PROVE now = Midnight \/ missing <= 5
      OBVIOUS
    <3>1. CASE due
      BY <2>1, <3>1 DEF WarmInv
    <3>2. CASE ~due
      BY <1>1, <1>3, <2>1, <3>2 DEF WarmInv
    <3>3. QED  BY <3>1, <3>2
  <2>3. OnTheDay' => OnTheDay
    BY <1>4, <2>1 DEF OnTheDay, Midnight
  <2>4. OnTheDay' => now <= Midnight \/ missing <= 5 + now - now
    BY <1>1, <2>2, <2>3
  <2>5. now' % Step = 0 /\ (due' => now' % Period = 0) /\ (entry' # None => missing' = 0)
    <3>1. now % Step = 0 /\ (due => now % Period = 0) /\ (entry # None => missing = 0)
      BY DEF WarmInv
    <3>2. now' % Step = now % Step /\ now' % Period = now % Period /\ missing' = missing
      BY <1>4, <2>1
    <3>3. due' => due
      BY <1>2, <1>4
    <3>4. (entry' # None => missing' = 0) /\ now' % Step = 0
      BY <2>1, <3>1, <3>2
    <3>5. QED  BY <3>1, <3>2, <3>3, <3>4
  <2>6. QED  BY <1>4, <2>1, <2>4, <2>5 DEF WarmInv, Midnight
<1>5. CASE Stored
  <2>1. /\ entry' # None /\ entry'.at = now /\ task' = None /\ now' = now /\ missing' = 0
        /\ due' = due
    BY <1>5, StoredKeeps DEF Stored, Complete
  <2>2. LastRun' = LastRun
    BY <2>1 DEF LastRun
  <2>3. LastRun <= now /\ 0 <= 5
    BY <1>3
  <2>4. QED  BY <2>1, <2>2, <2>3 DEF WarmInv
<1>6. CASE Pass
  <2>1. /\ ~due /\ now' = now + Step /\ task' = task /\ failed' = failed
        /\ due' = ((now + Step) % 15 = 0)
        /\ entry' = entry \/ entry' = None
        /\ entry # None /\ entry' = None => now + Step - entry.at >= entry.ttl
        /\ missing' <= IF entry # None THEN 0 ELSE missing + Step
    BY <1>6, PassKeeps DEF Pass
  <2>2. missing' \in 0..60
    BY <1>6, PassKeeps DEF DayInv, WarmTypeOK, MaxMissing
  <2>3. entry # None => entry.at \in Nat /\ entry.ttl \in Nat /\ entry.ttl >= 10
    BY Numbers, TtlsOf DEF DayInv, EntryInTime
  <2>4. now % Step = 0
    BY DEF WarmInv
  <2>5. /\ now' % Step = 0
        /\ due' => now' % 15 = 0 /\ now' = LastRun + 15
        /\ ~due' => LastRun' = LastRun
    <3>1. /\ (now + Step) % Step = 0
          /\ (now + Step) % 15 = 0 => now + Step = LastRun + 15
          /\ (now + Step) % 15 # 0 => now + Step - ((now + Step) % 15) = LastRun
      BY <1>1, <1>3, <2>4, Quarters
    <3>2. due' <=> (now + Step) % 15 = 0
      BY <2>1
    <3>3. now' = now + Step
      BY <2>1
    <3>4. LastRun' = (now + Step) - ((now + Step) % 15)
      BY <1>1, <3>3 DEF LastRun
    <3>5. now' % Step = 0
      BY <3>1, <3>3
    <3>6. ASSUME due' PROVE now' % 15 = 0 /\ now' = LastRun + 15
      BY <3>1, <3>2, <3>3, <3>6
    <3>7. ASSUME ~due' PROVE LastRun' = LastRun
      BY <1>1, <3>1, <3>2, <3>4, <3>7
    <3>8. QED  BY <3>5, <3>6, <3>7
  <2>6. entry' # None => missing' = 0
    BY <2>1, <2>2
  <2>7. ASSUME OnTheDay', ~OnTheDay
        PROVE  now' = Midnight /\ (task' # None => task'.asked <= Midnight)
               /\ due'
    <3>1. now < Midnight /\ Midnight <= now + Step
      BY <1>1, <2>1, <2>7 DEF OnTheDay, Midnight
    <3>2. now + Step = Midnight /\ (now + Step) % 15 = 0
      BY <1>1, <2>4, <3>1, MatchDayAssumption, Midnights
    <3>3. task' # None => task'.asked <= Midnight
      BY <1>1, <2>1, <3>1
    <3>4. QED  BY <2>1, <3>2, <3>3
  <2>8. ASSUME OnTheDay
        PROVE  /\ task' # None => task'.asked <= Midnight \/ missing' <= 5 + now' - task'.asked
               /\ task' = None /\ ~due' => \/ entry' # None /\ entry'.at >= LastRun'
                                           \/ entry' = None /\ missing' <= now' - LastRun' - 10
               /\ task' = None /\ due' => missing' <= 5
    <3>1. CASE task # None
      <4>1. task.asked <= Midnight \/ missing <= 5 + now - task.asked
        BY <2>8, <3>1 DEF WarmInv
      <4>2. QED  BY <1>1, <2>1, <2>2, <3>1, <4>1
    <3>2. CASE task = None /\ entry # None
      <4>1. entry.at >= LastRun
        BY <2>1, <2>8, <3>2 DEF WarmInv
      <4>2. missing' = 0
        BY <2>1, <2>2, <3>2
      <4>3. entry' = None => now' >= LastRun + 10
        BY <1>1, <1>3, <2>1, <2>3, <3>2, <4>1
      <4>4. QED  BY <1>1, <1>3, <2>1, <2>5, <3>2, <4>1, <4>2, <4>3
    <3>3. CASE task = None /\ entry = None
      <4>1. missing <= now - LastRun - 10
        BY <2>1, <2>8, <3>3 DEF WarmInv
      <4>2. missing' <= now' - LastRun - 10
        BY <1>1, <1>3, <2>1, <2>2, <3>3, <4>1
      <4>3. QED  BY <1>1, <1>3, <2>1, <2>2, <2>5, <3>3, <4>2
    <3>4. QED  BY <3>1, <3>2, <3>3
  <2>9. QED  BY <1>1, <2>5, <2>6, <2>7, <2>8 DEF WarmInv, Midnight
<1>7. CASE Rejected
  BY <1>7 DEF Rejected, Fail, WarmInv, OnTheDay
<1>8. CASE Sync /\ (LocalDate(now) # Date \/ task # None) /\ UNCHANGED vars
  <2>1. due /\ ~due' /\ UNCHANGED <<now, task, entry, missing, failed>>
    BY <1>8 DEF Sync, vars
  <2>2. OnTheDay' => OnTheDay /\ task # None
    <3>1. OnTheDay' => OnTheDay
      BY <2>1 DEF OnTheDay, Midnight
    <3>2. Midnight <= now /\ now < Midnight + 1440 => (now + 0) \div 1440 = Date
      BY <1>1, MatchDayAssumption
    <3>3. QED  BY <1>1, <1>8, <3>1, <3>2 DEF OnTheDay, LocalDate
  <2>3. QED  BY <2>1, <2>2 DEF WarmInv, Midnight
<1>9. CASE UNCHANGED warmVars
  BY <1>9 DEF warmVars, vars, WarmInv, OnTheDay, LastRun, Midnight
<1>10. QED
  BY <1>2, <1>4, <1>5, <1>6, <1>7, <1>8, <1>9 DEF WarmNext, Sync, Request

\* From the first run of the cron on its day until midnight, the entry of
\* today's matches is missing for no longer than the TTL falls short of the
\* period and a reply takes, unless a fetch fails.
THEOREM TodayStaysWarm ==
    ASSUME Offset = 0
    PROVE  WarmSpec => []TodayIsWarm
<1>1. DayInv /\ WarmInv => TodayIsWarm
  <2> SUFFICES ASSUME DayInv, WarmInv, ~failed, Midnight + MaxDelay < now, now < Midnight + 1440
               PROVE  missing <= 5 + MaxDelay
    BY MatchDayAssumption
    DEF TodayIsWarm, Midnight, Day, Minutes, Period, MATCHES_TODAY
  <2>1. /\ now \in Nat /\ missing \in 0..60 /\ MaxDelay \in Nat /\ Midnight \in Nat
        /\ LastRun \in Int /\ now < LastRun + 15 /\ LastRun <= now
        /\ task # None => /\ task.asked \in Nat /\ task.asked <= now
                          /\ now <= task.asked + MaxDelay
    BY Numbers DEF DayInv, TaskInTime, LastRun, Period
  <2>2. OnTheDay /\ due \in BOOLEAN
    BY <2>1 DEF OnTheDay, Day, Minutes, DayInv, WarmTypeOK
  <2>3. CASE task # None
    BY <2>1, <2>2, <2>3 DEF WarmInv
  <2>4. CASE task = None /\ due
    <3>1. now = Midnight \/ missing <= 5
      BY <2>2, <2>4 DEF WarmInv
    <3>2. QED  BY <2>1, <3>1
  <2>5. CASE task = None /\ ~due
    <3>1. missing = 0 \/ missing <= now - LastRun - 10
      BY <2>2, <2>5 DEF WarmInv
    <3>2. QED  BY <2>1, <3>1
  <2>6. QED  BY <2>2, <2>3, <2>4, <2>5
<1>2. QED  BY <1>1, DayInvariance, InitWarmInv, StepWarmInv, PTL DEF WarmSpec
=============================================================================
