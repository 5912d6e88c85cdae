---------------------------- MODULE SeparateProofs ----------------------------
(***************************************************************************)
(* Theorems about the components that share no state with any other:       *)
(* Health, Peers, Paging and Jobs, each for every value of its constants,  *)
(* and about the run that checks them together with Access.                *)
(***************************************************************************)
EXTENDS MCSeparate, AccessProofs, SequenceTheorems

(***************************************************************************)
(* Health: one key of Redis for the checks of all replicas.                *)
(***************************************************************************)
\* As long as a check has yet to read the key, what the key has left to live
\* and the time since the check set it add up to a TTL at least: the sets of
\* the other checks only prolong it.
KeyOutlivesGap(c) == command[c] = "get" => left + gap[c] >= TestTTL

MissingIsLate(c) == redis[c] = "missing" => command[c] = "none" /\ gap[c] >= TestTTL

\* The clock of a race stops exactly at the limit.
ClockInSteps(c) == \E k \in Nat : clock[c] = k * Step

HealthInv ==
    /\ HealthTypeOK
    /\ \A c \in Checks : KeyOutlivesGap(c) /\ MissingIsLate(c) /\ ClockInSteps(c)

\* The limit is a number of steps, so that a step from before it does not pass it.
LEMMA StepsMeetTheLimit ==
    ASSUME NEW k \in Nat, k * Step < Timeout
    PROVE  k * Step + Step \in 0..Timeout /\ k * Step + Step = (k + 1) * Step
<1>1. Step \in Nat /\ Step > 0
  BY HealthAssumption
<1>2. PICK m \in Nat : Timeout = m * Step
  <2>1. 3000 = Step * (3000 \div Step) + (3000 % Step) /\ 3000 \div Step \in Nat
    BY <1>1
  <2>2. 3000 = (3000 \div Step) * Step
    BY <1>1, <2>1, HealthAssumption DEF Timeout
  <2>3. QED  BY <2>1, <2>2 DEF Timeout
<1>3. k < m
  <2>1. ASSUME k >= m PROVE FALSE
    <3>1. k * Step = m * Step + (k - m) * Step /\ (k - m) * Step >= 0
      BY <1>1, <1>2, <2>1
    <3>2. QED  BY <1>1, <1>2, <3>1 DEF Timeout
  <2>2. QED  BY <1>2, <2>1
<1>4. m * Step = (k + 1) * Step + (m - k - 1) * Step /\ (m - k - 1) * Step >= 0
  BY <1>1, <1>2, <1>3
<1>5. (k + 1) * Step = k * Step + Step /\ k * Step \in Nat
  BY <1>1
<1>6. QED  BY <1>1, <1>2, <1>4, <1>5 DEF Timeout

LEMMA InitHealthInv == HealthInit => HealthInv
<1> SUFFICES ASSUME HealthInit PROVE HealthInv
  OBVIOUS
<1>1. HealthTypeOK
  BY DEF HealthInit, HealthTypeOK, TestTTL, Timeout
<1>2. ASSUME NEW c \in Checks
      PROVE  KeyOutlivesGap(c) /\ MissingIsLate(c) /\ ClockInSteps(c)
  <2>1. 0 = 0 * Step /\ clock[c] = 0
    BY HealthAssumption DEF HealthInit
  <2>2. QED  BY <2>1 DEF HealthInit, KeyOutlivesGap, MissingIsLate, ClockInSteps
<1>3. QED  BY <1>1, <1>2 DEF HealthInv

\* A step that leaves the clock and the key alone, and does not reopen a race
\* that the key decided.
LEMMA RaceKeeps ==
    ASSUME NEW c \in Checks, HealthInv, HealthTypeOK',
           left' = left, gap' = gap,
           \A d \in Checks : clock'[d] \in {0, clock[d]},
           \A d \in Checks : command'[d] = "get" => command[d] = "get",
           \A d \in Checks \ {c} : redis'[d] = redis[d] /\ command'[d] = command[d],
           redis'[c] = "missing" => command'[c] = "none" /\ gap[c] >= TestTTL
    PROVE  HealthInv'
<1>1. ASSUME NEW d \in Checks PROVE KeyOutlivesGap(d)' /\ MissingIsLate(d)'
  BY DEF HealthInv, KeyOutlivesGap, MissingIsLate
<1>2. ASSUME NEW d \in Checks PROVE ClockInSteps(d)'
  <2>1. 0 = 0 * Step
    BY HealthAssumption
  <2>2. QED  BY <2>1 DEF HealthInv, ClockInSteps
<1>3. QED  BY <1>1, <1>2 DEF HealthInv

LEMMA SetServedKeeps ==
    ASSUME NEW c \in Checks, HealthInv, SetServed(c)
    PROVE  HealthInv'
<1>1. HealthTypeOK'
  BY DEF HealthInv, HealthTypeOK, SetServed, TestTTL
<1>2. ASSUME NEW d \in Checks
      PROVE  KeyOutlivesGap(d)' /\ MissingIsLate(d)' /\ ClockInSteps(d)'
  <2>1. gap'[d] \in 0..TestTTL /\ left' = TestTTL /\ clock'[d] = clock[d]
        /\ redis'[d] = redis[d]
    BY <1>1 DEF HealthTypeOK, SetServed
  <2>2. d # c => command'[d] = command[d] /\ gap'[d] = gap[d]
    BY DEF SetServed, HealthInv, HealthTypeOK
  <2>3. KeyOutlivesGap(d)'
    BY <2>1 DEF KeyOutlivesGap, TestTTL
  <2>4. MissingIsLate(d)'
    BY <2>1, <2>2 DEF HealthInv, MissingIsLate, SetServed
  <2>5. QED  BY <2>1, <2>3, <2>4 DEF HealthInv, ClockInSteps
<1>3. QED  BY <1>1, <1>2 DEF HealthInv

LEMMA Numerals == TestTTL \in Nat /\ Timeout \in Nat
BY DEF TestTTL, Timeout

LEMMA AdvanceKeeps ==
    ASSUME HealthInv, Advance
    PROVE  HealthInv'
<1>1. Step \in Nat /\ Step > 0
  BY HealthAssumption
<1>2. ASSUME NEW c \in Checks
      PROVE  /\ clock'[c] \in 0..Timeout /\ ClockInSteps(c)'
             /\ gap'[c] \in 0..TestTTL /\ KeyOutlivesGap(c)' /\ MissingIsLate(c)'
  <2>1. PICK k \in Nat : clock[c] = k * Step
    BY DEF HealthInv, ClockInSteps
  <2>2. clock[c] \in 0..Timeout /\ gap[c] \in 0..TestTTL /\ left \in 0..TestTTL
    BY DEF HealthInv, HealthTypeOK
  <2>3. clock'[c] = clock[c] \/ (clock[c] < Timeout /\ clock'[c] = clock[c] + Step)
    BY <2>2, Numerals DEF Advance
  <2>4. clock'[c] \in 0..Timeout /\ ClockInSteps(c)'
    BY <2>1, <2>2, <2>3, StepsMeetTheLimit DEF ClockInSteps
  <2>5. gap'[c] = Min(TestTTL, gap[c] + Step) /\ left' = Max(0, left - Step)
    BY <2>2 DEF Advance
  <2>6. gap'[c] \in 0..TestTTL /\ gap'[c] >= gap[c]
    BY <1>1, <2>2, <2>5, Numerals DEF Min
  <2>7. left + gap[c] >= TestTTL => left' + gap'[c] >= TestTTL
    BY <1>1, <2>2, <2>5, Numerals DEF Min, Max
  <2>8. KeyOutlivesGap(c)'
    BY <2>7 DEF HealthInv, KeyOutlivesGap, Advance
  <2>9. gap[c] >= TestTTL => gap'[c] >= TestTTL
    BY <2>2, <2>6, Numerals
  <2>10. MissingIsLate(c)'
    BY <2>9 DEF HealthInv, MissingIsLate, Advance
  <2>11. QED  BY <2>4, <2>6, <2>8, <2>10
<1>3. left' \in 0..TestTTL
  BY <1>1, Numerals DEF HealthInv, HealthTypeOK, Advance, Max
<1>4. HealthTypeOK'
  BY <1>2, <1>3 DEF HealthInv, HealthTypeOK, Advance
<1>5. QED  BY <1>2, <1>4 DEF HealthInv

LEMMA EvictKeeps ==
    ASSUME HealthInv, EvictTestKey
    PROVE  HealthInv'
<1>1. HealthTypeOK'
  BY DEF HealthInv, HealthTypeOK, EvictTestKey, TestTTL
<1>2. ASSUME NEW c \in Checks
      PROVE  KeyOutlivesGap(c)' /\ MissingIsLate(c)' /\ ClockInSteps(c)'
  BY DEF HealthInv, EvictTestKey, KeyOutlivesGap, MissingIsLate, ClockInSteps, TestTTL
<1>3. QED  BY <1>1, <1>2 DEF HealthInv

LEMMA StepHealthInv == HealthInv /\ [HealthNext]_healthVars => HealthInv'
<1> SUFFICES ASSUME HealthInv, [HealthNext]_healthVars PROVE HealthInv'
  OBVIOUS
<1>1. ASSUME NEW c \in Checks, Start(c) PROVE HealthInv'
  <2>1. HealthTypeOK'
    BY <1>1, Numerals DEF HealthInv, HealthTypeOK, Start
  <2>2. /\ left' = left /\ gap' = gap /\ redis'[c] = "open" /\ command'[c] = "set"
        /\ \A d \in Checks : clock'[d] \in {0, clock[d]}
        /\ \A d \in Checks \ {c} : redis'[d] = redis[d] /\ command'[d] = command[d]
    BY <1>1 DEF HealthInv, HealthTypeOK, Start
  <2>3. QED  BY <2>1, <2>2, RaceKeeps
<1>2. ASSUME NEW c \in Checks, DatabaseReplies(c) \/ Answer(c) PROVE HealthInv'
  <2>1. HealthTypeOK'
    BY <1>2 DEF HealthInv, HealthTypeOK, DatabaseReplies, Answer
  <2>2. UNCHANGED <<left, redis, command, clock, gap>>
    BY <1>2 DEF DatabaseReplies, Answer
  <2>3. QED  BY <2>1, <2>2 DEF HealthInv, KeyOutlivesGap, MissingIsLate, ClockInSteps
<1>3. ASSUME NEW c \in Checks, GetServed(c) PROVE HealthInv'
  <2>1. HealthTypeOK'
    BY <1>3 DEF HealthInv, HealthTypeOK, GetServed, Settle
  <2>2. /\ left' = left /\ gap' = gap /\ clock' = clock
        /\ command[c] = "get" /\ command'[c] = "none"
        /\ \A d \in Checks \ {c} : redis'[d] = redis[d] /\ command'[d] = command[d]
        /\ redis'[c] = "missing" => left <= 0 \/ redis[c] = "missing"
    BY <1>3 DEF HealthInv, HealthTypeOK, GetServed, Settle
  <2>3. KeyOutlivesGap(c) /\ MissingIsLate(c) /\ left \in 0..TestTTL /\ gap[c] \in 0..TestTTL
    BY DEF HealthInv, HealthTypeOK
  <2>4. redis'[c] = "missing" => gap[c] >= TestTTL
    BY <2>2, <2>3, Numerals DEF KeyOutlivesGap, MissingIsLate
  <2>5. QED  BY <2>1, <2>2, <2>4, RaceKeeps
<1>4. ASSUME NEW c \in Checks, RedisFails(c) \/ TimesOut(c) PROVE HealthInv'
  <2>1. HealthTypeOK'
    BY <1>4 DEF HealthInv, HealthTypeOK, RedisFails, TimesOut, Settle
  <2>2. /\ left' = left /\ gap' = gap /\ clock' = clock
        /\ command'[c] \in {command[c], "none"}
        /\ \A d \in Checks \ {c} : redis'[d] = redis[d] /\ command'[d] = command[d]
        /\ redis'[c] = "missing" => redis[c] = "missing"
    BY <1>4 DEF HealthInv, HealthTypeOK, RedisFails, TimesOut, Settle
  <2>3. redis'[c] = "missing" => command'[c] = "none" /\ gap[c] >= TestTTL
    BY <2>2 DEF HealthInv, MissingIsLate
  <2>4. QED  BY <2>1, <2>2, <2>3, RaceKeeps
<1>5. CASE UNCHANGED healthVars
  BY <1>5
  DEF healthVars, HealthInv, HealthTypeOK, KeyOutlivesGap, MissingIsLate, ClockInSteps
<1>6. QED
  BY <1>1, <1>2, <1>3, <1>4, <1>5, SetServedKeeps, AdvanceKeeps, EvictKeeps DEF HealthNext

\* The inductive invariant behind the theorem on the checks.
THEOREM HealthInvariance == HealthSpec => []HealthInv
BY InitHealthInv, StepHealthInv, PTL DEF HealthSpec

\* A check finds its key missing only when a whole TTL has passed since it set
\* it: overlapping checks, of any replicas, never make one another fail.
THEOREM ChecksAreApart == HealthSpec => []ChecksDoNotDisturb
<1>1. HealthInv => ChecksDoNotDisturb
  BY DEF HealthInv, MissingIsLate, ChecksDoNotDisturb
<1>2. QED  BY <1>1, HealthInvariance, PTL
-----------------------------------------------------------------------------
(***************************************************************************)
(* Peers: the replicas' writes to one entry.                               *)
(***************************************************************************)
\* An entry was stamped at most MaxDelay after the API had sent its data, and
\* the two grow old together.
StampedInTime ==
    /\ \A p \in Replicas : reply[p] # Nothing => reply[p].age <= MaxDelay
    /\ entry # Nothing => entry.data.age <= entry.stamped + MaxDelay

PeersInv == PeersTypeOK /\ StampedInTime

Entries == [data : Data, stamped : 0..(TTL - 1), by : Replicas]

\* Data, or an entry, one tick later.
LEMMA OneTickLater ==
    /\ \A d \in Data : d.age < MaxDelay + TTL =>
            /\ [d EXCEPT !.age = @ + 1] \in Data
            /\ [d EXCEPT !.age = @ + 1].age = d.age + 1
    /\ entry \in Entries /\ entry # Nothing /\ entry.data.age <= entry.stamped + MaxDelay =>
            \/ Aged = Nothing
            \/ Aged \in Entries /\ Aged.data.age <= Aged.stamped + MaxDelay
<1>1. ASSUME NEW d \in Data, d.age < MaxDelay + TTL
      PROVE  /\ [d EXCEPT !.age = @ + 1] \in Data
             /\ [d EXCEPT !.age = @ + 1].age = d.age + 1
  BY <1>1, PeersAssumption DEF Data
<1>2. ASSUME entry \in Entries, entry.data.age <= entry.stamped + MaxDelay, Aged # Nothing
      PROVE  Aged \in Entries /\ Aged.data.age <= Aged.stamped + MaxDelay
  <2> DEFINE e == [data |-> [entry.data EXCEPT !.age = @ + 1],
                   stamped |-> entry.stamped + 1, by |-> entry.by]
  <2>1. entry.data \in Data /\ entry.stamped \in 0..(TTL - 1) /\ entry.by \in Replicas
        /\ entry.data.age \in Nat
    BY <1>2 DEF Entries, Data
  <2>2. entry.stamped + 1 < TTL /\ Aged = [entry EXCEPT !.data.age = @ + 1, !.stamped = @ + 1]
    BY <1>2, <2>1, PeersAssumption DEF Aged
  <2>3. Aged = e
    BY <1>2, <2>2 DEF Entries
  <2>4. e.data \in Data /\ e.data.age = entry.data.age + 1
    <3>1. entry.data.age < MaxDelay + TTL
      BY <1>2, <2>1, <2>2, PeersAssumption
    <3>2. QED  BY <1>1, <2>1, <3>1
  <2>5. e.stamped \in 0..(TTL - 1) /\ e.stamped = entry.stamped + 1 /\ e.by \in Replicas
    BY <2>1, <2>2, PeersAssumption
  <2>6. e \in Entries
    BY <2>4, <2>5 DEF Entries
  <2>7. e.data.age <= e.stamped + MaxDelay
    BY <1>2, <2>1, <2>4, <2>5, PeersAssumption
  <2>8. QED  BY <2>3, <2>6, <2>7
<1>3. QED  BY <1>1, <1>2

LEMMA TickKeeps ==
    ASSUME PeersInv, Tick
    PROVE  PeersInv'
<1>1. ASSUME NEW p \in Replicas
      PROVE  /\ reply'[p] \in Data \cup {Nothing}
             /\ reply'[p] # Nothing => reply'[p].age <= MaxDelay
  <2>1. CASE reply[p] = Nothing
    BY <1>1, <2>1 DEF Tick
  <2>2. CASE reply[p] # Nothing
    <3>1. reply[p] \in Data /\ reply[p].age < MaxDelay /\ reply[p].age \in Nat
      BY <1>1, <2>2 DEF PeersInv, PeersTypeOK, Tick, Data
    <3>2. reply'[p] = [reply[p] EXCEPT !.age = @ + 1]
      BY <1>1, <2>2 DEF Tick
    <3>3. reply'[p] \in Data /\ reply'[p].age = reply[p].age + 1
      BY <3>1, <3>2, OneTickLater, PeersAssumption
    <3>4. QED  BY <3>1, <3>3, PeersAssumption
  <2>3. QED  BY <2>1, <2>2
<1>2. entry' \in Entries \cup {Nothing}
      /\ (entry' # Nothing => entry'.data.age <= entry'.stamped + MaxDelay)
  BY OneTickLater DEF PeersInv, PeersTypeOK, StampedInTime, Tick, Entries
<1>3. reply' \in [Replicas -> Data \cup {Nothing}]
  BY <1>1 DEF Tick
<1>4. QED  BY <1>1, <1>2, <1>3 DEF PeersInv, PeersTypeOK, StampedInTime, Tick, Entries

LEMMA StoreKeeps ==
    ASSUME NEW p \in Replicas, PeersInv, Store(p)
    PROVE  PeersInv'
<1>1. reply[p] \in Data /\ reply[p].age <= MaxDelay /\ 0 \in 0..(TTL - 1)
  BY PeersAssumption DEF PeersInv, PeersTypeOK, StampedInTime, Store
<1>2. entry' \in Entries /\ entry'.data.age <= entry'.stamped + MaxDelay
  BY <1>1, PeersAssumption DEF Store, Entries
<1>3. /\ flight' \in [Replicas -> BOOLEAN]
      /\ reply' \in [Replicas -> Data \cup {Nothing}]
      /\ \A q \in Replicas : reply'[q] # Nothing => reply'[q] = reply[q]
  BY DEF Store, Land, PeersInv, PeersTypeOK
<1>4. QED  BY <1>2, <1>3 DEF PeersInv, PeersTypeOK, StampedInTime, Entries

LEMMA InitPeersInv == PeersInit => PeersInv
BY DEF PeersInit, PeersInv, PeersTypeOK, StampedInTime

LEMMA StepPeersInv == PeersInv /\ [PeersNext]_peersVars => PeersInv'
<1> SUFFICES ASSUME PeersInv, [PeersNext]_peersVars PROVE PeersInv'
  OBVIOUS
<1>1. ASSUME NEW p \in Replicas, NEW b \in BOOLEAN, Ask(p, b) PROVE PeersInv'
  BY <1>1 DEF Ask, PeersInv, PeersTypeOK, StampedInTime
<1>2. ASSUME NEW p \in Replicas, Serve(p) PROVE PeersInv'
  <2>1. PICK f \in BOOLEAN : reply' = [reply EXCEPT ![p] = [age |-> 0, found |-> f]]
    BY <1>2 DEF Serve
  <2>2. [age |-> 0, found |-> f] \in Data /\ [age |-> 0, found |-> f].age <= MaxDelay
    BY PeersAssumption DEF Data
  <2>3. QED  BY <1>2, <2>1, <2>2 DEF Serve, PeersInv, PeersTypeOK, StampedInTime
<1>3. ASSUME NEW p \in Replicas, Fail(p) PROVE PeersInv'
  BY <1>3 DEF Fail, Land, PeersInv, PeersTypeOK, StampedInTime
<1>4. CASE Evict
  BY <1>4 DEF Evict, PeersInv, PeersTypeOK, StampedInTime
<1>5. CASE UNCHANGED peersVars
  BY <1>5 DEF peersVars, PeersInv, PeersTypeOK, StampedInTime
<1>6. QED  BY <1>1, <1>2, <1>3, <1>4, <1>5, StoreKeeps, TickKeeps DEF PeersNext

\* The inductive invariant: age and timestamp of an entry go together.
THEOREM PeersInvariance == PeersSpec => []PeersInv
BY InitPeersInv, StepPeersInv, PTL DEF PeersSpec

\* What any replica answers as FRESH is as old as the threshold, the delay of a
\* reply and the skew of the clocks allow at most, whoever wrote it.
THEOREM FreshStaysFresh == PeersSpec => []FreshMeansFresh
<1>1. PeersInv => FreshMeansFresh
  <2> SUFFICES ASSUME PeersInv, NEW p \in Replicas, entry # Nothing, ~IsStale(p)
               PROVE  entry.data.age <= Stale + Skew + MaxDelay
    BY DEF FreshMeansFresh
  <2>1. /\ entry.data.age <= entry.stamped + MaxDelay /\ entry.by \in Replicas
        /\ entry.data.age \in Nat /\ entry.stamped \in Int
    BY DEF PeersInv, PeersTypeOK, StampedInTime, Data
  <2>2. /\ Ahead[p] \in Nat /\ Ahead[entry.by] \in Nat /\ Ahead[entry.by] - Ahead[p] <= Skew
        /\ Skew \in Nat /\ Stale \in Nat /\ MaxDelay \in Nat
    BY <2>1, PeersAssumption
  <2>3. entry.stamped + Ahead[p] - Ahead[entry.by] <= Stale
    BY <2>1, <2>2 DEF IsStale
  <2>4. QED  BY <2>1, <2>2, <2>3
<1>2. QED  BY <1>1, PeersInvariance, PTL

\* Nothing is served that is older than the TTL and the delay of a reply,
\* however often the API fails.
THEOREM NothingOutlives == PeersSpec => []NothingOutlivesItsTTL
<1>1. PeersInv => NothingOutlivesItsTTL
  BY PeersAssumption DEF PeersInv, PeersTypeOK, StampedInTime, Data, NothingOutlivesItsTTL
<1>2. QED  BY <1>1, PeersInvariance, PTL
-----------------------------------------------------------------------------
(***************************************************************************)
(* Jobs: keys, paths and the two tables.                                   *)
(***************************************************************************)
\* How tuples are put together.
LEMMA Tuples ==
    ASSUME NEW x, NEW y, NEW z
    PROVE  /\ <<x>> \o <<>> = <<x>>
           /\ <<x, y>> \o <<>> = <<x, y>>
           /\ <<x>> \o <<y>> = <<x, y>>
           /\ <<x, y>> \o <<z>> = <<x, y, z>>
           /\ <<x>> \o <<y, z>> = <<x, y, z>>
<1> DEFINE S == {x, y, z}
<1>1. /\ <<>> \in Seq(S) /\ <<x>> \in Seq(S) /\ <<y>> \in Seq(S) /\ <<z>> \in Seq(S)
      /\ <<x, y>> \in Seq(S) /\ <<y, z>> \in Seq(S) /\ <<x, y, z>> \in Seq(S)
  OBVIOUS
<1> HIDE DEF S
<1>2. \A u, v : <<u>> \in Seq(S) /\ <<v>> \in Seq(S) /\ <<u, v>> \in Seq(S)
               => <<u>> \o <<v>> = <<u, v>>
  <2> SUFFICES ASSUME NEW u, NEW v, <<u>> \in Seq(S), <<v>> \in Seq(S), <<u, v>> \in Seq(S)
               PROVE  <<u>> \o <<v>> = <<u, v>>
    OBVIOUS
  <2> DEFINE r == <<u>> \o <<v>>
  <2>1. /\ r \in Seq(S) /\ Len(r) = Len(<<u>>) + Len(<<v>>)
        /\ \A i \in 1..(Len(<<u>>) + Len(<<v>>)) :
                r[i] = IF i <= Len(<<u>>) THEN <<u>>[i] ELSE <<v>>[i - Len(<<u>>)]
    BY ConcatProperties
  <2> HIDE DEF r
  <2>2. /\ Len(r) = 1 + 1
        /\ \A i \in 1..2 : r[i] = IF i <= 1 THEN <<u>>[i] ELSE <<v>>[i - 1]
    BY <2>1
  <2>3. Len(r) = 2 /\ r[1] = u /\ r[2] = v
    BY <2>2
  <2>4. r = <<u, v>>
    BY <2>1, <2>3, SeqEqual
  <2>5. QED  BY <2>4 DEF r
<1>3. <<x, y>> \o <<z>> = <<x, y, z>>
  <2> DEFINE r == <<x, y>> \o <<z>>
  <2>1. /\ r \in Seq(S) /\ Len(r) = Len(<<x, y>>) + Len(<<z>>)
        /\ \A i \in 1..(Len(<<x, y>>) + Len(<<z>>)) :
                r[i] = IF i <= Len(<<x, y>>) THEN <<x, y>>[i] ELSE <<z>>[i - Len(<<x, y>>)]
    BY <1>1, ConcatProperties
  <2> HIDE DEF r
  <2>2. /\ Len(r) = 2 + 1
        /\ \A i \in 1..3 : r[i] = IF i <= 2 THEN <<x, y>>[i] ELSE <<z>>[i - 2]
    BY <2>1
  <2>3. Len(r) = 3 /\ r[1] = x /\ r[2] = y /\ r[3] = z
    BY <2>2
  <2>4. r = <<x, y, z>>
    BY <1>1, <2>1, <2>3, SeqEqual
  <2>5. QED  BY <2>4 DEF r
<1>4. <<x>> \o <<>> = <<x>> /\ <<x, y>> \o <<>> = <<x, y>>
  BY <1>1, ConcatEmptySeq
<1>5. <<x>> \o <<y>> = <<x, y>> /\ <<y>> \o <<z>> = <<y, z>>
  BY <1>1, <1>2
<1>6. <<x>> \o <<y, z>> = <<x, y, z>>
  <2>1. (<<x>> \o <<y>>) \o <<z>> = <<x>> \o (<<y>> \o <<z>>)
    BY <1>1, ConcatAssociative
  <2>2. QED  BY <1>3, <1>5, <2>1, Zenon
<1>7. QED  BY <1>3, <1>4, <1>5, <1>6

\* The key and the path of a job of each type, written out.
KeyAndPath(j, key, path) == CacheKey(j) = key /\ Path(j) = path

LEMMA Names ==
    ASSUME NEW j \in JobSet
    PROVE
        \/ /\ j.type = "competition" /\ j.arg \in Ids
           /\ KeyAndPath(j, <<"competition", j.arg>>, <<"competitions", j.arg>>)
        \/ /\ j.type = "competition-matches" /\ j.arg \in Ids
           /\ KeyAndPath(j, <<"competition", "matches", j.arg>>, <<"competitions", j.arg, "matches">>)
        \/ /\ j.type = "competition-standings" /\ j.arg \in Ids
           /\ KeyAndPath(j, <<"standings", j.arg>>, <<"competitions", j.arg, "standings">>)
        \/ /\ j.type = "competition-scorers" /\ j.arg \in Ids
           /\ KeyAndPath(j, <<"scorers", j.arg>>, <<"competitions", j.arg, "scorers">>)
        \/ /\ j.type = "match" /\ j.arg \in Ids
           /\ KeyAndPath(j, <<"match", j.arg>>, <<"matches", j.arg>>)
        \/ /\ j.type = "head2head" /\ j.arg \in Ids
           /\ KeyAndPath(j, <<"head2head", j.arg>>, <<"matches", j.arg, "head2head">>)
        \/ /\ j.type = "team" /\ j.arg \in Ids
           /\ KeyAndPath(j, <<"team", j.arg>>, <<"teams", j.arg>>)
        \/ /\ j.type = "team-matches" /\ j.arg \in Ids
           /\ KeyAndPath(j, <<"team", "matches", j.arg>>, <<"teams", j.arg, "matches">>)
        \/ /\ j.type = "matches" /\ j.arg \in Dates
           /\ KeyAndPath(j, <<"matches", j.arg>>, <<"matches", j.arg, "dateTo">>)
        \/ /\ j.type = "matches" /\ j.arg = None
           /\ KeyAndPath(j, <<"matches", "all">>, <<"matches">>)
        \/ /\ j.type = "available-competitions" /\ j.arg = None
           /\ KeyAndPath(j, <<"available", "competitions">>, <<"competitions">>)
<1>1. j.arg # None => /\ CacheKey(j) = Prefix(j.type) \o <<j.arg>>
                      /\ Path(j) = <<Collection(j.type)>> \o (<<j.arg>> \o Below(j.type))
  BY DEF CacheKey, Path
<1>2. CASE j.type = "competition" /\ j.arg \in Ids
  <2>1. /\ Prefix(j.type) = <<"competition">> /\ Collection(j.type) = "competitions"
        /\ Below(j.type) = <<>> /\ j.arg # None
    BY <1>2, JobsAssumption DEF Prefix, Collection, Below, CompetitionTypes, TeamTypes
  <2>2. KeyAndPath(j, <<"competition", j.arg>>, <<"competitions", j.arg>>)
    BY <1>1, <2>1, Tuples DEF KeyAndPath
  <2>3. QED  BY <1>2, <2>2
<1>3. CASE j.type = "competition-matches" /\ j.arg \in Ids
  <2>1. /\ Prefix(j.type) = <<"competition", "matches">> /\ Collection(j.type) = "competitions"
        /\ Below(j.type) = <<"matches">> /\ j.arg # None
    BY <1>3, JobsAssumption DEF Prefix, Collection, Below, CompetitionTypes, TeamTypes
  <2>2. KeyAndPath(j, <<"competition", "matches", j.arg>>, <<"competitions", j.arg, "matches">>)
    BY <1>1, <2>1, Tuples DEF KeyAndPath
  <2>3. QED  BY <1>3, <2>2
<1>4. CASE j.type = "competition-standings" /\ j.arg \in Ids
  <2>1. /\ Prefix(j.type) = <<"standings">> /\ Collection(j.type) = "competitions"
        /\ Below(j.type) = <<"standings">> /\ j.arg # None
    BY <1>4, JobsAssumption DEF Prefix, Collection, Below, CompetitionTypes, TeamTypes
  <2>2. KeyAndPath(j, <<"standings", j.arg>>, <<"competitions", j.arg, "standings">>)
    BY <1>1, <2>1, Tuples DEF KeyAndPath
  <2>3. QED  BY <1>4, <2>2
<1>5. CASE j.type = "competition-scorers" /\ j.arg \in Ids
  <2>1. /\ Prefix(j.type) = <<"scorers">> /\ Collection(j.type) = "competitions"
        /\ Below(j.type) = <<"scorers">> /\ j.arg # None
    BY <1>5, JobsAssumption DEF Prefix, Collection, Below, CompetitionTypes, TeamTypes
  <2>2. KeyAndPath(j, <<"scorers", j.arg>>, <<"competitions", j.arg, "scorers">>)
    BY <1>1, <2>1, Tuples DEF KeyAndPath
  <2>3. QED  BY <1>5, <2>2
<1>6. CASE j.type = "match" /\ j.arg \in Ids
  <2>1. /\ Prefix(j.type) = <<"match">> /\ Collection(j.type) = "matches"
        /\ Below(j.type) = <<>> /\ j.arg # None
    BY <1>6, JobsAssumption DEF Prefix, Collection, Below, CompetitionTypes, TeamTypes
  <2>2. KeyAndPath(j, <<"match", j.arg>>, <<"matches", j.arg>>)
    BY <1>1, <2>1, Tuples DEF KeyAndPath
  <2>3. QED  BY <1>6, <2>2
<1>7. CASE j.type = "head2head" /\ j.arg \in Ids
  <2>1. /\ Prefix(j.type) = <<"head2head">> /\ Collection(j.type) = "matches"
        /\ Below(j.type) = <<"head2head">> /\ j.arg # None
    BY <1>7, JobsAssumption DEF Prefix, Collection, Below, CompetitionTypes, TeamTypes
  <2>2. KeyAndPath(j, <<"head2head", j.arg>>, <<"matches", j.arg, "head2head">>)
    BY <1>1, <2>1, Tuples DEF KeyAndPath
  <2>3. QED  BY <1>7, <2>2
<1>8. CASE j.type = "team" /\ j.arg \in Ids
  <2>1. /\ Prefix(j.type) = <<"team">> /\ Collection(j.type) = "teams"
        /\ Below(j.type) = <<>> /\ j.arg # None
    BY <1>8, JobsAssumption DEF Prefix, Collection, Below, CompetitionTypes, TeamTypes
  <2>2. KeyAndPath(j, <<"team", j.arg>>, <<"teams", j.arg>>)
    BY <1>1, <2>1, Tuples DEF KeyAndPath
  <2>3. QED  BY <1>8, <2>2
<1>9. CASE j.type = "team-matches" /\ j.arg \in Ids
  <2>1. /\ Prefix(j.type) = <<"team", "matches">> /\ Collection(j.type) = "teams"
        /\ Below(j.type) = <<"matches">> /\ j.arg # None
    BY <1>9, JobsAssumption DEF Prefix, Collection, Below, CompetitionTypes, TeamTypes
  <2>2. KeyAndPath(j, <<"team", "matches", j.arg>>, <<"teams", j.arg, "matches">>)
    BY <1>1, <2>1, Tuples DEF KeyAndPath
  <2>3. QED  BY <1>9, <2>2
<1>10. CASE j.type = "matches" /\ j.arg \in Dates
  <2>1. /\ Prefix(j.type) = <<"matches">> /\ Collection(j.type) = "matches"
        /\ Below(j.type) = <<"dateTo">> /\ j.arg # None
    BY <1>10, JobsAssumption DEF Prefix, Collection, Below, CompetitionTypes, TeamTypes
  <2>2. KeyAndPath(j, <<"matches", j.arg>>, <<"matches", j.arg, "dateTo">>)
    BY <1>1, <2>1, Tuples DEF KeyAndPath
  <2>3. QED  BY <1>10, <2>2
<1>11. CASE j.type = "matches" /\ j.arg = None
  <2>1. /\ CacheKey(j) = <<"matches">> \o <<"all">>
        /\ Path(j) = <<"matches">> \o <<>>
    BY <1>11 DEF CacheKey, Path, Prefix, Collection, CompetitionTypes, TeamTypes
  <2>2. QED  BY <1>11, <2>1, Tuples DEF KeyAndPath
<1>12. CASE j.type = "available-competitions" /\ j.arg = None
  <2>1. /\ CacheKey(j) = <<"available", "competitions">> \o <<>>
        /\ Path(j) = <<"competitions">> \o <<>>
    BY <1>12 DEF CacheKey, Path, Prefix, Collection, CompetitionTypes, TeamTypes
  <2>2. QED  BY <1>12, <2>1, Tuples DEF KeyAndPath
<1>13. QED
  BY <1>2, <1>3, <1>4, <1>5, <1>6, <1>7, <1>8, <1>9, <1>10, <1>11, <1>12
  DEF JobSet, CompetitionTypes, MatchTypes, TeamTypes

\* Jobs are told apart by their keys, and by their paths.
LEMMA NamesTellApart ==
    ASSUME NEW j \in JobSet, NEW k \in JobSet,
           CacheKey(j) = CacheKey(k) \/ Path(j) = Path(k)
    PROVE  j.type = k.type /\ j.arg = k.arg
<1>1. \A u, v, w, x, y, z :
        /\ <<u>> = <<x>> => u = x
        /\ <<u, v>> = <<x, y>> => u = x /\ v = y
        /\ <<u, v, w>> = <<x, y, z>> => u = x /\ v = y /\ w = z
        /\ <<u>> # <<x, y>> /\ <<u>> # <<x, y, z>> /\ <<u, v>> # <<x, y, z>>
  OBVIOUS
<1>2. CASE CacheKey(j) = CacheKey(k)
  BY <1>1, <1>2, Names, JobsAssumption, SMTT(60) DEF KeyAndPath
<1>3. CASE Path(j) = Path(k)
  BY <1>1, <1>3, Names, JobsAssumption, SMTT(60) DEF KeyAndPath
<1>4. QED  BY <1>2, <1>3

JobInv ==
    /\ job \in JobSet /\ other \in JobSet
    /\ startedIn \in Eras /\ readIn \in Eras /\ startedIn <= readIn

LEMMA InitJobInv == JobInit => JobInv
BY DEF JobInit, JobInv, JobSet, FirstJob, Eras

LEMMA StepJobInv == JobInv /\ [JobNext]_jobVars => JobInv'
BY DEF JobInv, JobNext, Fetch, jobVars, Eras, Over

\* Two jobs have one key exactly when they ask football-data.org for the same,
\* for any ids and dates: neither shares an entry or a flight by accident.
THEOREM KeysAreExact == JobSpec => []KeysNameRequests
<1>1. JobInv => KeysNameRequests
  <2> SUFFICES ASSUME JobInv PROVE KeysNameRequests
    OBVIOUS
  <2>1. CASE CacheKey(job) = CacheKey(other) \/ Path(job) = Path(other)
    <3>1. job.type = other.type /\ job.arg = other.arg
      BY <2>1, NamesTellApart DEF JobInv
    <3>2. /\ CacheKey(job) = CacheKey(other) /\ Path(job) = Path(other)
          /\ Extract(job.type) = Extract(other.type)
      BY <3>1 DEF CacheKey, Path
    <3>3. QED  BY <3>2 DEF KeysNameRequests
  <2>2. CASE CacheKey(job) # CacheKey(other) /\ Path(job) # Path(other)
    BY <2>2 DEF KeysNameRequests
  <2>3. QED  BY <2>1, <2>2
<1>2. QED  BY <1>1, InitJobInv, StepJobInv, PTL DEF JobSpec

\* Every entry is stale before it is gone, at whatever moments its task has started
\* and it is read, unless it is the matches of a date that became over in between.
THEOREM StaleComesFirst == JobSpec => []StaleBeforeGone
<1>1. JobInv => StaleBeforeGone
  <2> SUFFICES ASSUME JobInv PROVE StaleBeforeGone
    OBVIOUS
  <2>1. job.type \in CompetitionTypes \cup MatchTypes \cup TeamTypes
                        \cup {"matches", "available-competitions"}
    BY DEF JobInv, JobSet
  <2>2. CASE job.type # "matches" \/ job.arg = None
    <3> DEFINE rows == {"COMPETITION", "COMPETITIONS_LIST", "COMPETITION_MATCHES",
                        "COMPETITION_SCORERS", "MATCHES_TODAY", "MATCH", "HEAD2HEAD",
                        "STANDINGS", "TEAM", "TEAM_MATCHES"}
    <3>1. StaleRow(job, readIn) = TtlRow(job, startedIn) /\ StaleRow(job, readIn) \in rows
      BY <2>1, <2>2
      DEF StaleRow, TtlRow, MatchesRow, CompetitionTypes, MatchTypes, TeamTypes
    <3>2. \A r \in rows : CONFIG[r].stale < CONFIG[r].ttl
      BY DEF CONFIG
    <3>3. QED  BY <3>1, <3>2 DEF StaleBeforeGone
  <2>3. CASE job.type = "matches" /\ job.arg # None
    <3>1. /\ StaleRow(job, readIn) = MatchesRow(job.arg, readIn)
          /\ TtlRow(job, startedIn) = MatchesRow(job.arg, startedIn)
      BY <2>3 DEF StaleRow, TtlRow
    <3>2. /\ MatchesRow(job.arg, 1) = "MATCHES_FUTURE" /\ MatchesRow(job.arg, 2) = "MATCHES_TODAY"
          /\ MatchesRow(job.arg, 3) = "MATCHES_PAST"
      BY <2>3 DEF MatchesRow
    <3>3. /\ CONFIG["MATCHES_FUTURE"].stale = 360 /\ CONFIG["MATCHES_FUTURE"].ttl = 720
          /\ CONFIG["MATCHES_TODAY"].stale = 2 /\ CONFIG["MATCHES_TODAY"].ttl = 10
          /\ CONFIG["MATCHES_PAST"].stale = 720 /\ CONFIG["MATCHES_PAST"].ttl = 1440
      BY DEF CONFIG
    <3>4. /\ startedIn \in 1..3 /\ readIn \in 1..3 /\ startedIn <= readIn
      BY DEF JobInv, Eras
    <3>5. CASE readIn = 3 /\ startedIn # 3
      BY <2>3, <3>4, <3>5 DEF StaleBeforeGone, Over
    <3>6. CASE readIn = 3 /\ startedIn = 3
      BY <3>1, <3>2, <3>3, <3>6 DEF StaleBeforeGone
    <3>7. CASE readIn = 2
      BY <3>1, <3>2, <3>3, <3>4, <3>7 DEF StaleBeforeGone
    <3>8. CASE readIn = 1
      BY <3>1, <3>2, <3>3, <3>4, <3>8 DEF StaleBeforeGone
    <3>9. QED  BY <3>4, <3>5, <3>6, <3>7, <3>8
  <2>4. QED  BY <2>2, <2>3
<1>2. QED  BY <1>1, InitJobInv, StepJobInv, PTL DEF JobSpec
-----------------------------------------------------------------------------
(***************************************************************************)
(* Paging: what a client reads page by page.                               *)
(***************************************************************************)
\* While the list does not change, the client has read it up to its offset; at
\* its end it has read it all, or to where offsets end.
ReadSoFar ==
    ~changed =>
        /\ read = SubSeq(list, 1, Len(read)) /\ Len(read) <= Len(list)
        /\ ~done => offset = Len(read)
        /\ done => Len(read) = Len(list) \/ Len(read) > MaxLimit

PagingInv == PagingTypeOK /\ ReadSoFar /\ (changed => read # <<>>)

\* The next page continues what has been read.
LEMMA SliceContinues ==
    ASSUME NEW s \in Seq(Matches), NEW n \in Nat, n > 0, NEW from \in 0..Len(s)
    PROVE  LET end == IF from + n < Len(s) THEN from + n ELSE Len(s)
           IN  /\ end \in from..Len(s)
               /\ SubSeq(s, 1, from) \o Slice(s, from, n) = SubSeq(s, 1, end)
               /\ Len(Slice(s, from, n)) = end - from
               /\ Len(SubSeq(s, 1, end)) = end
<1> DEFINE end == IF from + n < Len(s) THEN from + n ELSE Len(s)
<1>1. Len(s) \in Nat /\ from \in Nat /\ end \in from..Len(s) /\ end \in Nat
  OBVIOUS
<1>2. Slice(s, from, n) = SubSeq(s, from + 1, end)
  BY DEF Slice
<1>3. SubSeq(s, 1, from) \o SubSeq(s, from + 1, end) = SubSeq(s, 1, end)
  <2>1. 1 \in 1..(Len(s) + 1) /\ from \in (1 - 1)..Len(s) /\ end \in from..Len(s)
    BY <1>1
  <2> HIDE DEF end
  <2>2. QED  BY <2>1, ConcatAdjacentSubSeq
<1> HIDE DEF end
<1>4. \A i \in 1..Len(s) : s[i] \in Matches
  OBVIOUS
<1>5. Len(SubSeq(s, from + 1, end)) = end - from
  <2>1. \A i \in (from + 1)..end : s[i] \in Matches
    BY <1>1, <1>4
  <2>2. Len(SubSeq(s, from + 1, end)) = IF from + 1 <= end THEN end - (from + 1) + 1 ELSE 0
    BY <1>1, <2>1, SubSeqProperties
  <2>3. QED  BY <1>1, <2>2
<1>6. Len(SubSeq(s, 1, end)) = end
  <2>1. \A i \in 1..end : s[i] \in Matches
    BY <1>1, <1>4
  <2>2. Len(SubSeq(s, 1, end)) = IF 1 <= end THEN end - 1 + 1 ELSE 0
    BY <1>1, <2>1, SubSeqProperties
  <2>3. QED  BY <1>1, <2>2
<1>7. QED  BY <1>1, <1>2, <1>3, <1>5, <1>6 DEF end

LEMMA SliceType ==
    ASSUME NEW s \in Seq(Matches), NEW n \in Nat, NEW from \in Nat
    PROVE  Slice(s, from, n) \in Seq(Matches)
<1> DEFINE end == IF from + n < Len(s) THEN from + n ELSE Len(s)
<1>1. end \in Int /\ end <= Len(s) /\ Len(s) \in Nat
  OBVIOUS
<1>2. Slice(s, from, n) = SubSeq(s, from + 1, end)
  BY DEF Slice
<1> HIDE DEF end
<1>3. \A i \in (from + 1)..end : s[i] \in Matches
  BY <1>1
<1>4. QED  BY <1>1, <1>2, <1>3, SubSeqProperties

LEMMA NextPageKeeps ==
    ASSUME PagingInv, NextPage
    PROVE  PagingInv'
<1> DEFINE page == Slice(list, offset, limit)
           next == offset + limit
<1>1. /\ list \in Seq(Matches) /\ limit \in 1..MaxLimit /\ offset \in 0..MaxLimit
      /\ read \in Seq(Matches) /\ changed \in BOOLEAN /\ ~done /\ MaxLimit \in Nat
      /\ list' = list /\ limit' = limit /\ changed' = changed
  BY PagingAssumption DEF PagingInv, PagingTypeOK, NextPage
<1>2. /\ read' = read \o page /\ done' = (Len(page) < limit \/ ~Accepted(next))
      /\ offset' = IF Accepted(next) THEN next ELSE offset
  BY DEF NextPage
<1>3. page \in Seq(Matches) /\ Len(page) \in Nat
  <2>1. page \in Seq(Matches)
    BY <1>1, SliceType
  <2> HIDE DEF page
  <2>2. QED  BY <2>1
<1>4. PagingTypeOK'
  <2> HIDE DEF page
  <2>1. read' \in Seq(Matches)
    BY <1>1, <1>2, <1>3
  <2>2. offset' \in 0..MaxLimit
    BY <1>1, <1>2 DEF Accepted
  <2>3. done' \in BOOLEAN
    BY <1>2
  <2>4. QED  BY <1>1, <2>1, <2>2, <2>3 DEF PagingInv, PagingTypeOK
<1>5. changed' => read' # <<>>
  <2> HIDE DEF page
  <2>1. read # <<>> => read \o page # <<>>
    BY <1>1, <1>3, ConcatEqualIffEmpty
  <2>2. QED  BY <1>1, <1>2, <2>1 DEF PagingInv
<1>6. ReadSoFar'
  <2> SUFFICES ASSUME ~changed
               PROVE  /\ read' = SubSeq(list, 1, Len(read')) /\ Len(read') <= Len(list)
                      /\ ~done' => offset' = Len(read')
                      /\ done' => Len(read') = Len(list) \/ Len(read') > MaxLimit
    BY <1>1 DEF ReadSoFar
  <2>1. read = SubSeq(list, 1, offset) /\ offset \in 0..Len(list) /\ Len(list) \in Nat
    <3>1. /\ read = SubSeq(list, 1, Len(read)) /\ Len(read) <= Len(list)
          /\ offset = Len(read)
      BY <1>1, Zenon DEF PagingInv, ReadSoFar
    <3>2. Len(list) \in Nat /\ offset \in Nat
      BY <1>1
    <3>3. QED  BY <3>1, <3>2
  <2> DEFINE end == IF next < Len(list) THEN next ELSE Len(list)
  <2>2. /\ end \in offset..Len(list) /\ read \o page = SubSeq(list, 1, end)
        /\ Len(page) = end - offset /\ Len(SubSeq(list, 1, end)) = end
    <3>1. limit \in Nat /\ limit > 0
      BY <1>1
    <3>2. /\ end \in offset..Len(list)
          /\ SubSeq(list, 1, offset) \o page = SubSeq(list, 1, end)
          /\ Len(page) = end - offset /\ Len(SubSeq(list, 1, end)) = end
      BY <1>1, <2>1, <3>1, SliceContinues, Zenon
    <3>3. QED  BY <2>1, <3>2, Zenon
  <2> HIDE DEF page
  <2>3. end = next \/ end = Len(list)
    OBVIOUS
  <2>4. end < next => end = Len(list)
    BY <1>1, <2>1
  <2>5. end <= next /\ next \in Nat /\ next > 0
    BY <1>1, <2>1
  <2> HIDE DEF end
  <2>6. read' = SubSeq(list, 1, end) /\ Len(read') = end
    BY <1>2, <2>2
  <2>7. ~done' => end = next /\ offset' = next
    <3>1. ~done' => ~(Len(page) < limit) /\ Accepted(next)
      BY <1>2
    <3>2. ~(Len(page) < limit) => end = next
      BY <1>1, <2>1, <2>2, <2>5
    <3>3. QED  BY <1>2, <3>1, <3>2
  <2>8. done' => end = Len(list) \/ end > MaxLimit
    <3>1. done' => Len(page) < limit \/ ~Accepted(next)
      BY <1>2
    <3>2. Len(page) < limit => end < next
      BY <1>1, <2>1, <2>2
    <3>3. ~Accepted(next) => next > MaxLimit
      BY <1>1, <2>5 DEF Accepted
    <3>4. QED  BY <1>1, <2>1, <2>2, <2>4, <2>5, <3>1, <3>2, <3>3
  <2>9. QED  BY <2>1, <2>2, <2>6, <2>7, <2>8
<1>7. QED  BY <1>4, <1>5, <1>6 DEF PagingInv

LEMMA EmptyRead ==
    ASSUME NEW s \in Seq(Matches)
    PROVE  <<>> = SubSeq(s, 1, Len(<<>>)) /\ Len(<<>>) = 0 /\ 0 <= Len(s)
BY SubSeqEmpty

LEMMA InitPagingInv == PagingInit => PagingInv
<1> SUFFICES ASSUME PagingInit PROVE PagingInv
  OBVIOUS
<1>1. PagingTypeOK
  <2>1. <<>> \in Seq(Matches) /\ NoneTwice(<<>>)
    BY DEF NoneTwice
  <2>2. MaxLimit \in 1..MaxLimit /\ 0 \in 0..MaxLimit
    BY PagingAssumption
  <2>3. QED  BY <2>1, <2>2 DEF PagingInit, PagingTypeOK
<1>2. ReadSoFar
  BY <1>1, EmptyRead DEF PagingInit, PagingTypeOK, ReadSoFar
<1>3. QED  BY <1>1, <1>2 DEF PagingInv, PagingInit

LEMMA StepPagingInv == PagingInv /\ [PagingNext]_pagingVars => PagingInv'
<1> SUFFICES ASSUME PagingInv, [PagingNext]_pagingVars PROVE PagingInv'
  OBVIOUS
<1>1. CASE Refresh
  <2>1. PICK n \in 0..Cardinality(Matches) : list' \in [1..n -> Matches]
    BY <1>1 DEF Refresh, Lists
  <2>2. list' \in Seq(Matches) /\ NoneTwice(list')
    <3>1. n \in Nat
      BY <2>1
    <3>2. QED  BY <1>1, <2>1, <3>1 DEF Refresh, NoneTwice
  <2>3. PagingTypeOK'
    BY <1>1, <2>2 DEF PagingInv, PagingTypeOK, Refresh, NoneTwice
  <2>4. ASSUME ~changed' PROVE read' = <<>> /\ offset' = 0 /\ ~done'
    <3>1. read = <<>> /\ read' = read /\ offset' = offset /\ done' = done /\ ~done
      BY <1>1, <2>4 DEF Refresh
    <3>2. offset = 0
      BY <3>1 DEF PagingInv, ReadSoFar
    <3>3. QED  BY <3>1, <3>2
  <2>5. ReadSoFar'
    BY <2>2, <2>4, EmptyRead DEF ReadSoFar
  <2>6. QED  BY <1>1, <2>3, <2>5 DEF PagingInv, Refresh
<1>2. CASE Again
  <2>1. PagingTypeOK'
    <3>1. 0 \in 0..MaxLimit /\ <<>> \in Seq(Matches)
      BY PagingAssumption
    <3>2. NoneTwice(list)'
      BY <1>2 DEF Again, PagingInv, PagingTypeOK, NoneTwice
    <3>3. QED  BY <1>2, <3>1, <3>2 DEF Again, PagingInv, PagingTypeOK
  <2>2. ReadSoFar'
    BY <1>2, <2>1, EmptyRead DEF Again, PagingTypeOK, ReadSoFar
  <2>3. QED  BY <1>2, <2>1, <2>2 DEF PagingInv, Again
<1>3. CASE UNCHANGED pagingVars
  BY <1>3 DEF pagingVars, PagingInv, PagingTypeOK, NoneTwice, ReadSoFar
<1>4. QED  BY <1>1, <1>2, <1>3, NextPageKeeps DEF PagingNext

\* The inductive invariant behind the theorem on pages.
THEOREM PagingInvariance == PagingSpec => []PagingInv
BY InitPagingInv, StepPagingInv, PTL DEF PagingSpec

\* Pages tile the list, whatever the limit: while it does not change, nothing
\* is read twice or left out.
THEOREM PagesAlwaysTile == PagingSpec => []PagesTile
<1>1. PagingInv => PagesTile
  BY DEF PagingInv, ReadSoFar, PagesTile
<1>2. QED  BY <1>1, PagingInvariance, PTL
-----------------------------------------------------------------------------
(***************************************************************************)
(* The run that checks them together.                                      *)
(***************************************************************************)
SeparateInv == HealthInv /\ AccessInv /\ PeersInv /\ PagingInv /\ JobInv

\* Side by side or one at a time, the components keep to their types.
THEOREM SeparateTypeCorrect == Spec => []TypeOK
<1>1. Init => SeparateInv
  BY InitHealthInv, InitAccessInv, InitPeersInv, InitPagingInv, InitJobInv
  DEF Init, SeparateInv
<1>2. SeparateInv /\ [Next]_vars => SeparateInv'
  <2>1. [Next]_vars => /\ [HealthNext]_healthVars /\ [AccessNext]_accessVars
                       /\ [PeersNext]_peersVars /\ [PagingNext]_pagingVars
                       /\ [JobNext]_jobVars
    BY DEF Next, vars
  <2>2. QED
    BY <2>1, StepHealthInv, StepAccessInv, StepPeersInv, StepPagingInv, StepJobInv
    DEF SeparateInv
<1>3. SeparateInv => TypeOK
  BY DEF SeparateInv, HealthInv, AccessInv, PeersInv, PagingInv, JobInv, TypeOK
<1>4. QED  BY <1>1, <1>2, <1>3, PTL DEF Spec
=============================================================================
