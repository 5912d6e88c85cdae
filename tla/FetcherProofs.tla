---------------------------- MODULE FetcherProofs ----------------------------
(***************************************************************************)
(* Theorems about Fetcher, for every set of callers, keys, values and wait *)
(* hints.  The inductive invariant adds two facts to the invariants that   *)
(* the runs check: what the record of a call holds at each stage of it, and *)
(* how the seconds slept follow the number of attempts.                    *)
(***************************************************************************)
EXTENDS Fetcher, TLAPS

\* An idle call has no promise; a settled one has its outcome, and waits for
\* its own finally or for nothing.
CallRecords ==
    \A c \in Callers :
        /\ stage[c] = "idle" => awaits[c] = None /\ key[c] = None
        /\ stage[c] # "idle" => key[c] \in Keys
        /\ stage[c] = "settled" => awaits[c] \in {c, None}
        /\ out[c] # None <=> stage[c] = "settled"

\* Each sleep is at most MaxWaitSeconds long and is followed by an attempt.
SleepsAreCounted ==
    /\ phase = "off" => attempt = 0 /\ slept = 0
    /\ phase = "task" => /\ attempt \in 1..(MaxRetries + 1)
                         /\ slept <= (attempt - 1) * MaxWaitSeconds
    /\ phase = "sleep" => /\ attempt \in 1..MaxRetries
                          /\ slept <= attempt * MaxWaitSeconds

IInv == /\ FetcherTypeOK
        /\ CallRecords
        /\ FlightsRegistered
        /\ CallsAreServed
        /\ FlagIsTruthful
        /\ SleepsAreCounted
-----------------------------------------------------------------------------
(* Queues.                                                                 *)

\* shift() takes the first element off and leaves the others.
LEMMA ShiftQueue ==
    ASSUME NEW S, NEW q \in Seq(S), q # <<>>
    PROVE  /\ Head(q) \in S
           /\ Tail(q) \in Seq(S)
           /\ Range(q) = {Head(q)} \cup Range(Tail(q))
           /\ IsInjective(q) => IsInjective(Tail(q)) /\ Head(q) \notin Range(Tail(q))
<1>1. /\ Head(q) \in S /\ Tail(q) \in Seq(S)
      /\ Len(q) \in Nat \ {0} /\ DOMAIN q = 1..Len(q)
      /\ DOMAIN Tail(q) = 1..(Len(q) - 1)
      /\ Head(q) = q[1]
      /\ \A i \in 1..(Len(q) - 1) : Tail(q)[i] = q[i + 1]
  OBVIOUS
<1>2. Range(q) \subseteq {Head(q)} \cup Range(Tail(q))
  <2>1. \A i \in 1..Len(q) : i = 1 \/ i - 1 \in 1..(Len(q) - 1)
    BY <1>1
  <2>2. \A i \in 1..Len(q) : i # 1 => Tail(q)[i - 1] = q[i]
    BY <1>1
  <2>3. \A i \in 1..Len(q) : q[i] \in {Head(q)} \cup Range(Tail(q))
    <3>1. TAKE i \in 1..Len(q)
    <3>2. CASE i = 1
      BY <1>1, <3>2
    <3>3. CASE i # 1
      BY <1>1, <2>1, <2>2, <3>3 DEF Range
    <3>4. QED  BY <3>2, <3>3
  <2>4. QED  BY <1>1, <2>3, Zenon DEF Range
<1>3. {Head(q)} \cup Range(Tail(q)) \subseteq Range(q)
  <2>1. 1 \in 1..Len(q) /\ \A i \in 1..(Len(q) - 1) : i + 1 \in 1..Len(q)
    BY <1>1
  <2>2. QED  BY <1>1, <2>1 DEF Range
<1>4. ASSUME IsInjective(q)
      PROVE  IsInjective(Tail(q)) /\ Head(q) \notin Range(Tail(q))
  <2>1. \A i, j \in 1..Len(q) : q[i] = q[j] => i = j
    BY <1>1, <1>4 DEF IsInjective
  <2>2. \A i \in 1..(Len(q) - 1) : i + 1 \in 1..Len(q) /\ i + 1 # 1
    BY <1>1
  <2>3. \A i, j \in 1..(Len(q) - 1) : Tail(q)[i] = Tail(q)[j] => i = j
    BY <1>1, <2>1, <2>2
  <2>4. IsInjective(Tail(q))
    BY <1>1, <2>3 DEF IsInjective
  <2>5. \A i \in 1..(Len(q) - 1) : Tail(q)[i] # Head(q)
    BY <1>1, <2>1, <2>2
  <2>6. QED  BY <1>1, <2>4, <2>5 DEF Range
<1>5. QED  BY <1>1, <1>2, <1>3, <1>4

\* push() adds one element behind the others.
LEMMA PushQueue ==
    ASSUME NEW S, NEW q \in Seq(S), NEW e \in S
    PROVE  /\ Append(q, e) \in Seq(S)
           /\ Append(q, e) # <<>>
           /\ Range(Append(q, e)) = Range(q) \cup {e}
           /\ IsInjective(q) /\ e \notin Range(q) => IsInjective(Append(q, e))
<1>1. /\ Append(q, e) \in Seq(S) /\ Append(q, e) # <<>>
      /\ Len(q) \in Nat /\ DOMAIN q = 1..Len(q)
      /\ DOMAIN Append(q, e) = 1..(Len(q) + 1)
      /\ Append(q, e)[Len(q) + 1] = e
      /\ \A i \in 1..Len(q) : Append(q, e)[i] = q[i]
  OBVIOUS
<1>2. \A i \in 1..(Len(q) + 1) : i \in 1..Len(q) \/ i = Len(q) + 1
  BY <1>1
<1>3. 1..Len(q) \subseteq 1..(Len(q) + 1) /\ Len(q) + 1 \in 1..(Len(q) + 1)
  BY <1>1
<1>4. Range(Append(q, e)) = Range(q) \cup {e}
  BY <1>1, <1>2, <1>3, Zenon DEF Range
<1>5. ASSUME IsInjective(q), e \notin Range(q)
      PROVE  IsInjective(Append(q, e))
  <2>1. \A i, j \in 1..Len(q) : q[i] = q[j] => i = j
    BY <1>1, <1>5 DEF IsInjective
  <2>2. \A i \in 1..Len(q) : q[i] # e
    BY <1>1, <1>5 DEF Range
  <2>3. \A i, j \in 1..(Len(q) + 1) :
            Append(q, e)[i] = Append(q, e)[j] => i = j
    BY <1>1, <1>2, <2>1, <2>2
  <2>4. QED  BY <1>1, <2>3 DEF IsInjective
<1>6. QED  BY <1>1, <1>4, <1>5

\* What fetch pushes is a call that is not queued yet.
LEMMA PushCaller ==
    ASSUME NEW c \in Callers, queue \in Seq(Callers), IsInjective(queue),
           c \notin Range(queue)
    PROVE  /\ Append(queue, c) \in Seq(Callers)
           /\ Append(queue, c) # <<>>
           /\ Range(Append(queue, c)) = Range(queue) \cup {c}
           /\ IsInjective(Append(queue, c))
BY PushQueue, ZenonT(60)

\* The empty queue.
LEMMA NoQueue ==
    ASSUME NEW S
    PROVE  <<>> \in Seq(S) /\ Range(<<>>) = {} /\ IsInjective(<<>>)
BY DEF Range, IsInjective
-----------------------------------------------------------------------------
(* One lemma per step of the service.                                      *)

WorkerTypeOK ==
    /\ queue \in Seq(Callers)
    /\ isProcessing \in BOOLEAN
    /\ current \in Callers \cup {None}
    /\ phase \in {"off", "task", "sleep"}
    /\ attempt \in Nat
    /\ slept \in Nat

\* TakeNext(q) leaves a consistent worker that holds the items of q.
LEMMA TakeNextKeeps ==
    ASSUME NEW q \in Seq(Callers), IsInjective(q), TakeNext(q)
    PROVE  /\ WorkerTypeOK'
           /\ Range(q) = Range(queue') \cup ({current'} \ {None})
           /\ IsInjective(queue')
           /\ current' \notin Range(queue')
           /\ FlagIsTruthful'
           /\ SleepsAreCounted'
<1>0. None \notin Callers
  BY FetcherAssumption
<1>1. CASE q = <<>>
  <2>1. /\ queue' = <<>> /\ current' = None /\ isProcessing' = FALSE
        /\ phase' = "off" /\ attempt' = 0 /\ slept' = 0
    BY <1>1, Zenon DEF TakeNext
  <2>2. Range(queue') = {} /\ IsInjective(queue') /\ queue' \in Seq(Callers)
    BY <2>1, NoQueue, Zenon
  <2>3. SleepsAreCounted'
    BY <2>1 DEF SleepsAreCounted
  <2>4. QED
    BY <1>1, <2>1, <2>2, <2>3 DEF WorkerTypeOK, FlagIsTruthful
<1>2. CASE q # <<>>
  <2>1. /\ queue' = Tail(q) /\ current' = Head(q) /\ isProcessing' = TRUE
        /\ phase' = "task" /\ attempt' = 1 /\ slept' = 0
    BY <1>2, Zenon DEF TakeNext
  <2>2. /\ current' \in Callers
        /\ queue' \in Seq(Callers)
        /\ Range(q) = {current'} \cup Range(queue')
        /\ IsInjective(queue')
        /\ current' \notin Range(queue')
    BY <1>2, <2>1, ShiftQueue, Zenon
  <2>3. SleepsAreCounted'
    BY <2>1 DEF SleepsAreCounted, MaxRetries, MaxWaitSeconds
  <2>4. current' # None
    BY <1>0, <2>2
  <2>5. WorkerTypeOK' /\ FlagIsTruthful'
    BY <2>1, <2>2, <2>4 DEF WorkerTypeOK, FlagIsTruthful
  <2>6. QED  BY <2>2, <2>3, <2>4, <2>5
<1>3. QED  BY <1>1, <1>2

LEMMA InitIInv == FetcherInit => IInv
<1> SUFFICES ASSUME FetcherInit PROVE IInv
  OBVIOUS
<1>1. Range(queue) = {} /\ IsInjective(queue) /\ queue \in Seq(Callers)
  BY NoQueue, Zenon DEF FetcherInit
<1>2. None \notin Callers
  BY FetcherAssumption
<1>3. FetcherTypeOK /\ CallRecords /\ FlagIsTruthful /\ SleepsAreCounted
  BY <1>1 DEF FetcherInit, FetcherTypeOK, CallRecords, FlagIsTruthful,
              SleepsAreCounted
<1>4. FlightsRegistered
  BY <1>2 DEF FetcherInit, FlightsRegistered, IsOwner
<1>5. CallsAreServed
  BY <1>1, <1>2 DEF FetcherInit, CallsAreServed, IsOwner
<1>6. QED  BY <1>3, <1>4, <1>5 DEF IInv

\* A call that finds the key registered.
LEMMA JoinKeeps ==
    ASSUME IInv, NEW c \in Callers, NEW k \in Keys, Fetch(c, k), Join(c, k)
    PROVE  IInv'
<1>0. None \notin Callers /\ None \notin Keys /\ None \notin Outcomes
  BY FetcherAssumption
<1> USE DEF Fetch, Join, workerVars, IInv, IsOwner
<1>1. /\ inFlight[k] \in Callers /\ inFlight[k] # c
      /\ awaits[inFlight[k]] = inFlight[k] /\ key[inFlight[k]] = k
  <2>1. inFlight[k] \in Callers /\ awaits[inFlight[k]] = inFlight[k]
        /\ key[inFlight[k]] = k
    BY DEF FetcherTypeOK, FlightsRegistered
  <2>2. awaits[c] = None
    BY DEF CallRecords
  <2>3. QED  BY <1>0, <2>1, <2>2
<1>2. FetcherTypeOK'
  BY <1>1 DEF FetcherTypeOK
<1>3. CallRecords'
  BY <1>0, <1>1 DEF CallRecords, FetcherTypeOK
<1>4. FlightsRegistered'
  BY <1>0, <1>1 DEF FlightsRegistered, FetcherTypeOK, CallRecords
<1>5. CallsAreServed'
  <2>1. \A d \in Callers : stage'[d] = "awaiting" =>
            /\ awaits'[d] # None /\ awaits'[awaits'[d]] = awaits'[d]
            /\ key'[awaits'[d]] = key'[d]
    BY <1>0, <1>1 DEF CallsAreServed, FetcherTypeOK, CallRecords
  <2>2. \A d \in Callers : awaits'[d] = d /\ stage'[d] = "awaiting"
                            <=> awaits[d] = d /\ stage[d] = "awaiting"
    BY <1>0, <1>1 DEF FetcherTypeOK, CallRecords
  <2>3. QED  BY <2>1, <2>2 DEF CallsAreServed
<1>6. FlagIsTruthful' /\ SleepsAreCounted'
  BY DEF FlagIsTruthful, SleepsAreCounted
<1>7. QED  BY <1>2, <1>3, <1>4, <1>5, <1>6

\* A call that opens a flight.
LEMMA EnqueueKeeps ==
    ASSUME IInv, NEW c \in Callers, NEW k \in Keys, Fetch(c, k), Enqueue(c, k)
    PROVE  IInv'
<1>0. None \notin Callers /\ None \notin Keys /\ None \notin Outcomes
  BY FetcherAssumption
<1> USE DEF IInv, IsOwner
<1>1. /\ stage[c] = "idle" /\ inFlight[k] = None
      /\ stage' = [stage EXCEPT ![c] = "awaiting"]
      /\ key' = [key EXCEPT ![c] = k]
      /\ out' = out
      /\ awaits' = [awaits EXCEPT ![c] = c]
      /\ inFlight' = [inFlight EXCEPT ![k] = c]
  BY <1>0 DEF Fetch, Enqueue, Join
<1>2. awaits[c] = None /\ key[c] = None /\ out[c] = None
  BY <1>1 DEF CallRecords, FetcherTypeOK
<1>3. /\ queue \in Seq(Callers) /\ IsInjective(queue)
      /\ c \notin Range(queue) /\ c # current
  BY <1>0, <1>1 DEF CallsAreServed, FetcherTypeOK
<1>4. /\ WorkerTypeOK'
      /\ Range(queue) \cup ({current} \ {None}) \cup {c}
             = Range(queue') \cup ({current'} \ {None})
      /\ IsInjective(queue')
      /\ current' \notin Range(queue')
      /\ FlagIsTruthful'
      /\ SleepsAreCounted'
  <2>1. /\ Append(queue, c) \in Seq(Callers) /\ Append(queue, c) # <<>>
        /\ Range(Append(queue, c)) = Range(queue) \cup {c}
        /\ IsInjective(Append(queue, c))
    BY <1>3, PushCaller
  <2>2. CASE isProcessing
    <3>1. /\ queue' = Append(queue, c)
          /\ UNCHANGED <<isProcessing, current, phase, attempt, slept>>
      BY <2>2 DEF Enqueue
    <3>2. QED  BY <1>3, <2>1, <2>2, <3>1 DEF WorkerTypeOK, FetcherTypeOK,
                     FlagIsTruthful, SleepsAreCounted, CallsAreServed
  <2>3. CASE ~isProcessing
    <3>1. TakeNext(Append(queue, c))
      BY <1>0, <1>1, <2>3 DEF Enqueue
    <3>2. current = None
      BY <2>3 DEF FlagIsTruthful
    <3>3. QED  BY <2>1, <3>1, <3>2, TakeNextKeeps
  <2>4. QED  BY <2>2, <2>3
<1>5. FetcherTypeOK'
  BY <1>1, <1>4 DEF FetcherTypeOK, WorkerTypeOK
<1>6. CallRecords'
  BY <1>0, <1>1, <1>2 DEF CallRecords, FetcherTypeOK
<1>7. FlightsRegistered'
  <2>1. \A d \in Callers : awaits'[d] = d =>
            stage'[d] # "idle" /\ key'[d] # None /\ inFlight'[key'[d]] = d
    BY <1>0, <1>1 DEF FlightsRegistered, FetcherTypeOK
  <2>2. \A l \in Keys : inFlight'[l] # None =>
            awaits'[inFlight'[l]] = inFlight'[l] /\ key'[inFlight'[l]] = l
    BY <1>0, <1>1, <1>2 DEF FlightsRegistered, FetcherTypeOK
  <2>3. QED  BY <2>1, <2>2 DEF FlightsRegistered
<1>8. CallsAreServed'
  <2>1. \A d \in Callers : stage'[d] = "awaiting" =>
            /\ awaits'[d] # None /\ awaits'[awaits'[d]] = awaits'[d]
            /\ key'[awaits'[d]] = key'[d]
    BY <1>0, <1>1, <1>2 DEF CallsAreServed, FetcherTypeOK
  <2>2. {d \in Callers : awaits'[d] = d /\ stage'[d] = "awaiting"}
          = {d \in Callers : awaits[d] = d /\ stage[d] = "awaiting"} \cup {c}
    BY <1>1 DEF FetcherTypeOK
  <2>3. QED  BY <1>4, <2>1, <2>2 DEF CallsAreServed
<1>9. QED  BY <1>4, <1>5, <1>6, <1>7, <1>8

\* The worker settles the promise of its item.
LEMMA SettleKeeps ==
    ASSUME IInv, NEW o \in Outcomes, Settle(o)
    PROVE  IInv'
<1>0. None \notin Callers /\ None \notin Keys /\ None \notin Outcomes
  BY FetcherAssumption
<1> USE DEF IInv, IsOwner
<1>1. /\ phase = "task"
      /\ stage' = [stage EXCEPT ![current] = "settled"]
      /\ out' = [out EXCEPT ![current] = o]
      /\ TakeNext(queue)
      /\ UNCHANGED <<inFlight, key, awaits>>
  BY DEF Settle
<1>2. /\ current \in Callers /\ current # None
      /\ awaits[current] = current /\ stage[current] = "awaiting"
  BY <1>0, <1>1 DEF FlagIsTruthful, CallsAreServed, FetcherTypeOK
<1>3. /\ WorkerTypeOK'
      /\ Range(queue) = Range(queue') \cup ({current'} \ {None})
      /\ IsInjective(queue')
      /\ current' \notin Range(queue')
      /\ FlagIsTruthful'
      /\ SleepsAreCounted'
  BY <1>1, TakeNextKeeps DEF CallsAreServed, FetcherTypeOK
<1>4. FetcherTypeOK'
  BY <1>1, <1>2, <1>3 DEF FetcherTypeOK, WorkerTypeOK
<1>5. CallRecords'
  BY <1>0, <1>1, <1>2 DEF CallRecords, FetcherTypeOK
<1>6. FlightsRegistered'
  BY <1>0, <1>1, <1>2 DEF FlightsRegistered, FetcherTypeOK
<1>7. CallsAreServed'
  <2>1. \A d \in Callers : stage'[d] = "awaiting" =>
            /\ awaits'[d] # None /\ awaits'[awaits'[d]] = awaits'[d]
            /\ key'[awaits'[d]] = key'[d]
    BY <1>1, <1>2 DEF CallsAreServed, FetcherTypeOK
  <2>2. {d \in Callers : awaits'[d] = d /\ stage'[d] = "awaiting"}
          = {d \in Callers : awaits[d] = d /\ stage[d] = "awaiting"} \ {current}
    BY <1>1, <1>2 DEF FetcherTypeOK
  <2>3. current \notin Range(queue)
    BY DEF CallsAreServed
  <2>4. QED  BY <1>2, <1>3, <2>1, <2>2, <2>3 DEF CallsAreServed
<1>8. QED  BY <1>3, <1>4, <1>5, <1>6, <1>7

\* A step of the retry loop that keeps the item with the worker.
LEMMA RetryKeeps ==
    ASSUME IInv,
           UNCHANGED <<flightVars, queue, isProcessing, current>>,
           phase' \in {"task", "sleep"}, phase # "off",
           attempt' \in Nat, slept' \in Nat, SleepsAreCounted'
    PROVE  IInv'
<1> USE DEF IInv, flightVars
<1>1. FetcherTypeOK'
  BY DEF FetcherTypeOK
<1>2. CallRecords'
  BY DEF CallRecords
<1>3. FlightsRegistered'
  BY DEF FlightsRegistered, IsOwner
<1>4. CallsAreServed'
  BY DEF CallsAreServed, IsOwner
<1>5. FlagIsTruthful'
  BY DEF FlagIsTruthful
<1>6. QED  BY <1>1, <1>2, <1>3, <1>4, <1>5

LEMMA TaskLimitedKeeps ==
    ASSUME IInv, NEW h \in WaitHints, TaskLimited(h)
    PROVE  IInv'
<1>1. CASE CanRetry(attempt, h) /\ phase' = "sleep"
  <2>1. /\ phase = "task" /\ slept' = slept + WaitSeconds(attempt, h)
        /\ UNCHANGED <<flightVars, queue, isProcessing, current, attempt>>
    BY <1>1 DEF TaskLimited, Settle, TakeNext
  <2>2. h \in Nat /\ attempt \in Nat /\ slept \in Nat
    BY FetcherAssumption DEF IInv, FetcherTypeOK
  <2>3. WaitSeconds(attempt, h) \in 0..MaxWaitSeconds
    BY <1>1, <2>2 DEF CanRetry, WaitSeconds, MaxWaitSeconds
  <2>4. attempt \in 1..MaxRetries /\ slept <= (attempt - 1) * MaxWaitSeconds
    BY <1>1, <2>1, <2>2
    DEF IInv, SleepsAreCounted, CanRetry, MaxRetries, MaxWaitSeconds
  <2>5. slept' \in Nat /\ SleepsAreCounted'
    BY <1>1, <2>1, <2>2, <2>3, <2>4 DEF SleepsAreCounted, MaxWaitSeconds, MaxRetries
  <2>6. QED  BY <1>1, <2>1, <2>2, <2>5, RetryKeeps
<1>2. CASE Settle(RateLimited)
  BY <1>2, SettleKeeps DEF Outcomes
<1>3. QED  BY <1>1, <1>2 DEF TaskLimited

LEMMA WakeKeeps ==
    ASSUME IInv, Wake
    PROVE  IInv'
<1>1. /\ phase = "sleep" /\ phase' = "task" /\ attempt' = attempt + 1
      /\ UNCHANGED <<flightVars, queue, isProcessing, current, slept>>
  BY DEF Wake
<1>2. attempt \in Nat /\ slept \in Nat
  BY DEF IInv, FetcherTypeOK
<1>3. SleepsAreCounted'
  BY <1>1, <1>2 DEF IInv, SleepsAreCounted, MaxRetries, MaxWaitSeconds
<1>4. QED  BY <1>1, <1>2, <1>3, RetryKeeps

\* The owner of a flight closes it.
LEMMA OwnerReturnsKeeps ==
    ASSUME IInv, NEW c \in Callers, OwnerReturns(c)
    PROVE  IInv'
<1>0. None \notin Callers /\ None \notin Keys /\ None \notin Outcomes
  BY FetcherAssumption
<1> USE DEF IInv, IsOwner, OwnerReturns, JoinersOf, workerVars
<1>1. /\ key[c] \in Keys /\ inFlight[key[c]] = c /\ out[c] \in Outcomes
  BY DEF CallRecords, FlightsRegistered, FetcherTypeOK
<1>2. \A d \in Callers : awaits[d] = c /\ d # c =>
            stage[d] = "awaiting" /\ key[d] = key[c]
  BY <1>0, <1>1 DEF CallRecords, CallsAreServed, FetcherTypeOK
<1>3. FetcherTypeOK'
  BY <1>1 DEF FetcherTypeOK
<1>4. CallRecords'
  BY <1>0, <1>1, <1>2 DEF CallRecords, FetcherTypeOK
<1>5. FlightsRegistered'
  BY <1>0, <1>1 DEF FlightsRegistered, FetcherTypeOK
<1>6. CallsAreServed'
  <2>1. \A d \in Callers : stage'[d] = "awaiting" =>
            /\ stage[d] = "awaiting" /\ awaits[d] # c /\ awaits'[d] = awaits[d]
            /\ awaits[d] \in Callers /\ d # c
            /\ key[d] = key'[d]
    BY <1>0 DEF CallsAreServed, FetcherTypeOK
  <2>2. \A d \in Callers : stage'[d] = "awaiting" =>
            /\ awaits'[d] # None /\ awaits'[awaits'[d]] = awaits'[d]
            /\ key'[awaits'[d]] = key'[d]
    BY <1>0, <2>1 DEF CallsAreServed, FetcherTypeOK
  <2>3. {d \in Callers : awaits'[d] = d /\ stage'[d] = "awaiting"}
          = {d \in Callers : awaits[d] = d /\ stage[d] = "awaiting"}
    BY <1>0 DEF FetcherTypeOK
  <2>4. QED  BY <2>2, <2>3 DEF CallsAreServed
<1>7. FlagIsTruthful' /\ SleepsAreCounted'
  BY DEF FlagIsTruthful, SleepsAreCounted
<1>8. QED  BY <1>3, <1>4, <1>5, <1>6, <1>7

LEMMA JoinerReturnsKeeps ==
    ASSUME IInv, NEW c \in Callers, JoinerReturns(c)
    PROVE  IInv'
<1>0. None \notin Callers /\ None \notin Keys /\ None \notin Outcomes
  BY FetcherAssumption
<1> USE DEF IInv, IsOwner, JoinerReturns, workerVars
<1>1. awaits[c] = None
  BY <1>0 DEF CallRecords
<1>2. FetcherTypeOK'
  BY DEF FetcherTypeOK
<1>3. CallRecords'
  BY <1>0, <1>1 DEF CallRecords, FetcherTypeOK
<1>4. FlightsRegistered'
  BY <1>0, <1>1 DEF FlightsRegistered, FetcherTypeOK
<1>5. CallsAreServed'
  <2>1. \A d \in Callers : stage'[d] = "awaiting" =>
            /\ awaits'[d] # None /\ awaits'[awaits'[d]] = awaits'[d]
            /\ key'[awaits'[d]] = key'[d]
    BY <1>0, <1>1 DEF CallsAreServed, FetcherTypeOK
  <2>2. {d \in Callers : awaits'[d] = d /\ stage'[d] = "awaiting"}
          = {d \in Callers : awaits[d] = d /\ stage[d] = "awaiting"}
    BY <1>0, <1>1 DEF FetcherTypeOK
  <2>3. QED  BY <2>1, <2>2 DEF CallsAreServed
<1>6. FlagIsTruthful' /\ SleepsAreCounted'
  BY DEF FlagIsTruthful, SleepsAreCounted
<1>7. QED  BY <1>2, <1>3, <1>4, <1>5, <1>6
-----------------------------------------------------------------------------
(* What a step does to the calls and to the running task.                  *)

LEMMA NoNames == None \notin Callers /\ None \notin Keys /\ None \notin Outcomes
BY FetcherAssumption

\* The call whose task runs waits for it.
LEMMA RunningTask ==
    ASSUME IInv, phase = "task"
    PROVE  /\ current \in Callers /\ stage[current] = "awaiting"
           /\ key[current] \in Keys /\ out[current] = None
<1>1. current \in Callers /\ stage[current] = "awaiting"
  BY NoNames DEF IInv, FlagIsTruthful, CallsAreServed, FetcherTypeOK
<1>2. QED  BY <1>1 DEF IInv, CallRecords, FetcherTypeOK

\* A call of fetch brings no outcome and does not disturb the running task.
LEMMA FetchEffect ==
    ASSUME IInv, NEW c \in Callers, NEW k \in Keys, Fetch(c, k)
    PROVE  /\ stage[c] = "idle" /\ out[c] = None /\ UNCHANGED out
           /\ stage' = [stage EXCEPT ![c] = "awaiting"]
           /\ key' = [key EXCEPT ![c] = k]
           /\ phase = "task" => /\ phase' = "task" /\ current' = current
                                /\ current # c
<1>1. /\ stage[c] = "idle" /\ UNCHANGED out
      /\ stage' = [stage EXCEPT ![c] = "awaiting"]
      /\ key' = [key EXCEPT ![c] = k]
  BY DEF Fetch
<1>2. out[c] = None
  BY <1>1 DEF IInv, CallRecords
<1>3. ASSUME phase = "task"
      PROVE  phase' = "task" /\ current' = current /\ current # c
  <2>1. isProcessing /\ current # c
    BY <1>1, <1>3, RunningTask DEF IInv, FlagIsTruthful
  <2>2. QED  BY <1>3, <2>1 DEF Fetch, Join, Enqueue, workerVars
<1>4. QED  BY <1>1, <1>2, <1>3

\* A call that returns hands its outcome to the calls that joined it, of the
\* same key, and touches nobody else.
LEMMA ReturnEffect ==
    ASSUME IInv, NEW c \in Callers, Return(c)
    PROVE  /\ stage[c] = "settled" /\ stage'[c] = "idle" /\ out'[c] = None
           /\ UNCHANGED workerVars
           /\ \A d \in Callers : d # c =>
                /\ key'[d] = key[d]
                /\ stage'[d] = "idle" <=> stage[d] = "idle"
                /\ out'[d] # out[d] => out'[d] = out[c] /\ key[d] = key[c]
           /\ phase = "task" => current # c
<1>0. None \notin Callers
  BY NoNames
<1> USE DEF IInv, IsOwner
<1>1. phase = "task" => current # c
  BY RunningTask DEF Return, OwnerReturns, JoinerReturns
<1>2. CASE OwnerReturns(c)
  <2>1. \A d \in Callers : awaits[d] = c /\ d # c => stage[d] = "awaiting" /\ key[d] = key[c]
    BY <1>0, <1>2 DEF CallRecords, CallsAreServed, OwnerReturns, FetcherTypeOK
  <2>2. QED  BY <1>1, <1>2, <2>1 DEF OwnerReturns, JoinersOf, FetcherTypeOK
<1>3. CASE JoinerReturns(c)
  BY <1>1, <1>3 DEF JoinerReturns, FetcherTypeOK
<1>4. QED  BY <1>2, <1>3 DEF Return

\* The worker gives the outcome to the call whose task it ran.
LEMMA SettleEffect ==
    ASSUME IInv, NEW o \in Outcomes, Settle(o)
    PROVE  /\ phase = "task" /\ UNCHANGED key
           /\ out' = [out EXCEPT ![current] = o]
           /\ stage' = [stage EXCEPT ![current] = "settled"]
BY DEF Settle
-----------------------------------------------------------------------------
(* The theorems.                                                           *)

LEMMA StepIInv == IInv /\ [FetcherNext]_fetcherVars => IInv'
<1> SUFFICES ASSUME IInv, [FetcherNext]_fetcherVars PROVE IInv'
  OBVIOUS
<1>1. CASE \E c \in Callers, k \in Keys : Fetch(c, k)
  BY <1>1, JoinKeeps, EnqueueKeeps DEF Fetch
<1>2. CASE \E c \in Callers : Return(c)
  BY <1>2, OwnerReturnsKeeps, JoinerReturnsKeeps DEF Return
<1>3. CASE TaskSettles
  BY <1>3, SettleKeeps DEF TaskSettles, Outcomes
<1>4. CASE TaskHitsLimit
  BY <1>4, TaskLimitedKeeps DEF TaskHitsLimit
<1>5. CASE Wake
  BY <1>5, WakeKeeps
<1>6. CASE UNCHANGED fetcherVars
  BY <1>6 DEF fetcherVars, IInv, FetcherTypeOK, CallRecords, FlightsRegistered,
              CallsAreServed, FlagIsTruthful, SleepsAreCounted, IsOwner
<1>7. QED  BY <1>1, <1>2, <1>3, <1>4, <1>5, <1>6 DEF FetcherNext

\* The invariant is inductive, whatever the constants.
THEOREM Invariance == FetcherSpec => []IInv
BY InitIInv, StepIInv, PTL DEF FetcherSpec

\* Every variable keeps its type.
THEOREM TypeCorrect == FetcherSpec => []FetcherTypeOK
BY Invariance, PTL DEF IInv

\* fetch never deletes, or leaves behind, the entry of another flight.
THEOREM FlightsStayRegistered == FetcherSpec => []FlightsRegistered
BY Invariance, PTL DEF IInv

\* processQueue neither loses an item nor runs it twice.
THEOREM NoCallIsLost == FetcherSpec => []CallsAreServed
BY Invariance, PTL DEF IInv

\* The queue and the worker hold at most one item of a key: whoever has an item
\* is the call that inFlight holds for its key.
THEOREM ItemsAreOnePerKey == FetcherSpec => []OneItemPerKey
<1>1. IInv => OneItemPerKey
  <2> SUFFICES ASSUME IInv,
                      NEW c \in Range(queue) \cup ({current} \ {None}),
                      NEW d \in Range(queue) \cup ({current} \ {None}),
                      key[c] = key[d]
               PROVE  c = d
    BY DEF OneItemPerKey
  <2>1. c \in Callers /\ d \in Callers /\ IsOwner(c) /\ IsOwner(d)
    BY DEF IInv, CallsAreServed
  <2>2. inFlight[key[c]] = c /\ inFlight[key[d]] = d
    BY <2>1 DEF IInv, FlightsRegistered
  <2>3. QED  BY <2>2
<1>2. QED  BY <1>1, Invariance, PTL

\* isProcessing is set exactly while the worker holds an item.
THEOREM FlagStaysTruthful == FetcherSpec => []FlagIsTruthful
BY Invariance, PTL DEF IInv

\* One item holds the worker for at most three sleeps of 25 seconds.
THEOREM RetriesAreBounded == FetcherSpec => []RetryBudget
<1>1. IInv => RetryBudget
  <2> SUFFICES ASSUME IInv PROVE RetryBudget
    OBVIOUS
  <2>1. slept \in Nat /\ attempt \in Nat /\ phase \in {"off", "task", "sleep"}
    BY DEF IInv, FetcherTypeOK
  <2>2. QED
    BY <2>1 DEF IInv, SleepsAreCounted, RetryBudget, MaxRetries, MaxWaitSeconds
<1>2. QED  BY <1>1, Invariance, PTL
-----------------------------------------------------------------------------
(* FetcherService implements SingleFlight: its steps map to steps of the   *)
(* abstract specification or to stutters (fairness is left to TLC).        *)

Aboard == [k \in Keys |-> {c \in Callers : key[c] = k /\ awaits[c] # None}]
Landed == [k \in Keys |-> IF inFlight[k] = None THEN None ELSE out[inFlight[k]]]
Ticket == [c \in Callers |-> IF IsOwner(c) THEN None ELSE out[c]]

LEMMA BoardStep ==
    ASSUME IInv, NEW c \in Callers, NEW k \in Keys, Fetch(c, k)
    PROVE  Coalesced!Board(c, k)
<1>0. None \notin Callers /\ None \notin Keys
  BY FetcherAssumption
<1> USE DEF IInv, IsOwner
<1>1. /\ stage[c] = "idle" /\ awaits[c] = None /\ key[c] = None /\ out[c] = None
      /\ key' = [key EXCEPT ![c] = k] /\ out' = out
  BY DEF Fetch, CallRecords, FetcherTypeOK
<1>2. /\ \E p \in Callers : awaits' = [awaits EXCEPT ![c] = p]
      /\ \/ inFlight' = inFlight /\ awaits' = [awaits EXCEPT ![c] = inFlight[k]]
            /\ inFlight[k] # None
         \/ inFlight[k] = None /\ inFlight' = [inFlight EXCEPT ![k] = c]
            /\ awaits' = [awaits EXCEPT ![c] = c]
  BY DEF Fetch, Join, Enqueue, FetcherTypeOK
<1>3. Coalesced!Free(c)
  BY <1>0, <1>1 DEF Coalesced!Free
<1>4. Aboard' = [Aboard EXCEPT ![k] = @ \cup {c}]
  <2>1. awaits'[c] # None /\ key'[c] = k /\ key[c] # k
    BY <1>0, <1>1, <1>2 DEF FetcherTypeOK
  <2>2. \A d \in Callers \ {c} : awaits'[d] = awaits[d] /\ key'[d] = key[d]
    BY <1>1, <1>2 DEF FetcherTypeOK
  <2>3. \A l \in Keys : {d \in Callers : key'[d] = l /\ awaits'[d] # None}
            = {d \in Callers : key[d] = l /\ awaits[d] # None}
                \cup (IF l = k THEN {c} ELSE {})
    BY <1>1, <2>1, <2>2
  <2>4. \A l \in Keys : Aboard'[l] = IF l = k THEN Aboard[l] \cup {c} ELSE Aboard[l]
    BY <2>3 DEF Aboard
  <2>5. Aboard' = [l \in Keys |-> Aboard'[l]]
    BY DEF Aboard
  <2>6. DOMAIN Aboard = Keys
    BY DEF Aboard
  <2>7. QED  BY <2>4, <2>5, <2>6
<1>5. Landed' = Landed
  BY <1>0, <1>1, <1>2 DEF Landed, FetcherTypeOK
<1>6. Ticket' = Ticket
  <2>1. \A d \in Callers : d # c => awaits'[d] = awaits[d]
    BY <1>2 DEF FetcherTypeOK
  <2>2. QED  BY <1>0, <1>1, <2>1 DEF Ticket, FetcherTypeOK
<1>7. QED  BY <1>3, <1>4, <1>5, <1>6 DEF Coalesced!Board, Aboard, Landed, Ticket, IsOwner

LEMMA LandStep ==
    ASSUME IInv, NEW o \in Outcomes, Settle(o)
    PROVE  \E k \in Keys : Coalesced!Land(k, o)
<1>0. None \notin Callers /\ None \notin Keys /\ None \notin Outcomes
  BY FetcherAssumption
<1> USE DEF IInv, IsOwner
<1>1. /\ current \in Callers /\ awaits[current] = current
      /\ stage[current] = "awaiting"
  BY <1>0 DEF Settle, FlagIsTruthful, CallsAreServed, FetcherTypeOK
<1>2. /\ key[current] \in Keys /\ inFlight[key[current]] = current
      /\ out[current] = None
  BY <1>1 DEF CallRecords, FlightsRegistered, FetcherTypeOK
<1>3. /\ out' = [out EXCEPT ![current] = o]
      /\ UNCHANGED <<inFlight, key, awaits>>
  BY DEF Settle
<1>4. \A k \in Keys : inFlight[k] = current => k = key[current]
  BY <1>0, <1>1 DEF FlightsRegistered
<1>5. Landed' = [Landed EXCEPT ![key[current]] = o]
  BY <1>0, <1>1, <1>2, <1>3, <1>4 DEF Landed, FetcherTypeOK
<1>6. /\ Landed[key[current]] = None /\ Aboard[key[current]] # {}
  BY <1>0, <1>1, <1>2 DEF Landed, Aboard
<1>7. /\ Aboard' = Aboard /\ Ticket' = Ticket
  BY <1>1, <1>3 DEF Aboard, Ticket, FetcherTypeOK
<1>8. QED
  BY <1>2, <1>5, <1>6, <1>7 DEF Coalesced!Land, Aboard, Landed, Ticket, IsOwner

LEMMA DisembarkStep ==
    ASSUME IInv, NEW c \in Callers, OwnerReturns(c), NEW k \in Keys, k = key[c]
    PROVE  Coalesced!Disembark(c, k)
<1>0. None \notin Callers /\ None \notin Keys /\ None \notin Outcomes
  BY FetcherAssumption
<1> USE DEF IInv, IsOwner, OwnerReturns, JoinersOf
<1>1. /\ key[c] = k /\ inFlight[k] = c
      /\ out[c] \in Outcomes /\ out[c] # None
  BY DEF CallRecords, FlightsRegistered, FetcherTypeOK
<1>2. \A d \in Callers : awaits[d] = c => key[d] = k
  BY <1>0 DEF CallRecords, CallsAreServed, FetcherTypeOK
<1>3. \A d \in Callers : awaits[d] # None /\ key[d] = k => awaits[d] = c
  BY <1>0, <1>1 DEF CallRecords, FlightsRegistered, CallsAreServed, FetcherTypeOK
<1>4. /\ c \in Aboard[k] /\ Landed[k] # None
  BY <1>0, <1>1 DEF Aboard, Landed
<1>5. Aboard' = [Aboard EXCEPT ![k] = {}]
  <2>1. \A d \in Callers : awaits'[d] # None
                <=> awaits[d] # None /\ key[d] # k
    BY <1>0, <1>1, <1>2, <1>3 DEF FetcherTypeOK
  <2>2. \A d \in Callers : awaits'[d] # None => key'[d] = key[d]
    BY <1>0 DEF FetcherTypeOK
  <2>3. \A l \in Keys : {d \in Callers : key'[d] = l /\ awaits'[d] # None}
            = IF l = k THEN {} ELSE {d \in Callers : key[d] = l /\ awaits[d] # None}
    BY <2>1, <2>2
  <2>4. \A l \in Keys : Aboard'[l] = IF l = k THEN {} ELSE Aboard[l]
    BY <2>3 DEF Aboard
  <2>5. Aboard' = [l \in Keys |-> Aboard'[l]]
    BY DEF Aboard
  <2>6. DOMAIN Aboard = Keys
    BY DEF Aboard
  <2>7. QED  BY <2>4, <2>5, <2>6
<1>6. Landed' = [Landed EXCEPT ![k] = None]
  <2>1. \A l \in Keys : l # k /\ inFlight[l] # None =>
            /\ inFlight[l] # c
            /\ awaits[inFlight[l]] = inFlight[l]
            /\ inFlight[l] \in Callers
            /\ out'[inFlight[l]] = out[inFlight[l]]
    BY <1>0, <1>1 DEF FlightsRegistered, FetcherTypeOK
  <2>2. QED  BY <1>0, <1>1, <2>1 DEF Landed, FetcherTypeOK
<1>7. Ticket' = [d \in Callers |->
                    IF d \in Aboard[k] \ {c} THEN Landed[k] ELSE Ticket[d]]
  <2>1. \A d \in Callers : d \in Aboard[k] \ {c} <=> awaits[d] = c /\ d # c
    BY <1>0, <1>1, <1>2, <1>3 DEF Aboard
  <2>2. Landed[k] = out[c]
    BY <1>0, <1>1 DEF Landed
  <2>3. \A d \in Callers : Ticket'[d] =
            IF awaits[d] = c /\ d # c THEN out[c] ELSE Ticket[d]
    BY <1>0, <1>1 DEF Ticket, FetcherTypeOK
  <2>4. QED  BY <2>1, <2>2, <2>3 DEF Ticket
<1>8. QED  BY <1>4, <1>5, <1>6, <1>7, Zenon
           DEF Coalesced!Disembark, Aboard, Landed, Ticket, IsOwner

LEMMA LeaveStep ==
    ASSUME IInv, NEW c \in Callers, JoinerReturns(c)
    PROVE  Coalesced!Leave(c)
<1>0. None \notin Callers /\ None \notin Keys /\ None \notin Outcomes
  BY FetcherAssumption
<1> USE DEF IInv, IsOwner, JoinerReturns
<1>1. awaits[c] = None /\ out[c] # None
  BY <1>0 DEF CallRecords
<1>2. /\ Aboard' = Aboard /\ Landed' = Landed
  <2>1. \A k \in Keys : inFlight[k] # c
    BY <1>0, <1>1 DEF FlightsRegistered
  <2>2. QED  BY <1>0, <1>1, <2>1 DEF Aboard, Landed, FetcherTypeOK
<1>3. Ticket[c] # None /\ Ticket' = [Ticket EXCEPT ![c] = None]
  BY <1>0, <1>1 DEF Ticket, FetcherTypeOK
<1>4. QED  BY <1>2, <1>3 DEF Coalesced!Leave, Aboard, Landed, Ticket, IsOwner

\* Overlapping calls for one key share one flight: whatever the worker does
\* behind it, the service steps as SingleFlight allows.
THEOREM SharesFlights == FetcherSpec => Coalesced!Safe
<1>1. FetcherInit => Coalesced!Init
  BY FetcherAssumption DEF FetcherInit, Coalesced!Init, IsOwner
<1>2. IInv /\ [FetcherNext]_fetcherVars => [Coalesced!Next]_(Coalesced!vars)
  <2> SUFFICES ASSUME IInv, [FetcherNext]_fetcherVars
               PROVE  [Coalesced!Next]_(Coalesced!vars)
    OBVIOUS
  <2>1. CASE \E c \in Callers, k \in Keys : Fetch(c, k)
    BY <2>1, BoardStep DEF Coalesced!Next
  <2>2. CASE \E c \in Callers : Return(c)
    <3>1. PICK c \in Callers : Return(c)
      BY <2>2
    <3>2. CASE OwnerReturns(c)
      <4>1. key[c] \in Keys
        BY <3>2 DEF IInv, CallRecords, OwnerReturns
      <4>2. PICK k \in Keys : k = key[c]
        BY <4>1
      <4>3. Coalesced!Disembark(c, k)
        BY <3>2, <4>2, DisembarkStep
      <4>4. QED  BY <4>3 DEF Coalesced!Next
    <3>3. CASE JoinerReturns(c)
      BY <3>3, LeaveStep DEF Coalesced!Next
    <3>4. QED  BY <3>1, <3>2, <3>3 DEF Return
  <2>3. ASSUME NEW o \in Outcomes, Settle(o)
        PROVE  Coalesced!Next
    BY <2>3, LandStep DEF Coalesced!Next, Coalesced!Land, Outcomes
  <2>4. ASSUME UNCHANGED flightVars
        PROVE  UNCHANGED Coalesced!vars
    BY <2>4 DEF flightVars, Coalesced!vars, IsOwner
  <2>5. CASE TaskSettles
    BY <2>3, <2>5 DEF TaskSettles, Outcomes
  <2>6. CASE TaskHitsLimit
    BY <2>3, <2>4, <2>6 DEF TaskHitsLimit, TaskLimited, Outcomes
  <2>7. CASE Wake
    BY <2>4, <2>7 DEF Wake
  <2>8. CASE UNCHANGED fetcherVars
    BY <2>4, <2>8 DEF fetcherVars, flightVars
  <2>9. QED  BY <2>1, <2>2, <2>5, <2>6, <2>7, <2>8 DEF FetcherNext
<1>3. QED  BY <1>1, <1>2, Invariance, PTL DEF FetcherSpec, Coalesced!Safe
=============================================================================
