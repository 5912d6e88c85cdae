---------------------------- MODULE LifecycleProofs ----------------------------
(***************************************************************************)
(* Theorems about Lifecycle, for every set of requests and crons, every    *)
(* agenda and every finite set of keys.  The crons and the requests drive  *)
(* the queue only as FetcherSpec allows; what is added to its invariant is *)
(* where a request is while its call is under way, how far app.close() is   *)
(* when the server listens, has stopped or the process has exited, and how  *)
(* many tasks can still end before a call's own.                           *)
(***************************************************************************)
EXTENDS Lifecycle, FetcherProofs, FiniteSetTheorems

N == Cardinality(Keys)

\* A request is in fetch exactly while its call is.
RequestsInFlight == \A r \in Requests : at[r] = "fetching" <=> stage[r] # "idle"

NobodyIsHere == \A r \in Requests : at[r] = "away"

\* There is one call of app.close().  Until a hook fails or the server is closed
\* the process listens; from then on nobody new comes, and the call settles when
\* nobody is left.
ShutdownInOrder ==
    /\ close = <<>> \/ \E s \in CloseStages \ {"notRunning"} : close = <<s>>
    /\ app = "listening" =>
            close = <<>> \/ \E s \in {"hooks", "hookFailed"} : close = <<s>>
    /\ app = "stopped" =>
            \/ close = <<"draining">>
            \/ \E s \in {"resolved", "lateHookFailed"} : close = <<s>> /\ NobodyIsHere
    /\ app = "exited" => close = <<"hookFailed">> \/ NobodyIsHere

\* Whoever waits for the i-th item of the queue has seen at most N - (i + 1)
\* tasks end: the worker's, those before it and its own are still to come.
LineIsShort ==
    /\ WaitIsBounded
    /\ \A c \in Callers : stage[c] = "awaiting" =>
            /\ awaits[c] = current => waited[c] + 1 <= N
            /\ \A i \in 1..Len(queue) :
                    awaits[c] = queue[i] => waited[c] + i + 1 <= N

LifeInv == TypeOK /\ IInv /\ RequestsInFlight /\ ShutdownInOrder /\ LineIsShort
-----------------------------------------------------------------------------
(* The queue.                                                              *)

\* There is one item per key.
LEMMA OneItemPerKeyInv == IInv => OneItemPerKey
<1> SUFFICES ASSUME IInv,
                    NEW c \in Range(queue) \cup ({current} \ {None}),
                    NEW d \in Range(queue) \cup ({current} \ {None}),
                    key[c] = key[d]
             PROVE  c = d
  BY DEF OneItemPerKey
<1>1. c \in Callers /\ d \in Callers /\ IsOwner(c) /\ IsOwner(d)
  BY DEF IInv, CallsAreServed
<1>2. inFlight[key[c]] = c /\ inFlight[key[d]] = d
  BY <1>1 DEF IInv, FlightsRegistered
<1>3. QED  BY <1>2

\* So the items, the worker's included, are no more than the keys.
LEMMA LineLength ==
    IInv /\ current # None => Len(queue) \in Nat /\ Len(queue) + 1 <= N
<1> SUFFICES ASSUME IInv, current # None
             PROVE  Len(queue) \in Nat /\ Len(queue) + 1 <= N
  OBVIOUS
<1>1. /\ Len(queue) \in Nat /\ DOMAIN queue = 1..Len(queue)
      /\ \A i \in 1..Len(queue) : queue[i] \in Callers /\ queue[i] \in Range(queue)
      /\ \A i, j \in 1..Len(queue) : queue[i] = queue[j] => i = j
  BY DEF IInv, FetcherTypeOK, CallsAreServed, IsInjective, Range
<1>2. current \in Callers /\ \A i \in 1..Len(queue) : queue[i] # current
  BY <1>1 DEF IInv, FetcherTypeOK, CallsAreServed
<1> DEFINE item == [i \in 0..Len(queue) |-> IF i = 0 THEN current ELSE queue[i]]
           keyOf == [i \in 0..Len(queue) |-> key[item[i]]]
<1>3. \A i \in 0..Len(queue) : i = 0 \/ i \in 1..Len(queue)
  BY <1>1
<1>4. \A i \in 0..Len(queue) : item[i] \in Range(queue) \cup ({current} \ {None})
  BY <1>1, <1>3
<1>5. \A c \in Range(queue) \cup ({current} \ {None}) : key[c] \in Keys
  BY DEF IInv, CallsAreServed, CallRecords
<1>6. keyOf \in [0..Len(queue) -> Keys]
  BY <1>4, <1>5
<1>7. \A i, j \in 0..Len(queue) : keyOf[i] = keyOf[j] => item[i] = item[j]
  BY <1>4, OneItemPerKeyInv DEF OneItemPerKey
<1>8. \A i, j \in 0..Len(queue) : keyOf[i] = keyOf[j] => i = j
  <2> SUFFICES ASSUME NEW i \in 0..Len(queue), NEW j \in 0..Len(queue), item[i] = item[j]
               PROVE  i = j
    BY <1>7
  <2>1. QED  BY <1>1, <1>2, <1>3
<1>9. keyOf \in Injection(0..Len(queue), Keys)
  BY <1>6, <1>8 DEF Injection, IsInjective
<1>10. Cardinality(0..Len(queue)) <= N
  <2> HIDE DEF keyOf
  <2>1. QED  BY <1>9, FS_Injection, LifecycleAssumption DEF N
<1>11. Cardinality(0..Len(queue)) = Len(queue) + 1
  BY <1>1, FS_Interval
<1>12. QED  BY <1>1, <1>10, <1>11

LEMMA KeysAreCounted == N \in Nat
BY FS_CardinalityType, LifecycleAssumption DEF N
-----------------------------------------------------------------------------
(* The calls.                                                              *)

\* A call that begins waits for at most as many tasks as there are keys.
LEMMA CallKeepsLine ==
    ASSUME TypeOK, IInv, IInv', LineIsShort, NEW c \in Callers, NEW k \in Keys, Call(c, k)
    PROVE  LineIsShort' /\ waited' \in [Callers -> Nat]
<1>1. /\ waited' = [waited EXCEPT ![c] = 0] /\ waited \in [Callers -> Nat]
      /\ stage' = [stage EXCEPT ![c] = "awaiting"]
      /\ stage[c] = "idle" /\ awaits[c] = None
  BY DEF Call, Fetch, TypeOK, IInv, CallRecords
<1>2. N \in Nat
  BY KeysAreCounted
<1>3. WaitIsBounded'
  BY <1>1, <1>2 DEF WaitIsBounded, LineIsShort, N
<1>4. (IInv /\ current # None => Len(queue) \in Nat /\ Len(queue) + 1 <= N)'
  BY LineLength, PTL
<1>5. /\ (queue' # <<>> => current' # None) /\ queue' \in Seq(Callers)
      /\ awaits'[c] # None
  BY <1>1 DEF IInv, FlagIsTruthful, FetcherTypeOK, CallsAreServed
<1>6. \A d \in Callers : d # c =>
        awaits'[d] = awaits[d] /\ stage'[d] = stage[d] /\ waited'[d] = waited[d]
  BY <1>1 DEF Call, Fetch, Join, Enqueue, IInv, FetcherTypeOK
<1>7. \A d \in Callers : stage[d] = "awaiting" => awaits[d] # c
  BY <1>1, NoNames DEF IInv, CallsAreServed, IsOwner
<1>8. /\ current' = current \/ current' = c
      /\ Len(queue) \in Nat
      /\ \A i \in 1..Len(queue') :
            queue'[i] # c => i \in 1..Len(queue) /\ queue'[i] = queue[i]
  <2>1. CASE queue' = queue /\ current' = current
    BY <2>1 DEF IInv, FetcherTypeOK
  <2>2. CASE queue' = Append(queue, c) /\ current' = current
    BY <2>2 DEF IInv, FetcherTypeOK
  <2>3. CASE ~isProcessing /\ TakeNext(Append(queue, c))
    <3>1. queue = <<>>
      BY <2>3 DEF IInv, FlagIsTruthful
    <3>2. Append(queue, c) = <<c>> /\ Head(<<c>>) = c /\ Tail(<<c>>) = <<>> /\ <<c>> # <<>>
      BY <3>1
    <3>3. current' = c /\ queue' = <<>>
      BY <2>3, <3>2 DEF TakeNext
    <3>4. QED  BY <3>1, <3>3
  <2>4. QED
    BY <2>1, <2>2, <2>3 DEF Call, Fetch, Join, Enqueue, workerVars
<1>9. ASSUME NEW d \in Callers, stage'[d] = "awaiting"
      PROVE  /\ awaits'[d] = current' => waited'[d] + 1 <= N
             /\ \A i \in 1..Len(queue') : awaits'[d] = queue'[i] => waited'[d] + i + 1 <= N
  <2>1. CASE d = c
    <3>1. waited'[d] = 0
      BY <1>1, <2>1
    <3>2. current' # None => Len(queue') \in Nat /\ Len(queue') + 1 <= N
      BY <1>4 DEF N
    <3>3. ASSUME NEW i \in 1..Len(queue') PROVE i + 1 <= N
      <4>1. Len(queue') \in Nat /\ queue' # <<>>
        BY <1>5, <3>3
      <4>2. QED  BY <1>2, <1>5, <3>2, <3>3, <4>1
    <3>4. QED  BY <1>2, <1>5, <2>1, <3>1, <3>2, <3>3
  <2>2. CASE d # c
    <3>1. awaits'[d] = awaits[d] /\ waited'[d] = waited[d] /\ awaits[d] # c /\ stage[d] = "awaiting"
      BY <1>6, <1>7, <1>9, <2>2
    <3>2. QED  BY <1>8, <3>1 DEF LineIsShort
  <2>3. QED  BY <2>1, <2>2
<1>10. QED
  <2>1. waited' \in [Callers -> Nat]
    BY <1>1
  <2>2. QED  BY <1>3, <1>9, <2>1 DEF LineIsShort, N

\* A call that returns leaves nobody waiting who did not.
LEMMA ReturnKeepsLine ==
    ASSUME TypeOK, IInv, LineIsShort, NEW c \in Callers, Answered(c)
    PROVE  LineIsShort' /\ waited' \in [Callers -> Nat]
<1>1. UNCHANGED <<queue, current>>
  BY DEF Answered, Return, OwnerReturns, JoinerReturns, workerVars
<1>2. \A d \in Callers : stage'[d] = "awaiting" => stage[d] = "awaiting" /\ awaits'[d] = awaits[d]
  BY DEF Answered, Return, OwnerReturns, JoinerReturns, JoinersOf, IInv, FetcherTypeOK
<1>3. /\ waited' \in [Callers -> Nat] /\ waited'[c] = 0
      /\ \A d \in Callers : d # c => waited'[d] = waited[d]
  BY DEF Answered, TypeOK
<1>4. stage'[c] = "idle"
  BY ReturnEffect DEF Answered
<1>5. WaitIsBounded'
  BY <1>3, KeysAreCounted DEF LineIsShort, WaitIsBounded, N
<1>6. QED  BY <1>1, <1>2, <1>3, <1>4, <1>5 DEF LineIsShort, N

\* A task that ends brings everybody in the queue one place forward.
LEMMA SettleKeepsLine ==
    ASSUME TypeOK, IInv, LineIsShort, NEW o \in Outcomes, Settle(o),
           waited' = [c \in Callers |->
                IF out' # out /\ awaits[c] # None /\ stage[awaits[c]] = "awaiting"
                THEN waited[c] + 1 ELSE waited[c]]
    PROVE  LineIsShort' /\ waited' \in [Callers -> Nat]
<1>1. /\ current \in Callers /\ stage[current] = "awaiting"
      /\ stage' = [stage EXCEPT ![current] = "settled"] /\ UNCHANGED awaits
      /\ TakeNext(queue)
  BY RunningTask DEF Settle
<1>2. N \in Nat /\ waited \in [Callers -> Nat]
  BY KeysAreCounted DEF TypeOK
<1>3. /\ Len(queue) \in Nat /\ queue \in Seq(Callers)
      /\ \A i \in 1..Len(queue) : queue[i] \in Range(queue) /\ queue[i] # current
  BY DEF IInv, FetcherTypeOK, CallsAreServed, Range
<1>4. /\ Len(queue') \in Nat
      /\ current' # None => queue # <<>> /\ current' = queue[1] /\ 1 \in 1..Len(queue)
      /\ \A i \in 1..Len(queue') : i + 1 \in 1..Len(queue) /\ queue'[i] = queue[i + 1]
  BY <1>1, <1>3 DEF TakeNext
<1>5. \A c \in Callers : awaits[c] # None /\ stage[awaits[c]] = "awaiting" =>
        /\ stage[c] = "awaiting" /\ awaits[c] \in Callers
        /\ awaits[c] = current \/ \E i \in 1..Len(queue) : awaits[c] = queue[i]
  <2> SUFFICES ASSUME NEW c \in Callers, awaits[c] # None, stage[awaits[c]] = "awaiting"
               PROVE  /\ stage[c] = "awaiting" /\ awaits[c] \in Callers
                      /\ awaits[c] = current \/ \E i \in 1..Len(queue) : awaits[c] = queue[i]
    OBVIOUS
  <2>1. stage[c] = "awaiting" /\ awaits[c] \in Callers
    BY DEF IInv, CallRecords, FetcherTypeOK
  <2>2. awaits[c] \in Range(queue) \cup ({current} \ {None})
    BY <2>1 DEF IInv, CallsAreServed
  <2>3. QED  BY <1>3, <2>1, <2>2 DEF Range
<1>6. \A c \in Callers : waited[c] \in Nat /\ waited'[c] \in {waited[c], waited[c] + 1}
  BY <1>2
<1>7. WaitIsBounded'
  <2> SUFFICES ASSUME NEW c \in Callers PROVE waited'[c] <= N
    BY DEF WaitIsBounded, N
  <2>1. CASE waited'[c] = waited[c]
    BY <2>1 DEF LineIsShort, WaitIsBounded, N
  <2>2. CASE waited'[c] # waited[c]
    <3>1. /\ awaits[c] # None /\ stage[awaits[c]] = "awaiting"
          /\ waited'[c] = waited[c] + 1
      BY <2>2
    <3>2. CASE awaits[c] = current
      BY <1>5, <3>1, <3>2 DEF LineIsShort
    <3>3. ASSUME NEW i \in 1..Len(queue), awaits[c] = queue[i]
          PROVE  waited'[c] <= N
      <4>1. waited[c] + i + 1 <= N
        BY <1>5, <3>1, <3>3 DEF LineIsShort
      <4>2. QED  BY <1>2, <1>6, <3>1, <4>1
    <3>4. QED  BY <1>5, <3>1, <3>2, <3>3
  <2>3. QED  BY <2>1, <2>2
<1>8. ASSUME NEW c \in Callers, stage'[c] = "awaiting"
      PROVE  /\ awaits'[c] = current' => waited'[c] + 1 <= N
             /\ \A i \in 1..Len(queue') : awaits'[c] = queue'[i] => waited'[c] + i + 1 <= N
  <2>1. stage[c] = "awaiting" /\ awaits'[c] = awaits[c] /\ awaits[c] # None
    BY <1>1, <1>8 DEF IInv, FetcherTypeOK, CallsAreServed
  <2>2. awaits[c] = current' => waited'[c] + 1 <= N
    <3> SUFFICES ASSUME awaits[c] = current' PROVE waited'[c] + 1 <= N
      OBVIOUS
    <3>1. waited[c] + 1 + 1 <= N
      BY <1>4, <2>1 DEF LineIsShort
    <3>2. QED  BY <1>2, <1>6, <3>1
  <2>3. ASSUME NEW i \in 1..Len(queue'), awaits[c] = queue'[i]
        PROVE  waited'[c] + i + 1 <= N
    <3>1. waited[c] + (i + 1) + 1 <= N
      BY <1>4, <2>1, <2>3 DEF LineIsShort
    <3>2. QED  BY <1>2, <1>4, <1>6, <3>1
  <2>4. QED  BY <2>1, <2>2, <2>3
<1>9. QED
  <2>1. waited' \in [Callers -> Nat]
    BY <1>2
  <2>2. QED  BY <1>7, <1>8, <2>1 DEF LineIsShort, N
-----------------------------------------------------------------------------
(* One lemma per kind of action.                                           *)

\* What the steps that are not calls, returns or tasks do to the queue: nothing.
LEMMA QueueStands ==
    ASSUME IInv, LineIsShort, UNCHANGED <<fetcherVars, waited>>
    PROVE  IInv' /\ LineIsShort'
<1>1. IInv'
  BY StepIInv
<1>2. LineIsShort'
  BY DEF LineIsShort, WaitIsBounded, fetcherVars
<1>3. QED  BY <1>1, <1>2

\* The names of a request and of a cron.
LEMMA Parties ==
    /\ \A r \in Requests : r \in Callers /\ r \notin Crons
    /\ \A s \in Crons : /\ s \in Callers /\ s \notin Requests
                        /\ Len(Agenda[s]) \in Nat \ {0}
                        /\ \A i \in 1..Len(Agenda[s]) : Agenda[s][i] \in Keys
<1>1. \A s \in Crons : Agenda[s] \in Seq(Keys) /\ Agenda[s] # <<>>
  BY LifecycleAssumption
<1>2. QED  BY <1>1, LifecycleAssumption

\* Nor do the steps that are not of the shutdown, and let nobody in after it has
\* begun, disturb its order.
LEMMA ShutdownStands ==
    ASSUME ShutdownInOrder, UNCHANGED shutdownVars,
           app # "listening" /\ NobodyIsHere => NobodyIsHere'
    PROVE  ShutdownInOrder'
BY DEF ShutdownInOrder, shutdownVars

LEMMA CronKeeps ==
    ASSUME LifeInv, NEW s \in Crons, Begin(s) \/ Synced(s) \/ Loop(s)
    PROVE  LifeInv'
<1> USE DEF LifeInv
<1>1. /\ s \in Callers /\ \A r \in Requests : r \in Callers /\ r # s
      /\ UNCHANGED <<shutdownVars, at>>
  BY Parties DEF Begin, Synced, Loop
<1>2. /\ pos' \in [Crons -> Nat] /\ \A t \in Crons : pos'[t] <= Len(Agenda[t])
      /\ \/ \E k \in Keys : Call(s, k)
         \/ Answered(s)
         \/ UNCHANGED <<fetcherVars, waited>>
  <2>1. CASE Begin(s)
    <3>1. 1 \in 1..Len(Agenda[s])
      BY Parties
    <3>2. QED  BY <2>1, <3>1, Parties DEF Begin, TypeOK
  <2>2. CASE Synced(s)
    BY <2>2 DEF Synced, TypeOK
  <2>3. CASE Loop(s)
    <3>1. pos[s] < Len(Agenda[s]) => pos[s] + 1 \in 1..Len(Agenda[s])
      BY Parties DEF TypeOK
    <3>2. CASE /\ pos[s] < Len(Agenda[s])
               /\ pos' = [pos EXCEPT ![s] = @ + 1]
               /\ Call(s, Agenda[s][pos[s] + 1])
      <4>1. \E k \in Keys : Call(s, k)
        BY <3>1, <3>2, Parties
      <4>2. pos' \in [Crons -> Nat] /\ \A t \in Crons : pos'[t] <= Len(Agenda[t])
        BY <3>1, <3>2 DEF TypeOK
      <4>3. QED  BY <4>1, <4>2
    <3>3. CASE pos' = [pos EXCEPT ![s] = 0] /\ UNCHANGED <<fetcherVars, waited>>
      BY <3>3, Parties DEF TypeOK
    <3>4. QED  BY <2>3, <3>2, <3>3 DEF Loop
  <2>4. QED  BY <2>1, <2>2, <2>3
<1>3. /\ IInv' /\ LineIsShort' /\ waited' \in [Callers -> Nat]
      /\ \A r \in Requests : stage'[r] = "idle" <=> stage[r] = "idle"
  <2>1. ASSUME NEW k \in Keys, Call(s, k)
        PROVE  /\ IInv' /\ LineIsShort' /\ waited' \in [Callers -> Nat]
               /\ \A r \in Requests : stage'[r] = stage[r]
    <3>1. IInv'
      BY <1>1, <2>1, JoinKeeps, EnqueueKeeps DEF Call, Fetch
    <3>2. \A r \in Requests : stage'[r] = stage[r]
      BY <1>1, <2>1 DEF Call, Fetch, IInv, FetcherTypeOK
    <3>3. QED  BY <1>1, <2>1, <3>1, <3>2, CallKeepsLine
  <2>2. CASE Answered(s)
    <3>1. IInv'
      BY <1>1, <2>2, OwnerReturnsKeeps, JoinerReturnsKeeps DEF Answered, Return
    <3>2. \A r \in Requests : stage'[r] = "idle" <=> stage[r] = "idle"
      BY <1>1, <2>2, ReturnEffect DEF Answered
    <3>3. QED  BY <1>1, <2>2, <3>1, <3>2, ReturnKeepsLine
  <2>3. CASE UNCHANGED <<fetcherVars, waited>>
    BY <2>3, QueueStands DEF fetcherVars, TypeOK
  <2>4. QED  BY <1>2, <2>1, <2>2, <2>3
<1>4. ShutdownInOrder'
  BY <1>1, ShutdownStands DEF NobodyIsHere
<1>5. QED  BY <1>1, <1>2, <1>3, <1>4 DEF TypeOK, IInv, RequestsInFlight, shutdownVars

LEMMA RequestKeeps ==
    ASSUME LifeInv, NEW r \in Requests, Accept(r) \/ Proceed(r) \/ Respond(r)
    PROVE  LifeInv'
<1> USE DEF LifeInv
<1>1. /\ r \in Callers /\ \A q \in Requests : q \in Callers
      /\ UNCHANGED <<shutdownVars, pos>>
  BY Parties DEF Accept, Proceed, Respond
<1>2. ShutdownInOrder'
  <2>1. app # "listening" /\ NobodyIsHere => NobodyIsHere'
    BY DEF Accept, Proceed, Respond, Answered, NobodyIsHere, TypeOK, RequestsInFlight
  <2>2. QED  BY <1>1, <2>1, ShutdownStands
<1>3. CASE UNCHANGED <<fetcherVars, waited>>
  <2>1. at[r] # "fetching" /\ at' \in [Requests -> {"away", "accepted", "fetching"}]
        /\ at'[r] # "fetching" /\ \A q \in Requests : q # r => at'[q] = at[q]
    <3>1. CASE Respond(r)
      BY <1>1, <1>3, <3>1, ReturnEffect DEF Respond, Answered, fetcherVars
    <3>2. CASE Accept(r)
      BY <3>2 DEF Accept, TypeOK
    <3>3. CASE Proceed(r)
      <4>1. ~\E k \in Keys : Call(r, k)
        BY <1>1, <1>3, FetchEffect DEF Call, fetcherVars, IInv, FetcherTypeOK
      <4>2. QED  BY <3>3, <4>1 DEF Proceed, TypeOK
    <3>4. QED  BY <3>1, <3>2, <3>3
  <2>2. RequestsInFlight'
    BY <1>1, <1>3, <2>1 DEF RequestsInFlight, fetcherVars
  <2>3. QED  BY <1>1, <1>3, <1>2, <2>1, <2>2, QueueStands DEF TypeOK, IInv, shutdownVars
<1>4. CASE /\ at' = [at EXCEPT ![r] = "fetching"]
           /\ \E k \in Keys : Call(r, k)
  <2>1. PICK k \in Keys : Call(r, k)
    BY <1>4
  <2>2. IInv'
    BY <1>1, <2>1, JoinKeeps, EnqueueKeeps DEF Call, Fetch
  <2>3. /\ stage'[r] # "idle"
        /\ \A q \in Requests : q # r => stage'[q] = stage[q] /\ at'[q] = at[q]
    BY <1>1, <1>4, <2>1 DEF Call, Fetch, IInv, FetcherTypeOK, TypeOK
  <2>4. RequestsInFlight'
    BY <1>1, <1>4, <2>3 DEF RequestsInFlight, TypeOK
  <2>5. QED
    BY <1>1, <1>4, <1>2, <2>1, <2>2, <2>4, CallKeepsLine DEF TypeOK, IInv, shutdownVars
<1>5. CASE Respond(r)
  <2>1. IInv'
    BY <1>1, <1>5, OwnerReturnsKeeps, JoinerReturnsKeeps DEF Respond, Answered, Return
  <2>2. /\ stage'[r] = "idle"
        /\ \A q \in Requests : q # r => (stage'[q] = "idle" <=> stage[q] = "idle")
    BY <1>1, <1>5, ReturnEffect DEF Respond, Answered
  <2>3. RequestsInFlight'
    BY <1>1, <1>5, <2>2 DEF Respond, RequestsInFlight, TypeOK
  <2>4. QED
    BY <1>1, <1>5, <1>2, <2>1, <2>3, ReturnKeepsLine DEF Respond, TypeOK, IInv, shutdownVars
<1>6. QED  BY <1>3, <1>4, <1>5 DEF Accept, Proceed

LEMMA WorkerKeepsAll ==
    ASSUME LifeInv, Worker
    PROVE  LifeInv'
<1> USE DEF LifeInv
<1>1. /\ UNCHANGED <<shutdownVars, at, pos>>
      /\ waited' = [c \in Callers |->
                IF out' # out /\ awaits[c] # None /\ stage[awaits[c]] = "awaiting"
                THEN waited[c] + 1 ELSE waited[c]]
  BY DEF Worker
<1>2. IInv' /\ ShutdownInOrder'
  BY <1>1, StepIInv, ShutdownStands DEF Worker, FetcherNext, NobodyIsHere
<1>3. \A r \in Requests : r \in Callers
  BY Parties
<1>4. CASE \E o \in Outcomes : Settle(o)
  <2>1. PICK o \in Outcomes : Settle(o)
    BY <1>4
  <2>2. LineIsShort' /\ waited' \in [Callers -> Nat]
    BY <1>1, <2>1, SettleKeepsLine
  <2>3. \A r \in Requests : stage'[r] = "idle" <=> stage[r] = "idle"
    BY <1>3, <2>1, SettleEffect, RunningTask DEF IInv, FetcherTypeOK
  <2>4. QED  BY <1>1, <1>2, <2>2, <2>3 DEF TypeOK, IInv, RequestsInFlight, shutdownVars
<1>5. CASE UNCHANGED <<flightVars, queue, current>>
  <2>1. UNCHANGED <<stage, awaits, out, waited>>
    BY <1>1, <1>5 DEF flightVars, TypeOK
  <2>2. LineIsShort'
    BY <1>5, <2>1 DEF LineIsShort, WaitIsBounded
  <2>3. QED  BY <1>1, <1>2, <2>1, <2>2 DEF TypeOK, IInv, RequestsInFlight, shutdownVars
<1>6. QED
  BY <1>4, <1>5 DEF Worker, TaskSettles, TaskHitsLimit, TaskLimited, Wake, Outcomes

LEMMA ShutdownKeeps ==
    ASSUME LifeInv,
           Signal \/ (\E i \in DOMAIN close : Hooks(i) \/ Drained(i)) \/ Exit
    PROVE  LifeInv'
<1> USE DEF LifeInv
<1>1. UNCHANGED <<fetcherVars, waited, at, pos>>
  BY DEF Signal, Hooks, Drained, Exit
<1>2. /\ app' \in {"listening", "stopped", "exited"} /\ isShuttingDown' \in BOOLEAN
      /\ ShutdownInOrder'
  <2>1. CASE Signal
    BY <2>1 DEF Signal, ShutdownInOrder, Running, CloseStages, TypeOK
  <2>2. ASSUME NEW i \in DOMAIN close, Hooks(i)
        PROVE  ShutdownInOrder' /\ app' \in {"listening", "stopped"} /\ isShuttingDown' \in BOOLEAN
    <3>1. close = <<"hooks">> /\ i = 1 /\ app = "listening"
      BY <2>2 DEF Hooks, Running, ShutdownInOrder, TypeOK
    <3>2. ASSUME NEW s PROVE [<<"hooks">> EXCEPT ![1] = s] = <<s>>
      OBVIOUS
    <3>3. \/ close' = [close EXCEPT ![i] = "hookFailed"] /\ app' = "listening"
          \/ close' = [close EXCEPT ![i] = "draining"] /\ app' = "stopped"
      BY <2>2, <3>1 DEF Hooks
    <3>4. \/ close' = <<"hookFailed">> /\ app' = "listening"
          \/ close' = <<"draining">> /\ app' = "stopped"
      BY <3>1, <3>2, <3>3
    <3>5. isShuttingDown' \in BOOLEAN
      BY <2>2 DEF Hooks, TypeOK
    <3>6. QED  BY <3>4, <3>5 DEF ShutdownInOrder, CloseStages, Settled
  <2>3. ASSUME NEW i \in DOMAIN close, Drained(i)
        PROVE  ShutdownInOrder' /\ app' = "stopped" /\ isShuttingDown' = isShuttingDown
    <3>1. close = <<"draining">> /\ i = 1 /\ app = "stopped"
      BY <2>3 DEF Drained, Running, ShutdownInOrder, TypeOK
    <3>2. /\ close' = <<"resolved">> \/ close' = <<"lateHookFailed">>
          /\ NobodyIsHere' /\ UNCHANGED <<app, isShuttingDown>>
      BY <2>3, <3>1 DEF Drained, NobodyIsHere
    <3>3. QED  BY <3>1, <3>2 DEF ShutdownInOrder, CloseStages, Settled
  <2>4. CASE Exit
    <3>1. close = <<"hookFailed">> \/ NobodyIsHere
      BY <2>4 DEF Exit, Running, ShutdownInOrder, Settled, TypeOK
    <3>2. close' = close /\ app' = "exited" /\ isShuttingDown' = isShuttingDown
          /\ (NobodyIsHere => NobodyIsHere')
      BY <1>1, <2>4 DEF Exit, NobodyIsHere
    <3>3. QED  BY <3>1, <3>2 DEF ShutdownInOrder, TypeOK
  <2>5. QED  BY <2>1, <2>2, <2>3, <2>4 DEF TypeOK, Signal
<1>3. close' \in Seq(CloseStages)
  <2>1. <<>> \in Seq(CloseStages) /\ \A s \in CloseStages : <<s>> \in Seq(CloseStages)
    OBVIOUS
  <2>2. QED  BY <1>2, <2>1 DEF ShutdownInOrder
<1>4. TypeOK' /\ RequestsInFlight'
  BY <1>1, <1>2, <1>3, QueueStands DEF TypeOK, IInv, RequestsInFlight, fetcherVars
<1>5. QED  BY <1>1, <1>2, <1>4, QueueStands
-----------------------------------------------------------------------------
(* The theorems.                                                           *)

LEMMA InitLifeInv == Init => LifeInv
<1> SUFFICES ASSUME Init PROVE LifeInv
  OBVIOUS
<1>1. IInv /\ N \in Nat
  BY InitIInv, KeysAreCounted DEF Init
<1>2. TypeOK
  <2>1. \A s \in Crons : Len(Agenda[s]) \in Nat /\ 0 <= Len(Agenda[s])
    BY Parties
  <2>2. pos \in [Crons -> Nat] /\ \A s \in Crons : pos[s] <= Len(Agenda[s])
    BY <2>1 DEF Init
  <2>3. <<>> \in Seq(CloseStages)
    OBVIOUS
  <2>4. /\ close \in Seq(CloseStages) /\ isShuttingDown \in BOOLEAN
        /\ app \in {"listening", "stopped", "exited"}
    BY <2>3 DEF Init
  <2>5. QED  BY <1>1, <2>2, <2>4 DEF Init, TypeOK, IInv
<1>3. RequestsInFlight /\ LineIsShort
  BY <1>1, Parties
  DEF Init, FetcherInit, RequestsInFlight, LineIsShort, WaitIsBounded, N
<1>4. ShutdownInOrder
  BY DEF Init, ShutdownInOrder
<1>5. QED  BY <1>1, <1>2, <1>3, <1>4 DEF LifeInv

LEMMA StepLifeInv == LifeInv /\ [Next]_vars => LifeInv'
<1> SUFFICES ASSUME LifeInv, [Next]_vars PROVE LifeInv'
  OBVIOUS
<1>1. CASE Next
  BY <1>1, CronKeeps, RequestKeeps, WorkerKeepsAll, ShutdownKeeps DEF Next
<1>2. CASE UNCHANGED vars
  <2>1. UNCHANGED <<fetcherVars, waited, shutdownVars, at, pos>>
    BY <1>2 DEF vars
  <2>2. ShutdownInOrder'
    BY <2>1, ShutdownStands DEF LifeInv, NobodyIsHere
  <2>3. QED
    BY <2>1, <2>2, QueueStands
    DEF LifeInv, TypeOK, IInv, RequestsInFlight, fetcherVars, shutdownVars
<1>3. QED  BY <1>1, <1>2

\* The invariant is inductive.
THEOREM LifeInvariance == Spec => []LifeInv
BY InitLifeInv, StepLifeInv, PTL DEF Spec

\* Every variable keeps its type; in particular no loop runs past its agenda.
THEOREM LifeTypeCorrect == Spec => []TypeOK
BY LifeInvariance, PTL DEF LifeInv

\* The process does not exit under a request that it has accepted, unless a hook
\* of a module has failed before the server was closed: however many signals come,
\* app.close() is called once, and it is its one call that waits for the requests.
THEOREM ShutdownIsGraceful == Spec => []AcceptedAreAnswered
<1>1. LifeInv => AcceptedAreAnswered
  <2> SUFFICES ASSUME LifeInv, app = "exited", close # <<"hookFailed">>
               PROVE  \A r \in Requests : at[r] = "away" /\ stage[r] = "idle"
    BY DEF AcceptedAreAnswered
  <2>1. NobodyIsHere
    BY DEF LifeInv, ShutdownInOrder
  <2>2. QED  BY <2>1 DEF NobodyIsHere, LifeInv, RequestsInFlight
<1>2. QED  BY <1>1, LifeInvariance, PTL

\* Nobody waits for more than one task per key, however many crons and requests
\* there are and however their calls interleave.
THEOREM WaitsAreBounded == Spec => []WaitIsBounded
BY LifeInvariance, PTL DEF LifeInv, LineIsShort

\* The crons and the requests drive the queue only as FetcherSpec allows, also
\* across the shutdown.
THEOREM LifeDrivesTheQueue == Spec => FetcherSpec
<1>1. Init => FetcherInit
  BY DEF Init
<1>2. LifeInv /\ [Next]_vars => [FetcherNext]_fetcherVars
  <2> SUFFICES ASSUME LifeInv, [Next]_vars PROVE [FetcherNext]_fetcherVars
    OBVIOUS
  <2>1. ASSUME NEW c \in Callers, NEW k \in Keys, Call(c, k)
        PROVE  FetcherNext
    BY <2>1 DEF Call, FetcherNext
  <2>2. ASSUME NEW s \in Crons, Begin(s) \/ Synced(s) \/ Loop(s)
        PROVE  [FetcherNext]_fetcherVars
    <3>1. 1 \in 1..Len(Agenda[s])
          /\ (pos[s] < Len(Agenda[s]) => pos[s] + 1 \in 1..Len(Agenda[s]))
      BY Parties DEF LifeInv, TypeOK
    <3>2. QED  BY <2>1, <2>2, <3>1, Parties DEF Begin, Synced, Loop, Answered, FetcherNext
  <2>3. ASSUME NEW r \in Requests, Accept(r) \/ Proceed(r) \/ Respond(r)
        PROVE  [FetcherNext]_fetcherVars
    BY <2>1, <2>3, Parties DEF Accept, Proceed, Respond, Answered, FetcherNext
  <2>4. CASE Worker \/ Signal \/ (\E i \in DOMAIN close : Hooks(i) \/ Drained(i)) \/ Exit
    BY <2>4 DEF Worker, Signal, Hooks, Drained, Exit, FetcherNext
  <2>5. CASE UNCHANGED vars
    BY <2>5 DEF vars
  <2>6. QED  BY <2>2, <2>3, <2>4, <2>5 DEF Next
<1>3. QED  BY <1>1, <1>2, LifeInvariance, PTL DEF Spec, FetcherSpec
=============================================================================
