------------------------------- MODULE Fetcher -------------------------------
(***************************************************************************)
(* FetcherService (football-data/fetcher.service.ts): every request to the *)
(* football-data.org API goes through fetch(key, task), which coalesces    *)
(* the calls for a key that overlap and runs the tasks one at a time.      *)
(*                                                                         *)
(* Node runs one continuation at a time, so a step of the model is the     *)
(* code between two awaits.  A promise is named by the call that created   *)
(* it: awaits[c] = c says that c is that call, awaits[c] = d that c joined *)
(* the promise of d.                                                       *)
(***************************************************************************)
EXTENDS Integers, Sequences, Functions

CONSTANTS
    Callers,        \* activities that call fetch, one call each at a time
    Keys,           \* cache keys
    Results,        \* how a task can end, other than rejecting with a 429
    RateLimited,    \* the task rejects with HTTP status 429
    None,           \* no caller, key or outcome
    WaitHints       \* seconds that a 429 answer can ask to wait

Outcomes == Results \cup {RateLimited}

ASSUME FetcherAssumption ==
    /\ None \notin Callers \cup Keys \cup Outcomes
    /\ WaitHints \subseteq Nat

MaxWaitSeconds == 25
MaxRetries == 3

VARIABLES
    inFlight,       \* inFlight[k]: the call whose promise is registered for k
    queue,          \* the calls whose items wait for the worker
    isProcessing,   \* the flag that keeps processQueue single
    current,        \* the item the worker has shifted from the queue
    phase,          \* the worker: "off", in its "task", or in its retry "sleep"
    attempt,        \* the attempt argument of executeWithRetry
    slept,          \* seconds the worker has slept for the current item
    stage,          \* stage[c]: "idle", "awaiting" a promise, "settled"
    key,            \* key[c]: the argument of the call
    awaits,         \* awaits[c]: the promise the call is waiting on
    out             \* out[c]: the outcome, once settled

flightVars == <<inFlight, stage, key, awaits, out>>
workerVars == <<queue, isProcessing, current, phase, attempt, slept>>
fetcherVars == <<inFlight, queue, isProcessing, current, phase, attempt, slept,
                 stage, key, awaits, out>>

FetcherTypeOK ==
    /\ inFlight \in [Keys -> Callers \cup {None}]
    /\ queue \in Seq(Callers)
    /\ isProcessing \in BOOLEAN
    /\ current \in Callers \cup {None}
    /\ phase \in {"off", "task", "sleep"}
    /\ attempt \in Nat
    /\ slept \in Nat
    /\ stage \in [Callers -> {"idle", "awaiting", "settled"}]
    /\ key \in [Callers -> Keys \cup {None}]
    /\ awaits \in [Callers -> Callers \cup {None}]
    /\ out \in [Callers -> Outcomes \cup {None}]

FetcherInit ==
    /\ inFlight = [k \in Keys |-> None]
    /\ queue = <<>>
    /\ isProcessing = FALSE
    /\ current = None
    /\ phase = "off"
    /\ attempt = 0
    /\ slept = 0
    /\ stage = [c \in Callers |-> "idle"]
    /\ key = [c \in Callers |-> None]
    /\ awaits = [c \in Callers |-> None]
    /\ out = [c \in Callers |-> None]

\* c made the promise it awaits: it runs the try/finally of fetch.
IsOwner(c) == awaits[c] = c

\* The calls that found the promise of c in inFlight.
JoinersOf(c) == {d \in Callers : awaits[d] = c /\ d # c}
-----------------------------------------------------------------------------
(* The worker: processQueue and executeWithRetry.                          *)

\* Mutant: isProcessing is not cleared when the queue runs empty.
TakeNextKeepsFlag(q) ==
    /\ isProcessing' = TRUE
    /\ current' = IF q = <<>> THEN None ELSE Head(q)
    /\ phase' = IF q = <<>> THEN "off" ELSE "task"
    /\ attempt' = IF q = <<>> THEN 0 ELSE 1
    /\ slept' = 0
    /\ queue' = IF q = <<>> THEN q ELSE Tail(q)

\* The loop of processQueue, from its test to the call of the next task, with
\* q in the queue; it runs without an await, up to clearing isProcessing.
TakeNext(q) ==
    \/ /\ q = <<>>
       /\ isProcessing' = FALSE
       /\ current' = None
       /\ phase' = "off"
       /\ attempt' = 0
       /\ slept' = 0
       /\ queue' = q
    \/ /\ q # <<>>
       /\ isProcessing' = TRUE
       /\ current' = Head(q)
       /\ phase' = "task"
       /\ attempt' = 1
       /\ slept' = 0
       /\ queue' = Tail(q)

\* resolve(result) or reject(error), and on to the next item.
Settle(o) ==
    /\ phase = "task"
    /\ stage' = [stage EXCEPT ![current] = "settled"]
    /\ out' = [out EXCEPT ![current] = o]
    /\ TakeNext(queue)
    /\ UNCHANGED <<inFlight, key, awaits>>

\* "Wait N seconds" in the 429 body; a missing hint and N = 0 are both falsy.
WaitSeconds(n, hint) == (IF hint = 0 THEN n * 30 ELSE hint) + 5

CanRetry(n, hint) ==
    /\ n <= MaxRetries
    /\ WaitSeconds(n, hint) <= MaxWaitSeconds

\* The task rejects with 429: sleep before another attempt, or give up.
TaskLimited(hint) ==
    /\ phase = "task"
    /\ \/ /\ CanRetry(attempt, hint)
          /\ phase' = "sleep"
          /\ slept' = slept + WaitSeconds(attempt, hint)
          /\ UNCHANGED <<flightVars, queue, isProcessing, current, attempt>>
       \/ /\ ~CanRetry(attempt, hint)
          /\ Settle(RateLimited)

\* Mutant: the attempts are counted down.
WakeCountsDown ==
    /\ phase = "sleep"
    /\ phase' = "task"
    /\ attempt' = attempt - 1
    /\ UNCHANGED <<flightVars, queue, isProcessing, current, slept>>

\* Mutant: the recursive call passes attempt instead of attempt + 1.
WakeSameAttempt ==
    /\ phase = "sleep"
    /\ phase' = "task"
    /\ UNCHANGED <<flightVars, queue, isProcessing, current, attempt, slept>>

\* The timer fires and executeWithRetry calls itself with attempt + 1.
Wake ==
    /\ phase = "sleep"
    /\ phase' = "task"
    /\ attempt' = attempt + 1
    /\ UNCHANGED <<flightVars, queue, isProcessing, current, slept>>
-----------------------------------------------------------------------------
(* The calls of fetch.                                                     *)

\* Mutant: a call opens a flight of its own although one is up.
JoinNever(c, k) ==
    /\ inFlight[k] # None
    /\ isProcessing
    /\ awaits' = [awaits EXCEPT ![c] = c]
    /\ inFlight' = [inFlight EXCEPT ![k] = c]
    /\ queue' = Append(queue, c)
    /\ UNCHANGED <<isProcessing, current, phase, attempt, slept>>

Join(c, k) ==
    /\ inFlight[k] # None
    /\ awaits' = [awaits EXCEPT ![c] = inFlight[k]]
    /\ UNCHANGED <<inFlight, workerVars>>

\* Mutant: processQueue starts although it is running.
EnqueueTwoWorkers(c, k) ==
    /\ inFlight[k] = None
    /\ awaits' = [awaits EXCEPT ![c] = c]
    /\ inFlight' = [inFlight EXCEPT ![k] = c]
    /\ TakeNext(Append(queue, c))

\* Mutant: a new item goes before the others.
EnqueueFirst(c, k) ==
    /\ inFlight[k] = None
    /\ awaits' = [awaits EXCEPT ![c] = c]
    /\ inFlight' = [inFlight EXCEPT ![k] = c]
    /\ \/ /\ isProcessing
          /\ queue' = <<c>> \o queue
          /\ UNCHANGED <<isProcessing, current, phase, attempt, slept>>
       \/ /\ ~isProcessing
          /\ TakeNext(<<c>> \o queue)

\* push, register the promise, processQueue().
Enqueue(c, k) ==
    /\ inFlight[k] = None
    /\ awaits' = [awaits EXCEPT ![c] = c]
    /\ inFlight' = [inFlight EXCEPT ![k] = c]
    /\ \/ /\ isProcessing
          /\ queue' = Append(queue, c)
          /\ UNCHANGED <<isProcessing, current, phase, attempt, slept>>
       \/ /\ ~isProcessing
          /\ TakeNext(Append(queue, c))

Fetch(c, k) ==
    /\ stage[c] = "idle"
    /\ stage' = [stage EXCEPT ![c] = "awaiting"]
    /\ key' = [key EXCEPT ![c] = k]
    /\ UNCHANGED out
    /\ Join(c, k) \/ Enqueue(c, k)

\* Mutant: only the owner is told how its flight ended.
OwnerReturnsAlone(c) ==
    /\ stage[c] = "settled"
    /\ IsOwner(c)
    /\ inFlight' = [inFlight EXCEPT ![key[c]] = None]
    /\ stage' = [stage EXCEPT ![c] = "idle"]
    /\ out' = [out EXCEPT ![c] = None]
    /\ key' = [key EXCEPT ![c] = None]
    /\ awaits' = [awaits EXCEPT ![c] = None]
    /\ UNCHANGED workerVars

\* The promise of c is settled and its continuation runs: finally deletes the
\* key.  The calls that joined settle right behind it, their reactions having
\* been registered on the promise after the owner's own await.
OwnerReturns(c) ==
    /\ stage[c] = "settled"
    /\ IsOwner(c)
    /\ inFlight' = [inFlight EXCEPT ![key[c]] = None]
    /\ stage' = [d \in Callers |-> IF d = c THEN "idle"
                                   ELSE IF d \in JoinersOf(c) THEN "settled"
                                   ELSE stage[d]]
    /\ out' = [d \in Callers |-> IF d = c THEN None
                                 ELSE IF d \in JoinersOf(c) THEN out[c]
                                 ELSE out[d]]
    /\ key' = [key EXCEPT ![c] = None]
    \* Settled joiners no longer wait on anybody.
    /\ awaits' = [d \in Callers |-> IF d = c \/ d \in JoinersOf(c) THEN None
                                    ELSE awaits[d]]
    /\ UNCHANGED workerVars

\* Mutant: the call that joined runs the finally as well.
JoinerReturnsDeletes(c) ==
    /\ stage[c] = "settled"
    /\ ~IsOwner(c)
    /\ stage' = [stage EXCEPT ![c] = "idle"]
    /\ out' = [out EXCEPT ![c] = None]
    /\ inFlight' = [inFlight EXCEPT ![key[c]] = None]
    /\ key' = [key EXCEPT ![c] = None]
    /\ UNCHANGED <<awaits, workerVars>>

JoinerReturns(c) ==
    /\ stage[c] = "settled"
    /\ ~IsOwner(c)
    /\ stage' = [stage EXCEPT ![c] = "idle"]
    /\ out' = [out EXCEPT ![c] = None]
    /\ key' = [key EXCEPT ![c] = None]
    /\ UNCHANGED <<inFlight, awaits, workerVars>>

Return(c) == OwnerReturns(c) \/ JoinerReturns(c)
-----------------------------------------------------------------------------
(* The service on its own, its tasks resolving and rejecting at will.      *)

TaskSettles == \E o \in Results : Settle(o)
TaskHitsLimit == \E h \in WaitHints : TaskLimited(h)

FetcherNext ==
    \/ \E c \in Callers, k \in Keys : Fetch(c, k)
    \/ \E c \in Callers : Return(c)
    \/ TaskSettles
    \/ TaskHitsLimit
    \/ Wake

\* A task that was called answers, the timer fires, continuations run; nobody
\* has to call fetch.
FetcherFairness ==
    /\ WF_fetcherVars(TaskSettles \/ TaskHitsLimit)
    /\ WF_fetcherVars(Wake)
    /\ \A c \in Callers : WF_fetcherVars(Return(c))

FetcherSpec == FetcherInit /\ [][FetcherNext]_fetcherVars
FetcherFairSpec == FetcherSpec /\ FetcherFairness
-----------------------------------------------------------------------------
(* Properties.                                                             *)

\* The map registers for a key exactly the call whose promise is being
\* served for it: fetch never deletes, or leaves behind, another flight's
\* entry (the finally of fetch, and calls that join between settling and it).
FlightsRegistered ==
    /\ \A c \in Callers : IsOwner(c) =>
            stage[c] # "idle" /\ key[c] # None /\ inFlight[key[c]] = c
    /\ \A k \in Keys : inFlight[k] # None =>
            IsOwner(inFlight[k]) /\ key[inFlight[k]] = k

\* Who waits for an answer waits on a promise that is still to be returned,
\* and every unsettled promise has one item, in the queue or with the worker
\* (processQueue re-entered by fetch while it runs neither loses an item nor
\* runs it twice).
CallsAreServed ==
    /\ \A c \in Callers : stage[c] = "awaiting" =>
            /\ awaits[c] # None
            /\ IsOwner(awaits[c])
            /\ key[awaits[c]] = key[c]
    /\ {c \in Callers : IsOwner(c) /\ stage[c] = "awaiting"}
            = Range(queue) \cup ({current} \ {None})
    /\ IsInjective(queue)
    /\ current \notin Range(queue)

\* The API is never asked twice for what it is being asked for: the queue and
\* the worker hold at most one item of a key, though a flight is up until its
\* finally and requests, refreshes and crons call fetch on their own.
OneItemPerKey ==
    \A c, d \in Range(queue) \cup ({current} \ {None}) : key[c] = key[d] => c = d

\* isProcessing tells the truth: it is set exactly while the worker holds an
\* item, and items wait in the queue only then (processQueue's early return).
FlagIsTruthful ==
    /\ isProcessing <=> current # None
    /\ isProcessing <=> phase # "off"
    /\ queue # <<>> => isProcessing

\* However often the API answers 429, one item holds the only worker for at
\* most three sleeps of at most 25 seconds (executeWithRetry).
RetryBudget ==
    /\ attempt <= MaxRetries + 1
    /\ slept <= MaxRetries * MaxWaitSeconds

\* Every call of fetch ends, queued behind others and rate limited or not.
EveryCallReturns ==
    \A c \in Callers : stage[c] = "awaiting" ~> stage[c] = "idle"

\* The flights as SingleFlight sees them.
Coalesced == INSTANCE SingleFlight WITH
    aboard <- [k \in Keys |-> {c \in Callers : key[c] = k /\ awaits[c] # None}],
    landed <- [k \in Keys |-> IF inFlight[k] = None THEN None
                              ELSE out[inFlight[k]]],
    ticket <- [c \in Callers |-> IF IsOwner(c) THEN None ELSE out[c]]

\* FetcherService implements SingleFlight, its fairness included.
ImplementsSingleFlight == Coalesced!Spec
=============================================================================
