------------------------------- MODULE Lifecycle -------------------------------
(***************************************************************************)
(* One process from start to exit: the crons of SyncService                *)
(* (football-data/sync.service.ts) and the HTTP requests share the queue of *)
(* Fetcher, until a signal makes main.ts close the application and exit.   *)
(*                                                                         *)
(* A cron is an invocation: two of one schedule that overlap are two crons *)
(* with one agenda.  A request is one call of getData, which may need the  *)
(* queue or not.  app.close() is Nest's: the hooks of the modules before    *)
(* and after it closes the server are external, and any of them may fail,  *)
(* except that of SyncService, which only sets a flag.                     *)
(***************************************************************************)
EXTENDS Fetcher, FiniteSets

CONSTANTS
    Requests,       \* HTTP requests
    Crons,          \* invocations of the methods marked @Cron
    Agenda          \* Agenda[s]: the keys that s fetches, in order

ASSUME LifecycleAssumption ==
    /\ Callers = Requests \cup Crons /\ Requests \cap Crons = {}
    /\ Agenda \in [Crons -> Seq(Keys)]
    /\ \A s \in Crons : Agenda[s] # <<>>
    /\ IsFiniteSet(Keys)

VARIABLES
    app,            \* "listening", "stopped" doing so, or "exited"
    close,          \* close[i]: how far the i-th call of app.close() is, or how
                    \* it has settled
    isShuttingDown, \* the flag of SyncService
    at,             \* at[r]: "away", "accepted", or "fetching"
    pos,            \* pos[s]: how far s is in its agenda, 0 if not running
    waited          \* waited[c]: tasks that have ended since c called fetch,
                    \* up to the one it waits for; 0 if it waits for none

shutdownVars == <<app, close, isShuttingDown>>
vars == <<fetcherVars, shutdownVars, at, pos, waited>>

\* app.close() resolves; a hook before the server is closed has failed, or one
\* after, as that of the database; the server was closed already.
Settled == {"resolved", "hookFailed", "lateHookFailed", "notRunning"}
CloseStages == {"hooks", "draining"} \cup Settled

TypeOK ==
    /\ FetcherTypeOK
    /\ app \in {"listening", "stopped", "exited"}
    /\ close \in Seq(CloseStages)
    /\ isShuttingDown \in BOOLEAN
    /\ at \in [Requests -> {"away", "accepted", "fetching"}]
    /\ pos \in [Crons -> Nat] /\ \A s \in Crons : pos[s] <= Len(Agenda[s])
    /\ waited \in [Callers -> Nat]

Init ==
    /\ FetcherInit
    /\ app = "listening"
    /\ close = <<>>
    /\ isShuttingDown = FALSE
    /\ at = [r \in Requests |-> "away"]
    /\ pos = [s \in Crons |-> 0]
    /\ waited = [c \in Callers |-> 0]

Running == app # "exited"

Call(c, k) == Fetch(c, k) /\ waited' = [waited EXCEPT ![c] = 0]
Answered(c) == Return(c) /\ waited' = [waited EXCEPT ![c] = 0]
-----------------------------------------------------------------------------
(* SyncService.                                                            *)

\* The schedule fires: up to the first await of the method.
Begin(s) ==
    /\ Running /\ ~isShuttingDown
    /\ pos[s] = 0
    /\ pos' = [pos EXCEPT ![s] = 1]
    /\ Call(s, Agenda[s][1])
    /\ UNCHANGED <<shutdownVars, at>>

\* Mutant: the try is around the loop.
SyncedOrThrown(s) ==
    /\ Running
    /\ Answered(s)
    /\ pos' = [pos EXCEPT ![s] = IF out[s] \in {RateLimited} THEN 0 ELSE @]
    /\ UNCHANGED <<shutdownVars, at>>

\* fetchAndCache returns or throws, which is caught and logged.
Synced(s) ==
    /\ Running
    /\ Answered(s)
    /\ UNCHANGED <<shutdownVars, at, pos>>

\* Mutant: the loop does not stop at the last of its agenda.
LoopRunsOver(s) ==
    /\ Running
    /\ pos[s] # 0 /\ stage[s] = "idle"
    /\ pos' = [pos EXCEPT ![s] = @ + 1]
    /\ IF pos[s] < Len(Agenda[s]) THEN Call(s, Agenda[s][pos[s] + 1])
       ELSE UNCHANGED <<fetcherVars, waited>>
    /\ UNCHANGED <<shutdownVars, at>>

\* The next turn of the loop, or its end.  The flag is not read again.
Loop(s) ==
    /\ Running
    /\ pos[s] # 0 /\ stage[s] = "idle"
    /\ \/ /\ pos[s] < Len(Agenda[s])
          /\ pos' = [pos EXCEPT ![s] = @ + 1]
          /\ Call(s, Agenda[s][pos[s] + 1])
       \/ /\ pos[s] = Len(Agenda[s])
          /\ pos' = [pos EXCEPT ![s] = 0]
          /\ UNCHANGED <<fetcherVars, waited>>
    /\ UNCHANGED <<shutdownVars, at>>
-----------------------------------------------------------------------------
(* Requests and the worker of the queue.                                   *)

Accept(r) ==
    /\ app = "listening"
    /\ at[r] = "away"
    /\ at' = [at EXCEPT ![r] = "accepted"]
    /\ UNCHANGED <<fetcherVars, shutdownVars, pos, waited>>

\* The request is answered from the cache, or has to fetch.
Proceed(r) ==
    /\ Running
    /\ at[r] = "accepted"
    /\ \/ /\ at' = [at EXCEPT ![r] = "away"]
          /\ UNCHANGED <<fetcherVars, waited>>
       \/ /\ at' = [at EXCEPT ![r] = "fetching"]
          /\ \E k \in Keys : Call(r, k)
    /\ UNCHANGED <<shutdownVars, pos>>

Respond(r) ==
    /\ Running
    /\ Answered(r)
    /\ at' = [at EXCEPT ![r] = "away"]
    /\ UNCHANGED <<shutdownVars, pos>>

\* A task ends, unless out is unchanged; c still waits for it or for another.
Worker ==
    /\ Running
    /\ TaskSettles \/ TaskHitsLimit \/ Wake
    /\ waited' = [c \in Callers |->
            IF out' # out /\ awaits[c] # None /\ stage[awaits[c]] = "awaiting"
            THEN waited[c] + 1 ELSE waited[c]]
    /\ UNCHANGED <<shutdownVars, at, pos>>
-----------------------------------------------------------------------------
(* main.ts.                                                                *)

\* Mutant: a second signal is not ignored.
SignalTwice ==
    /\ Running /\ Len(close) < 2
    /\ close' = Append(close, "hooks")
    /\ UNCHANGED <<fetcherVars, app, isShuttingDown, at, pos, waited>>

\* SIGTERM or SIGINT: shutdown calls app.close(), unless it has done so.
Signal ==
    /\ Running /\ close = <<>>
    /\ close' = <<"hooks">>
    /\ UNCHANGED <<fetcherVars, app, isShuttingDown, at, pos, waited>>

\* The hooks before the server is closed, SyncService's among them, one of
\* which may fail; then the server stops listening.  A server that has done so
\* already has nothing to wait for.
Hooks(i) ==
    /\ Running /\ close[i] = "hooks"
    /\ \/ /\ close' = [close EXCEPT ![i] = "hookFailed"]
          /\ isShuttingDown' \in {isShuttingDown, TRUE}
          /\ UNCHANGED app
       \/ /\ close' = [close EXCEPT ![i] =
                        IF app = "listening" THEN "draining" ELSE "notRunning"]
          /\ isShuttingDown' = TRUE
          /\ app' = "stopped"
    /\ UNCHANGED <<fetcherVars, at, pos, waited>>

\* The server is closed when its last response has been sent; then the hooks
\* after, as that of TypeORM, which closes the connections to the database.
Drained(i) ==
    /\ Running /\ close[i] = "draining"
    /\ \A r \in Requests : at[r] = "away"
    /\ \E s \in {"resolved", "lateHookFailed"} : close' = [close EXCEPT ![i] = s]
    /\ UNCHANGED <<fetcherVars, app, isShuttingDown, at, pos, waited>>

\* finally, however app.close() has settled: process.exit(0).
Exit ==
    /\ Running
    /\ \E i \in DOMAIN close : close[i] \in Settled
    /\ app' = "exited"
    /\ UNCHANGED <<fetcherVars, close, isShuttingDown, at, pos, waited>>

Next ==
    \/ \E s \in Crons : Begin(s) \/ Synced(s) \/ Loop(s)
    \/ \E r \in Requests : Accept(r) \/ Proceed(r) \/ Respond(r)
    \/ Worker
    \/ Signal
    \/ \E i \in DOMAIN close : Hooks(i) \/ Drained(i)
    \/ Exit

\* Neither the schedules, nor clients, nor signals have to come.
Fairness ==
    /\ \A s \in Crons : WF_vars(Synced(s)) /\ WF_vars(Loop(s))
    /\ \A r \in Requests : WF_vars(Proceed(r)) /\ WF_vars(Respond(r))
    /\ WF_vars(Worker)
    /\ WF_vars(\E i \in DOMAIN close : Hooks(i) \/ Drained(i))
    /\ WF_vars(Exit)

Spec == Init /\ [][Next]_vars
FairSpec == Spec /\ Fairness
-----------------------------------------------------------------------------
(* Properties.                                                             *)

\* Graceful shutdown: a process that exits under a request it has accepted has
\* had a hook fail before its server was closed.  Neither further signals nor a
\* hook that fails later, as the database's, cut a request off, although
\* process.exit follows app.close() however it settles (main.ts, shutdown).
AcceptedAreAnswered ==
    app = "exited" =>
        \/ \A r \in Requests : at[r] = "away" /\ stage[r] = "idle"
        \/ \E i \in DOMAIN close : close[i] = "hookFailed"

\* A call of fetch waits for at most one task per key, its own included: the
\* crons and their overlapping loops cannot put their items before it, and an
\* item they have queued already is shared (fetch, syncStandings).
WaitIsBounded == \A c \in Callers : waited[c] <= Cardinality(Keys)

\* The shutdown ends, although a loop that has begun goes on queueing.
ShutdownEnds == close # <<>> ~> app = "exited"

\* A competition that cannot be fetched does not cost the ones after it
\* their refresh (the loops of syncStandings and syncCompetitions).
LoopsGoOn ==
    \A s \in Crons : \A i \in 1..(Len(Agenda[s]) - 1) :
        pos[s] = i ~> pos[s] = i + 1 \/ app = "exited"
=============================================================================
