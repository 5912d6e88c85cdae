# Football Datacenter API: specification and verification

The repository is a NestJS service: it serves data of football-data.org through a
cache in Redis, and keeps accounts with their favourite teams, favourite
competitions and hidden competitions in Postgres. This directory models the
parts of it that are concurrent or depend on time, checks them with TLC on small
instances, and proves their safety with TLAPS for any number of requests, keys,
users and replicas. Paths below are relative to `src/src/` of the
repository.

## The system

| Part | State | Operations | What is hard |
|---|---|---|---|
| `football-data/fetcher.service.ts` | map of promises in flight, queue, `isProcessing` | `fetch`, `processQueue`, `executeWithRetry` | calls that join a flight at any moment up to its `finally`; the loop re-entered by every call; retries holding up the others |
| `football-data/football-data.service.ts` | the cache in Redis | `getData`, `fetchInline`, `doFetchAndCache`, `triggerBackgroundRefresh`, `fetchAndCache` | entries read before an await; writers outside the queue; Redis failing between two steps |
| `football-data/football-data.types.ts` | none | thresholds and TTLs, which depend on the time of day | midnight and 3 AM between a fetch and a read |
| `football-data/sync.service.ts` | `isShuttingDown` | four crons | loops that outlive the shutdown; local against UTC dates |
| `matches`, `team`, `competitions`, `standings` | none of their own | endpoints, some of which join two sources | one source missing; one object shared by several requests |
| `interceptors` | none | result to HTTP | |
| `users/auth.service.ts`, `users/users.service.ts` | table `user` | sign-up, sign-in, PATCH | check, await, then act |
| `users/favourite`, `users/hidden` | three tables of links | add, remove, list | the same, against PATCH, which saves the relations too |
| `guards`, `users/interceptors` | none | token to user | |
| `app.service.ts`, `health.controller.ts` | one Redis key | health | time limits; two replicas, one key |
| `main.ts`, `app.module.ts` | connections, throttling | start, shutdown | shutdown against work in progress |
| `k8s`, `charts` | two replicas | | two queues, one cache |

A request to the football side goes endpoint → `FootballDataService.getData` →
Redis, and on a miss → `FetcherService.fetch` → queue → HTTP → Redis; on a stale
entry the same path is taken behind the client's back. The crons enter at
`fetchAndCache`. The users' side talks to Postgres, and asks the football side for
names and pictures when a favourite is added.

## What makes each part correct

* Fetcher: one flight per key, shared by the calls that overlap; one task at a
  time; no item lost or run twice; every call ends; no key holds up the others
  beyond a bound.
* FootballData: no client sees older data than others have been sent; no older
  entry overwrites a newer one; what is promised as being refreshed is; every
  request is answered.
* MatchDay: fixtures give way to live scores, live scores to results; an entry
  goes stale before it goes, but for those that see the results become final.
* Today's matches: missing from the cache no longer than the period of the cron
  and the TTL explain.
* Replicas: what any of them answers as fresh is fresh, give or take the skew of
  the clocks; nothing outlives its TTL.
* Jobs: one key per API call; stale before gone, with the same exception.
* Crons and shutdown: no accepted request is cut off, unless `app.close()` fails
  before the server is closed; none is pushed back in the
  queue without bound, the shutdown ends, a failure does not end a loop.
* Endpoints: only available competitions are listed; what is missing is answered
  as missing; pages tile the list.
* Access: a request acts for the user of its own token, or for nobody.
* Health: checks do not make each other fail; each is answered.
* Users: addresses are unique, rows stay with their user, deletes hit what they
  were aimed at, nothing is lost but to a race; passwords are hashed.

## Modules

`SingleFlight` is the promise of the queue to its callers: board the flight of a
key, it lands once with one outcome, everybody aboard leaves with it.

`Fetcher` is `FetcherService`. Node runs one continuation at a time, so an action is
the code between two awaits. `awaits[c]` is the promise a call waits on, named by
the call that made it, and `inFlight`, `queue`, `isProcessing` are the fields of the
class. `current`, `phase`, `attempt` and `slept` are where the loop of
`processQueue` is; `slept` is a history variable, the seconds slept for the item.
`Fetch` runs up to its first await, with the synchronous start of `processQueue`
when the loop is not running; `Settle` is `resolve`/`reject` together with the next
turn of the loop; `OwnerReturns` is the `finally`. The calls that joined are settled by it
and return later, in any order: they adopted the promise, which takes them more
turns of the microtask queue than the owner's `await`. `Coalesced` is the refinement mapping to
`SingleFlight`. The module says "settled" for a promise whose reaction has not run.

`FootballData` extends `Fetcher` with the service, the cache and the API. The API
holds a revision of each key, which `Publish` increments, or drops the resource
(`found`), so that older and newer can be told apart; `Serve` takes what is there at that
moment. An entry goes stale, or away, at any time, so the model has the behaviours
of every choice of thresholds. `snap` is the local `cached` of `getData`, `resp`
what was answered, `delivered` and `floor` remember what clients had been sent.
Background refreshes call `fetch` under the name of their key: `isInFlight` allows
one at a time. `Hang` is an API that accepts a request and never replies: the code
sets no time limit, so the worker then waits for ever. Two assumptions about the
runtime are in the model:

* `Quiescent`: a reply or a timer is a macrotask, and Node runs it when all the
  continuations of promises settled before have run.
* The commands of one Redis client are executed in the order in which they were
  issued, so a `set` takes effect in the step that issues it, and a lost reply is
  not told apart from a refused command.

`StoreOvertaking`, one of the mutants, is the model without the first assumption:
an entry that says "not available" then overwrites newer data.

`ReadThrough` is what the service promises to requests, without cache, queue or
API calls: an answer that is no older than what anybody had been sent when the request
came, or to come back later; once the API has stalled, perhaps nothing. `Promised`
in `FootballData` is the refinement mapping.

`Jobs` is `football-data.types.ts` as tables: from a job to its key, its path, the part
of the reply that is kept, and the rows of `CACHE_CONFIG` that the getter and the
task take its threshold and its TTL from. A key is a sequence of the parts that
its template puts together. `job` and `other` are two jobs fetched one after the other.
The matches of a date take their row from `getMatchesCacheConfig`, which is called when
the task starts and again when the entry is read: `startedIn` and `readIn` are the eras of the
date (ahead, on, over) at the two moments. `MatchDay` has the hours at which one
era follows another; here any may pass in between.

`Peers` is the one entry of a key under several replicas, whose fetchers know
nothing of each other. Times are ages, so nothing grows without bound; `Ahead` is
how wrong the clock of a replica is. Within a replica it relies on what `Fetcher`
promises, one flight per key.

`MatchDay` is the one entry for the matches of one date, with the actual numbers
of `CACHE_CONFIG`, in minutes. `asked` is when the task started (and chose the TTL),
`at` the timestamp of the entry. Redis drops the entry when its TTL ends; there is at
most one task, which is what Fetcher guarantees. `Warmup` extends it with
`syncTodayMatches`, its schedule and its date, which is the server's local one (`Offset`);
the image sets no time zone, so the run has 0. It holds the next-state relation of both.
`StaleAt(t)` is how `getData` would take the entry at the time `t`, by the threshold of that time.

`Lifecycle` extends `Fetcher` with one process from start to exit. A cron is an
invocation with an agenda of keys: `Begin` is the method up to its first await, with the only test of
`isShuttingDown`, `Synced` the end of one `fetchAndCache`, `Loop` the
next turn. The schedule, clients and signals come at any time.

`close` holds the calls of `app.close()`, by `Signal`, and how far each is. `Hooks` runs the
hooks of the modules, which may fail, and has the server stop listening; `Drained` waits for the open
requests and runs the hooks that come after, as TypeORM's, which may fail too; `Exit` is the `finally`
of `main.ts`, which follows however the call has settled and looks at no request. The order of these is Nest's and is
external, as is what the libraries' hooks do, that a second `app.close()` finds a server that
has stopped listening and has nothing to wait for, and that an idle keep-alive connection does not hold the server. So
`AcceptedAreAnswered` rests on two things of `main.ts`: its own `isShuttingDown`, without which a second signal would
reach `Exit` past the open requests (the mutant `SignalTwice`), and that `Exit` waits for `app.close()`. It excepts
the case in which a hook fails before the server is closed: then the process exits under
open requests, and `main.ts` only logs the error. `waited` is a history variable.

`Endpoints` joins two results of `getData`. Data are sets of competitions. `object`
is the team object that a flight hands to every request aboard, which `getById`
filters in place and the serializer reads one step later. The lists of favourite and
hidden competitions are the kind `links`, the endpoints that pass one source on
`single`. `Paging` is a client that reads the matches of a date with `limit` and `offset`
while the list may change.

`Access` follows a token through `AuthGuard`, `CurrentUserInterceptor` and the handler, each
with its own verification and lookup; in between tokens expire, the database fails and
other requests run.

`Health` has any number of checks, on any replica, over the one test key in Redis. A command
to Redis may never come back. `gap` is a history variable, the time since the check's `set`.

`Users` has the table of accounts and one table of links for the three, whose
code and columns are the same. An action is the code between two awaits with the query it ends
in; a query is atomic, as it is in Postgres. The find of `update` and its `save`
are two steps: `save` compares the object with the rows of that moment and writes
what differs, so every column is made what the object says and every row the object
does not hold loses its user. Between the two anything may happen, on either
replica. `owner` is a history variable. Answers are
classes of status codes, as a property tells apart 4xx from 5xx only.

The theorems are in modules of their own: `FetcherProofs`, `FootballDataProofs` (which extends it, as
`FootballData` extends `Fetcher`), `LifecycleProofs` (likewise), `WarmupProofs` (`MatchDay` and `Warmup`),
`EndpointsProofs`, `UsersProofs`, `AccessProofs`, and `SeparateProofs` for `Health`, `Peers`, `Jobs`, `Paging` and the
specification of `MCSeparate`. `MCFetcher`, `MCFootballData`, `MCLifecycle`,
`MCEndpoints` and `MCUsers` give TLC its inputs and symmetries. `MCSeparate` puts
`Health`, `Access`, `Peers`, `Paging` and `Jobs` into one specification: they share no state, so a
behaviour is one of one of them, and the run's state graph is their union. Definitions that begin with
`\* Mutant` are plausible bugs, used to show that a property can fail; they are in
no next-state relation.

## Runs

| Run | Module | Bounds | What it shows |
|---|---|---|---|
| fetcher | MCFetcher | 4 calls, 2 keys, hints 0, 20 and 21 s | registry, queue and flag agree; one item per key; the retries are bounded; every call ends; the queue implements `SingleFlight` with its fairness |
| cache_safety | MCFootballData | 2 requests, 1 cron, 1 key, 3 revisions, Redis may fail | answers and entries never go back |
| cache_live | MCFootballData | 2 requests, 1 key, 2 revisions, Redis may fail, the API may hang | the service implements `ReadThrough` with its fairness; a stale entry that was read is replaced, unless that fails; with an API that hangs, who finds an entry is answered |
| match_day | Warmup | 4 days around a date, clock in steps of 5 min, replies within 10 | results are final, fixtures give way, entries go stale before they go unless 3 AM comes in between, today's matches are kept warm |
| endpoints | MCEndpoints | 2 requests, 2 competitions | only available competitions are listed, with a shared object |
| lifecycle | MCLifecycle | a loop of 2 keys, a cron of 1, a request for any, hooks that may fail | nothing accepted is cut off unless a hook fails first, waits are bounded, the shutdown ends, loops go on |
| users | MCUsers | 2 calls at a time, 2 accounts, 2 addresses, 2 links | uniqueness, ownership, deletes, races |
| separate | MCSeparate | 2 checks; 2 requests and 2 users; 3 replicas, clocks 0, 1 and 2 ahead; lists of up to 4 matches, limits to 2; 20 jobs, 3 eras of a date | health checks, access, replicas, paging, jobs |
| endpoints_gone | MCEndpoints | as endpoints | violated: a missing team or date is 500, not 204 |
| users_duplicates | MCUsers | 1 account, 1 target | violated: a favourite twice |
| users_signup_race | MCUsers | 2 calls, 2 addresses | violated: the loser of a race gets 500, not 400 |
| users_patch_password | MCUsers | 2 calls, 1 link | violated: PATCH stores the password as it came |

Why the bounds are enough. A flight needs an owner, a joiner, a late caller and one
caller of another key ahead in the queue: four calls. The hints are no hint, the
longest wait that is retried and the shortest that is not. Two keys are enough for it. Three revisions let a
request hold the first while the second is sent and the third published, and one
key is enough for the properties of the cache, which are about one key; waiting behind others is
the fetcher's and is in `fetcher` and `lifecycle`. There, three keys let an item be overtaken
by two others, again and again if the queue allowed it; two do not. The clock's step divides
the hours at which thresholds change, the period of the cron and the TTL of live matches; it is coarser than
the 2 minutes after which those are stale, which only makes a model entry stale or not at the multiples of 5
where it is looked at. For replicas, two writers and a reader with a third clock are enough, as an
entry has one writer at a time. The step of a health check's clock, 500 ms, divides the TTL of its
key and its limit. Four matches make two full pages and what `MaxLimit` cuts off. Two calls are one race; what a third call could add to the rows of
`Users` happens with two, one after the other. The properties over actions
of `Users` are checked under symmetry of calls and addresses, which the
specification treats alike and no property names; no temporal property with
fairness is checked under symmetry.

`MaxRev`, `MaxUsers`, `MaxRows` and `LastDay` cap what is unbounded: an action that
would exceed one is disabled; `MaxMissing` is where `Warmup` stops counting. `MaxDelay` is an
assumption of `MatchDay` and `Peers`, since the program sets no limit on the API's reply, and
`Skew` one on the clocks of the replicas. Deadlock is checked but in two runs: in lifecycle the
process exits, in cache_live everybody may wait for an API that hangs, which cache_safety, without
hanging, excludes.

## Fairness

`FetcherFairness` asks that a task that was called settles, that a timer fires and
that continuations run: Node's event loop does the last two. The first is the API's and the socket's: `httpService.get` has no time limit.
Nobody has to call `fetch`. `FootballData` asks for the
same of its steps: the API and Redis answer, if only with an error, unless `Hang`
has been taken: then the only worker is stopped, and every key with it. Neither the
crons nor the publishing, staleness and expiry of data are assumed to happen.
`Lifecycle` asks that the worker goes on, that what has begun continues, and that
the stages of `app.close()`, which may fail but not hang in a hook, and `process.exit` follow a signal; no cron, request or signal has to come. `Health` asks
that the clock runs, timers fire and the database replies, which is an assumption the
code needs, as its query has no limit; Redis need not reply.

## What is proved

Every invariant of the passing runs, and every action property, for every value of
the constants that the named assumptions allow: any number of requests, crons, keys, users,
replicas, checks, any lists and any delays. In addition the safety parts of the two
refinements, and that `FootballData` and `Lifecycle` use the queue only as `FetcherSpec` allows.

### FetcherProofs

* `TypeCorrect`, `FlightsStayRegistered`, `NoCallIsLost`, `FlagStaysTruthful`,
  `RetriesAreBounded`, `ItemsAreOnePerKey`: the six invariants of the run fetcher;
* `SharesFlights`: `FetcherSpec` implements the safety part of `SingleFlight`.

All rest on the inductive invariant `IInv`. The invariants of the run are not
inductive on their own: when a call returns one must know that no record of an
earlier call is left (`CallRecords`: an idle call has no key, no promise and no
outcome; a settled one has an outcome and is the owner of its promise or waits on nobody), and for
the bound on sleeping that what was slept matches the attempt (`SleepsAreCounted`).
There is one lemma per action, two about the queue as a sequence (`ShiftQueue`,
`PushQueue`), and for the refinement one per action of `SingleFlight`: a call
boards, a settled promise lands, the `finally` disembarks, a joiner that returns leaves; worker
steps that settle nothing stutter.

### FootballDataProofs

* `DrivesTheQueue`: `Spec => FetcherSpec`. A step of the cache, a request or a cron is a step of the queue
  or leaves it alone, so all theorems above hold of the whole service;
* `NoAnswerGoesBack` and `NoEntryGoesBack`: what clients are sent, and the entry of a key, never go back;
* `AnswersAsPromised`: `Spec` implements the safety part of `ReadThrough`.

Neither answers nor entries are ordered for a reason that lies in the cache alone: an older revision could
come from a flight's outcome, the reply under way, the API, or the entry that a request had read. The inductive invariant
`CacheInv` therefore says, in `KnownFrom(k, n)`, that nothing k can still be answered from is older than n, and that this is so for every
revision that has been sent, cached, or read (`EntriesInOrder`, `SnapshotsInOrder`, `OutcomesInOrder`, `ReplyInOrder`).
One lemma turns on where revisions come from (`Flows`): a new entry, outcome or reply is a copy of an old one of the
same key, or is what the API holds; each action is shown to be of that kind. `Quiescent` is what
makes a store safe: it comes after everybody aboard an earlier flight has acted on its outcome.

### LifecycleProofs

* `ShutdownIsGraceful`: the process exits under a request that it has accepted only if a hook has failed before the
  server was closed. `ShutdownInOrder` is what makes it so: there is one call of `app.close()`, the server listens until the
  call has passed the hooks, nobody new comes after, and beyond that the call settles only when nobody is left;
* `WaitsAreBounded`: nobody waits for more than one task per key, for any finite set of keys and any
  agendas. `WaitIsBounded` is not inductive; `LineIsShort` counts by place: who waits for the i-th item
  has seen at most `Cardinality(Keys) - i - 1` tasks end. That a new item still fits (`Len(queue) < Cardinality(Keys)`) is a lemma from `OneItemPerKey`:
  keys of items are distinct, so they inject into `Keys`;
* `LifeDrivesTheQueue`: `Spec => FetcherSpec`.

### UsersProofs

* `EmailsStayUnique`, `RowsStayInHand`, `DeletesAreSafe`, and the action property `LostOnlyToRaces`.

`UInv` adds to them what a request still knows of the rows that it read one await ago (`FrameHolds`): as far as they
are there, they belong to the user and the target it read them for. That rests on numbers never being given out
twice (`RowsAreNumbered`), which is Postgres's sequence.

### WarmupProofs

* `ResultsGetFinal`, `FixturesAreReplaced` and `StaleFirst` from `DayInv`: a reply comes within `MaxDelay`, an entry lives by
  the configuration of the moment it was asked for. They hold for every date, step, delay and offset;
* `TodayStaysWarm`, with the hypothesis `Offset = 0`: in the hours in which the server's date and that of the API differ
  the cron fetches another date, so it is a theorem about a server on UTC, which the image is. `WarmInv` relates how long the entry has been missing to the
  last run of the cron; TLC checked it before the proof for steps of 1, 3, 5 and 15 minutes (1 in part) and delays of 10 and 21.

### EndpointsProofs, AccessProofs, SeparateProofs

* `ListsOnlyAvailable`: the object that several requests filter in place only loses competitions
  (`EndpointsInv`), so each finds what it listed within its own filter, whoever came in between;
* `ActsForOwnUser`, `OpenRoutesStayOpen`: guard, interceptor and handler look the user up three times; `CallOK`
  ties each result to the subject of the token;
* `ChecksAreApart`: `HealthInv` says of a check that waits for its `get` that the remaining life of the key and the time since its `set` make up the TTL
  at least. The proof needs that the limit is a multiple of the clock's step (`HealthAssumption`, `ClockInSteps`), else time would pass it;
* `FreshStaysFresh`, `NothingOutlives`: `PeersInv` says that data are no older than their timestamp and the delay of a reply account for.
  `NothingOutlivesItsTTL` follows from it and the expiry at Redis alone, so it is proved and in no run;
* `KeysAreExact`, `StaleComesFirst`: for any ids and dates, by cases over the ten kinds of jobs and, for the matches of a date,
  over the eras in which the task starts and the entry is read;
* `PagesAlwaysTile`: `PagingInv` says that what has been read of a list that has not changed is its beginning, as far as `offset`;
* `SeparateTypeCorrect`: the type invariant of the joint specification.

### Assumptions

The assumptions are on constants, are named in the module that declares them, and TLC evaluates them in the runs:
`None`, `Nothing` and `Nobody` are not among the values they stand beside; hints, bounds and times are natural numbers, `Stale < TTL`; the
clocks of two replicas differ by at most `Skew`; callers are the disjoint sets of requests, keys and crons (`FootballDataAssumption`,
`LifecycleAssumption`); agendas are sequences that are not empty, and there are finitely many keys (`LifecycleAssumption`);
the word "all", which a key has instead of dates, is no date (`JobsAssumption`); the clock's step in `Warmup` divides the 15
minutes of the cron. `Offset = 0` is a hypothesis of one theorem.

### What is only model-checked

Whatever depends on fairness: `EveryCallReturns`, `StaleIsRefreshed`, `CachedRequestsDoNotWait`,
`ShutdownEnds`, `LoopsGoOn`, `CheckEnds` and the fairness parts of `SingleFlight` and `ReadThrough`
(`ImplementsSingleFlight`, `ImplementsReadThrough`). The prover has no rules for fairness and `ENABLED`. The four violated properties
are counterexamples of the runs.

## Where the code and its documents disagree

The four violated runs are described in `PROJECT.json` under findings, with the
lines they quote:

1. teams and matches that the API does not have are answered with 500;
2. a favourite, or a hidden competition, can be added twice: the migration creates
   no unique constraint for the insert to fail on;
3. a sign-up that loses a race for an address is answered with 500;
4. PATCH stores passwords unhashed, after which `signin` refuses them.

`LinksAreLostOnlyToRaces` holds, and shows the limit of what holds: a favourite
that is added while a PATCH of the same user is between its find and its save loses
its user.

`StaleBeforeGone` and `GoesStaleFirst` show another: the matches of a date that are fetched in the ten minutes before 3 AM of
the next day keep the TTL of a live score, but are read with the threshold of a final one. They are fresh until they vanish, and the request
after that waits for the queue. The entries of every other hour go stale first.

The documents promise a graceful shutdown and health checks, and `AcceptedAreAnswered`, `ShutdownEnds`,
`ChecksDoNotDisturb` and `CheckEnds` hold; what they rest on is said above: no SIGKILL in between
(Kubernetes waits 30 s, an item can hold the worker for 75), no hook that fails before the server is closed (`process.exit` then
cuts off every request under way, `main.ts:48-49`), and a database that replies: a check whose `SELECT 1` hangs is never answered.

## Not modelled

* Throttling: `ThrottlerGuard` and its storage are a library's; `src/` only gives it limits, and
  reads or writes none of its state. A model would translate the library.
* Connections and configuration: choice of URL or host and port, logging, reconnection. Commands that
  fail for a while are part of `FootballData`, `Health` and `Access`.
* The start in `main.ts` (CORS, pipes, prefix, port): set once, before the first request.
* Reading endpoints of accounts, sign-out, cookies, and serialization by DTO: no state.
* `UsersService.remove`, which nothing calls.
* Images, probes and volumes of the deployment.

## Plan

Done: all modules named above, checked, and the theorems listed under `theorems` in `PROJECT.json`.

What could still be proved is what lies between the components:

1. a step of `Lifecycle` that starts or ends a sync is one that `FootballData` allows a cron, so that the shutdown and
   the cache need no longer be put together by hand;
2. the safety half of the liveness properties: that a state in which a call waits always has the worker's next step
   enabled, stated without `ENABLED`, as the guard itself;
3. that `Peers` with one replica and no skew behaves as the cache of `FootballData` does for one key.
