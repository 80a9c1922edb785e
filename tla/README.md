# A verification model of fetchaller

fetchaller is an MCP server that fetches web pages, searches, and reads Reddit
and a few dozen marketplaces for a language model. It runs as one Python process
on one asyncio event loop, over stdio or behind a Starlette HTTP application
with OAuth. What is hard in it is not the HTML it rewrites but the state that
concurrent tool calls share: a queue, limiters, token caches, worker slots,
backoffs, and an OAuth store that must survive a crash. This project models that
state in TLA+, checks it with TLC on small instances, and proves its main
results with TLAPS for instances of any size.

Paths are relative to `src/fetchaller/` in the repository; PROJECT.json names the
same files with the prefix `src/src/fetchaller/`.

Contents: 1 inventory, 2 how the project grew, 3 models and code, 4 runs, 5 fairness, 6 proofs,
7 where code and text disagree, 8 what is left out.

## 1. Inventory

All components share one event loop. A coroutine runs without interruption from
one `await` to the next, and may be cancelled at any `await`. Threads share
state in two places: the pool and cleanup threads of the parser processes, and
the browser egress proxy. Only the OAuth store outlives the process.

| component | state | operations | interacts with | hard behaviours | correct when |
|---|---|---|---|---|---|
| **Reddit request queue** `queue/reddit_queue.py` | FIFO of items with futures, start times of the last minute, backoff deadline, processor task, running flag | `enqueue`, processor loop, `set_backoff`, `stop`, automatic restart | tools await futures and impose backoffs afterwards; shutdown stops it; callbacks run in tasks of their own | abandonment during sleep or callback; `enqueue` during the `await` in `stop`; a delay that is stale after the sleep | no caller is lost, answers are final, one request at a time, rolling budget, bounded wait, backoffs hold |
| **OAuth store** `http/oauth.py`, token endpoint `http/routes.py` | clients and refresh tokens in memory and in one file; codes in memory; readiness | register, authorize, exchange, rotate, reject, cleanup, load, persist | called by the HTTP routes; the disk | writes that fail before or after the rename; crash between rename and answer; power loss; unreadable file | memory never ahead of the file, single use of codes and tokens, nobody is locked out, pairings are kept |
| **Parser process slots** `content/_slots.py`, `_isolated.py`, `html.py`, `pdf.py` | a semaphore, per call the owner of its slot and child | acquire, start, poll, stop, deferred cleanup, cancellation at each await | pool threads, cleanup threads, child processes, the loop's `call_soon_threadsafe` | cancellation while a thread starts the child; a cleanup thread that cannot start; jobs dropped by the pool | each slot is returned once, never while its child lives, and always in the end |
| **Domain rate limiter** `ratelimit.py` | last pass, deferral, a lock | `wait`, `defer` | every site client waits before a request | `defer` while a caller sleeps; cancellation under the lock | spacing and deferrals hold; no one waits more than that |
| **AliExpress MTop client** `aliexpress/mtop.py` | signing token and its generation, three recovery locks, a TMD generation | request, bootstrap, prime, solve challenge | a shared wafer session and one browser solver | generations compared before and after awaits; a deadline per caller on shared locks | a late failure never clears, a late success never overwrites, a newer token; one solve serves all waiters |
| **Search** `search/__init__.py`, `ddg.py`, `brave.py`, `google.py` | sessions, result cache, DDG page states, Brave gate and backoff, Google cursors, document cooldowns and throttle count | fallback google → ddg → brave, page walks, backoff, document failover | limiters, `run_isolated`; tasks detached on timeout | detached provider tasks that go on; page 1 fetched outside the pages lock; bounded pools under concurrent walks | no request during a backoff, no repeated result across pages, no wrong cursor, bounded pools |
| **Browser egress proxy** `security/browser_proxy.py` | capacity slots, tracked sockets, close flag, waiters | start, preflight, accept, relay, close | socketserver threads, the browser | a handler that registers a socket while `close` copies the set; preflight waiting for its slot | slots conserved, every socket closed after `close`, no restart after close |
| **Home Depot hold** `homedepot/com.py` | hold deadline, length and start | hold, release | concurrent reads | answers sent before the hold arrive after it | a hold doubles once per probe, and only a later answer ends it |
| **Response cache** `cache/response_cache.py` | ordered map with expiry | get, set | fetch tool | replace at capacity, expiry before LRU | never stale, never above capacity, evicts the right entry |
| **HTTP rate limiter** `http/middleware.py` | timestamps per address, last cleanup | check, cleanup | HTTP requests | table full between cleanups | sliding window per address |
| **DNS resolution** `security/ssrf.py` | cache of answers and failures, table of sinkholed hosts, eight resolver threads | check, resolve, mark, store, evict | the loop and the proxy's threads; the system resolver; public resolvers | a thread outlives the timeout; the clock is read before the lookup; two tables under two holds of a lock | nothing is served past its time, failures are absorbed, every check ends |
| **Government job boards** `gojobs/`, `gcjobs/` | vocabulary cache, two locks, one conversation per session at the server | read vocabulary, search, page | a shared wafer session; the boards | a search gives up in the middle; the first page of a session is special | a search pages its own results; only a whole vocabulary is kept |
| **API discovery** `discovery/` | captured requests, store of recipes | observe, minimize, replay | browser | delta debugging with a server that is no function of the request | what is returned has passed and is 1-minimal |
| **Marketplace search** `marketplace/search.py` | tasks of one call | fan-out, one deadline | four site clients | partial failure, late answers | every site reported once |
| **Server, tools, site clients, converters, security helpers, configuration** | none, or sessions | parsing and formatting | all of the above | | |

The hazards of this code, each at its line and with the properties that watch
it, are listed in PROJECT.json under `hazards`.

## 2. How the project grew

The plan put what all requests depend on first: the Reddit queue, the OAuth
store, the parser slots and the domain limiter, then the site clients and pools
around them. What it named is modelled:

1. `RedditQueue`, `OAuthStore`, `ParserSlots`, and `DomainLimiter` refining
   `PacedGate`.
2. `MTopClient`, `SearchProviders` with `DdgPages`, `EgressProxy` with the
   shutdown of the browser, `EdgeHold`, `ResponseCache`, `AddressLimiter`.
3. Added to the plan: `DnsCache`, `JobBoards`, `Minimize`.
4. Proofs of every safety property that a passing run checks (section 6).

Open, in the order in which they would pay: the origin clearance of `realtor/api.py`, whose shape is that of the
primes in `MTopClient`; the observation and the stored plans of `discovery/`.

The specifications state parameters as CONSTANTS with named assumptions, contain
no RECURSIVE operator, and have one action per code path between two awaits (in
the proxy, between two operations that another thread can see), so that each can
be proved about as it stands.

## 3. Models and code

`MCRedditQueue`, `MCOAuthStore`, `MCParserSlots` and `MCSearchProviders` add
symmetry sets or functions as constants to the module they are named after;
configurations are called `MC<module><question>.cfg`. Two harnesses hold several
modules: `MCSites` the clients of sites and `MCShared` what all requests share.
Each behaviour of a harness picks one part in its initial state (`part`) and
exercises that one; the variables of the others stay as they were. No part reads
what another writes, in the model as in the code, so an interleaving of two parts
has nothing to show that the parts do not show one at a time, and the
state space is the sum of theirs instead of the product. `PartsSpec` of a harness
has the initial states, next-state relations and fairness of the modules; each part
has a clock of its own. The harnesses take the parts' parameters as CONSTANTS, so
what is proved about `PartsSpec` holds for all their values.
`Dictionaries` is Python's dictionary as the sequence of its keys in the order of
insertion: `Kept` is what deletions leave. `ResponseCache` and `DnsCache` use it.
Definitions with the suffix `Mutant` are plausible bugs of the definition that
follows them; no specification uses them. They record what each property
detects: exchanged for the original, they violate the property named in
PROJECT.json.

### RedditQueue (queue/reddit_queue.py)

| variable | code |
|---|---|
| `queue`, `running`, `task`, `backoffUntil` | `_queue`, `_running`, `_task`, `_backoff_until` |
| `startedAt`, `call[i] # "none"` | `_request_times`: one entry per started request; the code drops old entries, the model ignores them (`Recent`) |
| `pc`, `held`, `wake` | a processor task: where it awaits, its local `item`, the end of its sleep |
| `interrupted` | `task.cancel()` called, CancelledError not delivered |
| `stopping` | the task a suspended `stop()` waits for |
| `future`, `enqueuedAt` | `QueueItem` |
| `call` | the callback task; `"cancelling"` when cancelled and not finished |
| `throttled` | callers whose answer is a 429 or 403 and who have not called `set_backoff` yet |

A processor at pc `"head"` is between two awaits and nothing else moves then
(`Yielded`). `Dequeue` is shared by the five ways to go on with an item:
`SkipAbandoned`, `Expire`, `Sleep`, `StartNow`, and after a sleep
`StartAfterSleep` or `DropAfterSleep`. The wait for the callback or the future
is `Complete` and `Detach`. `Interrupt` is the CancelledError handling at
each await. `StopBegin`, `StopFinish` and `StopIdle` are `stop()` with and without
a task; between the first two anything may run, including `Enqueue`, which
restarts the queue. One `stop()` runs at a time, as the server calls it once.
The one second that `stop()` grants the old processor is not modelled as running
out: the processor ends in one step of the loop after its cancellation is
delivered. The clock is an integer; delays are rounded up, and the 0.1 s buffer
of the code is the tick after the window.

### OAuthStore (http/oauth.py, http/routes.py)

`store` is one record: `reg` is memory (`clients`, `refresh_tokens`), `disk` the
file a restart would read, `synced` the file a power loss may bring back, `ready`
the readiness flag. The system may write the directory back by itself (`WriteBack`),
so a power loss brings back any file since the last one synced, not only that one. Every operation is synchronous, so it is one action; but the
disk may fail in it. `_persist` is three operators: `Commits` (renamed, directory
synced or not: both count as success in the code), `Fails` (not renamed: the
operation rolls memory back) and `Dies` (renamed, then the process ends before
answering). `Commits` is empty while `locked`, the state after an unreadable file.
Operations are `Cleanup`, `Register`, `Authorize`, `Exchange`, `Misuse`,
`Rotate`, `Reject`; `Crash`, `CrashInRotate`, `CrashInExchange`, `PowerLoss`
and `Restart` are what happens around them. `tokenFate` and `codeFate` are history: what the client knows,
not what the server stores. `"spent"` means that the client holds a successor,
`"doubtful"` that the server died before it could tell. Redirect URIs, PKCE,
scope and resource are one nondeterministic choice (`Misuse`): they consume the
code whatever is wrong with it. A client that presents another client's token, or a wrong
scope with its own, changes nothing and is a stutter.

### ParserSlots (content/_slots.py, _isolated.py, html.py, pdf.py)

One record per call: where its task awaits, what the start job and the stop job
do in the thread pool, whether a cleanup thread runs, the child, the flags
`cancelled` and `cleanup_claimed` of the shared state, and who owns the slot
(SlotHandle's two flags as one value). `returning` holds the slots that a thread
has sent to the loop with `call_soon_threadsafe`. The three boundaries are the
same code but for one thing, the constant `StartHoldsSlot`: `_isolated.py`
transfers the slot before it awaits the start thread's verdict, `html.py` and
`pdf.py` only once the child is there. A pool job that is cancelled while queued
is dropped (`Dropped`), which is what `concurrent.futures` does with it; since
a thread may take it in the same instant, both outcomes are possible. `StartFails`
covers `process.start()` raising; a failure to create the process object
is the same for the slot, as no child and no thread exist then.

### PacedGate and DomainLimiter (ratelimit.py)

`PacedGate` is the promise: two passes are `MinInterval` (and the later caller's
extra delay) apart, and nobody passes before the end of any deferral requested
so far. `DomainLimiter` is the code: `Arrive` (ask for the lock), `Enter` (get it,
draw the jitter, first turn of the loop), `Wake` (next turn after the sleep),
`Cancel`, `Defer`. asyncio.Lock is first-in first-out: `ticket` is the order.
`ImplementsGate` is the refinement, with `lastTime` as `last`, `backoffUntil` as
`held` and the callers at `"passed"` as `served`. The gate's `Defer` may happen
while a caller sleeps: it refines only because the code looks at the deferral
again after the sleep; `WakeMutant` forgets that and TLC refutes it.

### MTopClient (aliexpress/mtop.py)

| variable | code |
|---|---|
| `token` | `_token`, whether it is past its TTL, `_token_generation` |
| `jar`, `minted` | the `_m_h5_tk` cookie of the session; the server's cookies are numbered, as each is new |
| `bootLock`, `primeLock`, `tmdLock` | the three `asyncio.Lock`s and who holds them |
| `tmdGeneration` | `_tmd_recovery_generation` |
| `call` | a `request()`: its await, attempt, the token it signed with, the two generations it remembers |
| `stale`, `cleared` | history: whose operation was overtaken by another's token or solve |

An action is the code between two awaits. `AnswerFinal`, `AnswerExpired` and
`AnswerBlocked` are the three ways on from an answer; `BootEnter`/`BootDone`,
`PrimeEnter`/`PrimeDone` and `TmdEnter`/`Solved`/`NotSolved` are the recoveries;
`AfterRecovery` and `AfterBoot` are the code of `request()` that follows them,
which drops a token that the jar has lost and never replays unsigned. `Leave` is a
cancellation, the deadline at a lock, or an exception of the session.

### SearchProviders and DdgPages (search/)

`SearchProviders` is `search()` with its engine tasks and the three providers
behind their locks. `Conclude` is what `search()` does once every provider asked so
far has come to something: fall back, or answer and cache. `Timeout` and `Leave`
detach tasks (`Cancelling`). A detached task stops at its await and lets go of its
lock, except that Brave keeps the gate while its request is in flight: `holder` is
then `Detached`, `adrift` counts the exchanges, and `DetachedEnds` still records a
block. `backoff` is the provider's own state and `told` is history: who was
told to wait. Time is not counted; a backoff, a cooldown and a TTL may end at any
moment, which allows more than the code does.

`DdgPages` is what a `"ddg"` task of one query does with the page state: page 1
(`First`) replaces the live state outside the pages lock, while a walk under
it (`Enter`, `ReFirst`, `Walk`, `Want`) goes on with the state it has `hand` on; `shared`
says whether the two are the same object. `given`, `reading` and `twice` are
history: what a reader that goes on page by page was shown.

### EgressProxy (security/browser_proxy.py, server.py)

The owner's thread (`start`, `preflight`, later the cleanup that closes the browser
and then the proxy), the accept thread, a handler per connection, the solver's
worker and the helper that waits for it. A handler's step is what another thread can
see: register a socket, look at `_close_event`, read the request, check its host,
connect, relay, finish. The check of the host blocks (`"resolve"`, then `Approved` or
`Denied`): closing the client's socket does not wake it, the resolver's deadline
does, and the event is looked at after it. `Tracked`
is the set of registered sockets as the place of each handler determines it.
`close()` is `CloseEvent`, `FindSockets` (the copy under the lock), `CloseSocket`
for each, and `StopServing`. `Shutdown`, `HelperCloses` and `WaitOver` are
`close_browser_runtime_bounded`.

### EdgeHold (homedepot/com.py)

`_post`: it looks at the hold before and after its turn at the limiter, remembers
when it sent (`sentAt`), and an answer, good or refused, is measured against
`holdStarted`. `ReadTimeout` bounds how late an answer may be.

### ResponseCache (cache/response_cache.py), AddressLimiter (http/middleware.py)

The ordered dictionary as the sequence of its keys, and the table of timestamps per
address, from whose front the code drops what has left the window (`Older`). `used` and
`allowed` are the reference: histories that are never evicted
or cleaned up, against which the properties compare what the code kept.

### DnsCache (security/ssrf.py)

`Check` is a hit, or the clock read (`asked`) and a lookup queued at the pool
(`Begin`). A timeout does not stop the thread: `stuck` counts those that go on,
maybe for ever. What a lookup stores is kept until `KeptUntil`, which counts from
`asked`. `Mark` and `StoreSinkhole` are two steps, as the code holds the lock twice.

### JobBoards (gojobs/, gcjobs/)

One module for both boards, `ColdOnly` tells them apart: Go Jobs serves its cities
with the first page of a session only (`cold`). The server's `stored` search is
external: whoever opens a search replaces it, and a page shows what is stored.
`GiveUp` is a timeout, a cancellation or a refusal at any await; the request it
gives up may have reached the server.

### Minimize (discovery/minimize.py)

`ddmin` with its memo (`passed`, `failed`), its budget and its rounds of chunks and
complements. The server answers as it likes, once per candidate. `Shrink`, `Keep`,
`Exhaust` and `SkipWhole` are the outcomes of one candidate.

## 4. Runs

| run | question | bounds | distinct states |
|---|---|---|---|
| `reddit_serve` | budget, bounded delay, final answers and no wasted request without stops | 4 requests, window 2, limit 2, threshold 1, backoffs 3 and 4, clock to 4 | 925,293 |
| `oauth_crash` | all the store's promises under disk errors, crashes, power loss | 2 clients, capacity 1, 2 codes, 3 tokens, clock to 3 | 338,954 |
| `search_fallback` | one request per provider, backoffs, cooldowns, fallback, every search ends | page 1 from Google with fallback and page 2 from all; 2 documents, budget 2, 1 cursor, 1 cached answer | 278,020 |
| `sites` | the clients of sites, one per behaviour | below | 425,031 |
| `shared` | what requests share, one part per behaviour | below | 378,959 |
| `reddit_budget_after_backoff` | refutes `WithinBudget` for a backoff shorter than the window | 4 requests, window 4, a default delay of 1 | |
| `reddit_backoff_during_sleep` | refutes `BackoffHolds` | 3 requests | |
| `reddit_stop_with_enqueue` | refutes `StopStops` | 2 requests, 2 processors | |
| `oauth_ready` | refutes `ReadyIsDurable` | 1 client, code and token | |
| `slots_leak` | refutes `EverySlotComesBack` in `_isolated.py` | 1 call | |
| `slots_over_cap` | refutes `ChildrenWithinSlots` in `html.py`, `pdf.py` | 2 calls, 1 slot | |
| `dns_negative` | refutes `StampedeAbsorbed` | 1 caller, the real times in seconds | |

The parts of `sites`: two MTop calls with at most two cookies; two readers of three
DuckDuckGo pages with two results; three reads into Home Depot's hold, with holds of
3 and 6, capped at 7, and answers up to 2 late; three searches of each job board with
two pages; seven removable fields and 24 probes; three calls of `run_isolated`
over two slots. The parts of `shared`: three callers of the domain limiter; the
Reddit queue with two requests, two processors, `stop()` and restarts; two calls of
`html.py` or `pdf.py` over one slot; the proxy with the preflight and two
connections over two slots, two addresses each; three URLs in a cache of two;
three addresses in a table of two with two requests each per window; two callers,
two hosts and one resolver thread.

Why the bounds are enough to be interesting:

- *reddit_serve.* Four requests exceed the limit of two twice over, so the window
  must slide; with the threshold at one, both the spreading delay and the
  full-window delay occur; `MaxQueueWait` equals the window, so requests also
  expire. Every backoff of this run is at least as long as the window. That is
  the configuration's 429 and 403 backoff, and it is a precondition:
  `reddit_budget_after_backoff` shows that `WithinBudget` fails without it.
  The clock stops at `Horizon` and no request is enqueued that could not
  be held for `MaxQueueWait` before it, so no property holds merely because
  time ran out.
- *The queue in shared.* The two processors are the one stopped and the one an
  `enqueue` starts during the stop; the two requests are the one in hand and the
  one in the queue, and they start no third processor. The safety properties are proved for all sizes; for
  `EveryCallerAnswered` this instance is all we have.
- *oauth_crash.* A capacity of one makes the second registration evict; two codes
  and `MaxAuthCodes` 1 make the cleanup inside `Authorize` happen; three tokens
  allow two rotations in a row, or an exchange and a rotation with a failed one
  between; TTLs of 1 (pending clients 0) with a clock to 3 let each kind of
  entry expire before and after the others.
- *search_fallback.* The two searches meet at every lock, and at Google's only
  cursor, which the first leaves for the second. The second skips DuckDuckGo
  (`MaxDdgPage` 1), so it also has a provider that fails without being asked. A
  search may be asked again after it ended, which meets what its detached tasks
  left behind.
- *MTopClient.* Two calls: one in a recovery, one late or waiting. Two cookies:
  the one that is refused and the one that replaces it. Safety is proved for any
  number of both.
- *DdgPages.* Three pages and two readers: one walks over page 2 while the other
  fetches page 1 anew, and reads on.
- *EdgeHold.* Three reads: two refused together and a probe; the clock reaches
  past the third hold.
- *JobBoards.* Three calls: one gives up, one waits at the vocabulary, one pages.
- *Minimize.* Seven fields split unevenly at every granularity; 24 probes are
  fewer than a full run needs, so that every round can be cut short, and more
  than the shortest one needs.
- *ParserSlots.* Two slots and three calls: one waits for a slot while two are
  at any two points. Slots interact only through the semaphore, and safety is
  proved for all sizes.
- *DomainLimiter.* Three callers: one asleep, two in the queue of whom one may give
  up; a deferral longer than the interval and one of zero. `LastCall` 4 bounds
  when `wait` and `defer` are called, so that `Horizon` 20 is after every sleep that
  follows and the clock does not run out under a sleeper: the latest target is
  three spacings of at most 5 after the last deferral.
- *EgressProxy.* The preflight and one connection fill the slots, the other is
  refused; two addresses let a handler register a second socket after `close()`
  has shut the first.
- *ResponseCache, AddressLimiter.* One key more than there is room.
- *DnsCache.* One thread for two callers: a lookup is queued behind one that may
  hang; `LastLookup` 1 and `Horizon` 3 let each kind of entry be served and expire.

`CHECK_DEADLOCK FALSE` appears where a run really ends: the server without stops
is idle when all its requests are answered and the clock is at `Horizon`; the
calls of `MTopClient`, `JobBoards` and `ParserSlots`, the callers of
`DomainLimiter`, the connections of the proxy and a minimization are finite.
`OAuthStore` and `SearchProviders` are checked for deadlock and have none.
Symmetry is used only in runs without liveness properties.

The properties, and what they exclude:

- Queue. `AnswerIsFinal`: caller, processor and `stop()` all resolve futures; none
  twice. `OneAtATime`: no two callbacks run that nobody cancelled (a callback whose
  caller left is cancelled and not waited for; the code accepts that overlap).
  `WithinBudget`, `SleepWithinBound`, `NotSentWhenAbandoned`: the rolling minute,
  the bound on time in the queue and asleep counted from the enqueue, and no quota
  for a caller that has left. `EveryCallerAnswered`: also across stops.
- Store. `MemoryIsCommitted`, `NoOrphanToken`, `GrantsSingleUse`, `AccessKept`,
  `CodeNotBurnt`: what each failed or interrupted write must not do. `AccessKept`
  is also what an overwritten unreadable file would break.
- Slots. `SlotCoversChild`: none is given back before its child is gone; it names
  its exception, a call cancelled during the final stop (`cut`). `CleanupCompletes`:
  all come back and all children are stopped, except by a pool job dropped on
  cancellation. `EverySlotComesBack` has no exception; it holds for `html.py` and
  `pdf.py`, and fails for `_isolated.py`.
- Limiter. `ImplementsGate`, `EveryoneGoes`: as much delay as promised, and everybody
  gets through.
- MTop. `NewerTokenSurvives`, `OnlyRefusedTokenCleared`: a late result neither clears
  nor overwrites a newer token. `WaitersShareTheSolve`: nobody who waited solves
  again. `ReplayIsSigned`, `EveryCallEnds`.
- Search. `OneRequestPerProvider` with detached ones, `NoColdDocument`,
  `BackoffRespected`, `NothingSentInVain`, `FallbackOnlyOnFailure`,
  `EverySearchEnds`. Pages: `FormsFollowPages`.
- Sites. `HoldRunsItsCourse` with `DoubledByProbe`, `OwnResults`, `OneMinimal`.
- Shared. `WithinQuota`, `EvictsLeastUsed`, `EveryCheckEnds`, `ShutdownEnds`,
  `TunnelsEnd`.
- `PartsInvariants`, one per harness, joins the types of all parts with their
  other invariants: `NoLostCaller`, `NeverOversleeps`, `CapacityConserved`,
  `NoTunnelEscapes`, `TurnedAwayByActive` and `ServedInTime` in `shared`;
  `NothingGivenTwice`, `WholeVocabularyKept`, `ExchangeIsLive`, `KeptPasses` and
  `SlotsConserved` in `sites`. Its mutants break them one by one.

## 5. Fairness

Requests, calls and stops are made once in these instances. "Every call ends" is
therefore stated as `[]<>`: again and again nothing is under way.

- *RedditQueue.* Weak fairness of each processor: asyncio runs every ready
  coroutine. Of `Return`: a callback is a wafer request under a timeout. Of
  `StopFinish`: the awaiting `stop()` is resumed. Of `Tick`. Callers owe nothing:
  abandonment, backoffs and `stop()` itself are never forced.
- *ParserSlots.* Threads run; the loop runs a scheduled callback and a task whose
  await is done; and each call is cancelled at last, because each runs under
  `asyncio.timeout`. A child need never end by itself.
- *DomainLimiter.* The loop does what is due within one tick of the clock, a step of
  the lock's next holder or of a sleeper whose time has come, and the
  clock goes on while nothing is due. Without the first, the bounded clock could
  leave a sleeper behind, which no real clock does.
- *MTopClient.* Requests, primes and solves end under their timeouts, and the loop
  resumes a call that can go on. Nobody need be cancelled.
- *SearchProviders.* The timeout of each engine expires and `search()` is resumed.
  No provider need answer, and no lock need come free: that is the point of
  `EverySearchEnds`.
- *EgressProxy.* A handler goes on where it waits for no peer, and is woken by a socket
  that `close()` closed and, in a relay, by the event, which the pumps poll.
  The check of a host ends by the deadlines of the resolvers (`ssrf.py:530` and those
  of its fallback), as nothing else wakes it. The cleanup goes on, and its wait of
  five seconds ends. No peer, no other timeout of a handler and no end of a solve is
  relied upon.
- *DnsCache.* The clock, the timeout of a lookup and the deadline of the public
  resolvers. A resolver thread may hang for ever.

The liveness property that is refuted (`slots_leak`) is refuted under this fairness.

## 6. Proofs

TLAPS checks every theorem below for all values of the constants, from the named
assumptions only. `ConfigAssumption`, `StoreAssumption`, `LimiterAssumption` and
`SearchAssumption` are ASSUMEs of their modules. `SlotsAssumption`, `MTopAssumption` and
`ProxyAssumption` are hypotheses of the theorems, since those modules are
instantiated. `InstancesAssumption` of a harness, an ASSUME that TLC evaluates, joins
those of its instances: these and `DdgAssumption`, `EdgeHoldAssumption`,
`BoardsAssumption`, `MinimizeAssumption`, `CacheAssumption`, `LimitsAssumption` and
`DnsAssumption`. They ask for finite sets of requests, calls, connections and fields,
natural delays, limits of at least one, and None values outside their sets.

Between them the theorems state every invariant that a passing run checks, and every
action property and refinement.

*RedditQueueProofs*: `TypeCorrect` (with it, that the delay is a natural number in
each configuration: no division by zero, no oldest element of an empty set),
`NoCallerLost`, `AnswersFinal`, `AbandonedNeverSent`, `SleepsWithinBound`,
`RunsOneAtATime`, `StaysWithinBudget`. `NoLostCaller` is not
inductive: nothing in it says that `_running` implies a processor that serves.
`ServiceInv` adds that, that whatever is queued while it is false is about to be
drained, and that a started task is not fresh. The interesting steps
are `Interrupt` and `StopFinish` after an `Enqueue` during the stop. The steps that
take an item are one lemma, `DequeuePreserves`, and those that let go of one
another, `ReleasePreserves`. `SleepsWithinBound` needs that whoever sleeps has an end of
sleep computed from its item's enqueue (`SleepInv`), and holds with stops and any
backoff. `RunsOneAtATime` and `StaysWithinBudget` are about `ServeSpec`, a server that is
not stopped; with stops, finding 3 makes it two processors. `StaysWithinBudget`
rests on `BudgetInv`: the window is not overfull now and has room at the end of the
sleeper's sleep, whose delay was computed from it and in which nobody else
sends; and until a backoff ends, at most the sleeper that it found asleep is sent. The
theorem has two hypotheses.
`LongBackoffs`: every backoff outlasts the window, because it is waited out
*instead* of the delay for the budget. The configured backoffs (60 s and 300 s,
`config.py:158-161`) do, as delays are rounded up to whole ticks and 60 s after an answer
is later than 60 s after its request. A Retry-After need not, which is finding 1
and the run `reddit_budget_after_backoff`.
`MaxPerMinute >= 2` (it is 10): with a budget of one, the request whose sleep the backoff
overtakes is sent, and the next one waits for the backoff alone.

*OAuthStoreProofs*: `TypeCorrect`, `MemoryCommitted`, `NoTokenOrphaned`,
`GrantsHonouredOnce`, `AccessIsKept`, `CodesNotBurnt`: everything `oauth_crash`
checks. `MemoryIsCommitted` bounds memory from above and `AccessKept` needs a bound
from below: an operation rewrites the file from memory, so whoever is in use must
be in memory. `Agrees` says both, and that a cleanup at load whose write failed
dropped from memory nobody who is in use (`LoadedFact`). Each operation makes of a
registry one that `Follows` it (owners stay paired, users stay, at most one token is
added); what disk errors may leave of the store (`Leaves`, `WrittenFact`) and of
two writes in a row (`LeavesTwice`) is proved once for all operations.

*ParserSlotsProofs*: `TypeCorrect`, `NoSlotReleasedTwice`, `SlotHeldUntilReaped`.
The invariant is `SlotsConserved` with a condition on each call, `CallOK`: a
call without a slot has started nothing (`Fresh`); the task owns its slot while it
awaits, and nobody was told of a cancellation before it left (`Owned`); a child
exists only between fork and end (`ChildKnown`); a thread that may start or reap a
child keeps the slot (`Covered`, where `StartHoldsSlot`). That `free` never exceeds
`MaxProcesses`, a part of `TypeOK`, follows from conservation and from nothing
local. The counting is in a few lemmas about one call changing.

*MTopClientProofs*: `TypeCorrect`, `SolveIsShared`, `ReplaysSigned`,
`LateResultsIgnored`, `RefusedTokensOnly`. A change of the
token is a new generation (`Follows`). Then an operation that another overtook
started from an earlier generation than the token's (`GenerationsKnown`), which is
what the code compares, and a request in flight from the present generation was
signed with the present token (`SignedSince`). Each action is brought into one form (a call advances, the others
stay, the token follows), about which the invariant is proved once.

*SearchProvidersProofs*: `TypeCorrect`, `OneRequest`, `ColdDocumentsRest`, `BackoffsRespected`,
`NoVainRequest`, `FallbackFollowsFailure`. The invariant ties the lock to the place of
each task (`Holds`), so that whoever is past the lock is alone there; `told` to
`backoff`; Google's document to `cold`, because only the holder chills one; and a
running task to a search that still asks for it. The bounds of the two pools are an
invariant of their own (`PoolsOK`): an insertion makes its own room first.

*EgressProxyProofs*: `TypeCorrect`, `CapacityIsConserved`, `CloseMissesNoTunnel`,
`PreflightIsNeutral`. The order "register, then look at the event" in the handler,
against "set the event, then copy" in `close()`, is the argument of
`CloseMissesNoTunnel`; counting handlers is a few lemmas about one place changing.

*SitesProofs*: `SearchesPageTheirOwn`, `ResultsOneMinimal`, `HoldsRunTheirCourse`,
`FormsLeadOn`, `SlotsCoverChildren`, `PartsInOrder`. A behaviour of the harness is one
of each of its parts (`StepsOfParts`), so that each part has an invariant of its own
and the theorems of `MTopClientProofs` and `ParserSlotsProofs` apply to the instances.

- Job boards (`BoardInv`): whoever is in an exchange holds the lock of the exchange, and
  while its pages are read the server keeps its search.
- `Minimize` (`MiniInv`): in a round of complements, those tried have failed, and there
  are never more chunks than fields. A last round with as many chunks as fields has a
  chunk for each of them (`PlacesDiffer`), so the removal of each has failed.
- Home Depot (`HoldInv`): everything in flight was sent before the current hold began or
  after it ended (`SentBesideHold`); this is what the second look at the hold
  after the limiter is for.
- DuckDuckGo (`DdgInv`): both states, the live one and the one in a walk's hand, have
  pages 1 to some `k` and forms up to `k + 1` (`WellKept`); while they are the same, what a
  reader was given is in the pages that are remembered (`Remembered`); once page 1 was
  fetched anew, the walker reads on from nothing that is.

*SharedProofs*: `TypeCorrect`, `Implements`, `SleepIsBounded` of the domain limiter;
`QuotaIsKept`, `OldestIsEvicted`, `PartsInOrder` of the parts.

- Domain limiter: the sleeper holds the lock, and the target it drew stays far enough from
  the last pass because nobody passes while it sleeps (`SpacingStays`).
  `SleepBounded` adds that the sleep ends at that target or at the deferral. `StepOK`
  shows that each step is a gate step or a stutter.
- Dictionaries: an ascending enumeration of a finite set of positions exists and is what
  `CHOOSE` takes (`AscendingExists`, by a least counterexample, since the library's
  induction is out of reach), so deletions keep the rest in order and drop nothing
  else (`KeptInOrder`, `KeptThose`).
- HTTP limiter (`AddressInv`): what the table remembers of an address is every allowed
  request of it that still counts, in order; of an address that it forgot, nothing
  counts any more. Hence the sliding window is exact although the table is swept.
- Response cache (`CacheInv`): the dictionary is in the order in which its URLs were
  last stored or served, so its head is the least recently used; and what is replaced
  makes its own room, so storing a URL again evicts nobody.
- DNS (`DnsInv`): each entry is kept until its kind's TTL after the lookup was *asked*, so
  none is served past its time; the tables have one entry per host and room for one more
  once they are swept; running and stuck threads are no more than there are.
- Parser slots, proxy and queue: the theorems of their proof modules, instantiated.

Checked by TLC only, because the prover has no rule for it: liveness under fairness
(`EveryCallEnds`, `CleanupCompletes`, `EverySearchEnds`, `EveryoneGoes`,
`EveryCallerAnswered`, `EveryCheckEnds`, `EverySlotComesBack`, `ShutdownEnds`, `TunnelsEnd`).
No theorem is about a violated property; those runs show a single behaviour each.

## 7. Where code and text disagree

PROJECT.json, `findings`, quotes the lines. In short:

1. A backoff shorter than the window replaces the delay that the budget called
   for, and the budget is not looked at again: one request too many in a minute.
2. A request that sleeps when a backoff is imposed is sent all the same; so is one
   dequeued before the throttled caller resumes.
3. An `enqueue` during `stop()` leaves a processor that `stop()` forgets; a later
   stop and enqueue make it two.
4. After a failed directory fsync a restart reports the store ready without
   another write.
5. In `_isolated.py` a call cancelled while its start job is queued in the pool
   loses its slot for good.
6. In `html.py` and `pdf.py` a call cancelled while its child starts gives its
   slot back before the child is reaped. (A cancelled final stop does so in all
   three.)
7. A DNS failure is kept until two seconds after the lookup began. One that took
   longer, as a timeout of eight seconds does, has expired when it is stored.

Four more are stated in the modules, violated by them, and in no run:

- `ClearanceIsShared` (comment `aliexpress/mtop.py:142-145`). The generation of
  the clearance is read after the blocked answer (432-434), so a call that was
  blocked before another's solve ended, and resumes after it, solves again.
- `SinkholesNamed` (`security/ssrf.py:157`). Overlapping lookups, or eviction at
  capacity, leave the cache and the table of sinkholed hosts in disagreement; it
  decides only the wording of a refusal.
- `CitiesStayAvailable` (`gojobs/api.py:253`). If the first read of the vocabulary
  fails after the server has served the first page, no later call finds the cities.
- `NothingGivenTwice` is checked for a reader whose pages nobody fetches anew.
  Without that condition, which `ddg.py:317-319` does not make, it fails.

The models show the code as it is. Where a finding limits a property that the
code otherwise keeps, the property or the run states the limit by name.

## 8. What is left out

- `DomainLimiter`: real-valued time and jitter are integers; `Jitter` is any set of
  naturals in the proofs.
- `OAuthStore`: the mode without a usable data directory, where `_persist` is a
  no-op; access tokens, which are stateless JWTs; file permissions; entries that
  `_load` discards as malformed, which a file written by the program does not have.
- `ParserSlots`: the pipe protocol and the parsers; the size of the thread pool,
  which is only visible in that jobs may stay queued for any time.
- `RedditQueue`: the size limit of the asyncio.Queue (it has none), logging, and
  the reading of Retry-After, whose values are a set. A cancelled callback may go on
  and overlap the next request; the code does not wait for it.
- `MTopClient`, `JobBoards`: the order of waiters at a lock; the models let any of them
  in, which allows more than asyncio's first-in first-out. An answer writes the jar and
  resumes its call in one step. A refreshed cookie with the same token is not
  told apart from none.
- `SearchProviders`: time, parsing and rendering; the page state is in `DdgPages`.
- `EgressProxy`: the SOCKS protocol and the allowed addresses; the finally of a
  handler is two steps, since nothing looks at what lies between.
- `EdgeHold`: two reads at the very same nanosecond; the hold of the HTML pages in
  `tools/fetch.py`.
- `ResponseCache`: `clear()`; a clock that goes back; Cache-Control, which is the
  choice to store or not. Two fetches that end out of order leave what came last,
  and nothing in the code promises more.
- `DnsCache`: the addresses and their classification, a pure function with tests.
- `JobBoards`: forms, pages, details; a request that was given up and arrives after a
  later one, which a second connection of wafer's pool could bring; cookies that
  wafer keeps in its cache directory across restarts.
- `Minimize` is what of `discovery/` keeps state over many requests. Observation
  and ranking are one pass over a capture; the store of plans is a file per plan.
- `marketplace/search.py` is a fan-out with one deadline over four clients, which
  keeps nothing between calls; its detached tasks are like those of
  `SearchProviders`.
- Converters, formatting, site clients, address classification and XSS helpers:
  sequential transformations of data whose truth is a remote page, or pure functions
  that unit tests reach. They are most of the repository's lines. `server.py` and
  `http/app.py` wire the components together.
