# A verification project for modigo-runner

modigo-runner executes students' programs. Browsers talk to it over WebSockets
(`/ws/run`: interactive runs, shells, labs) and over REST (`POST /api/v1/run`);
each program runs in a Docker container of its own. What can go wrong in it is
concurrent: main loops, output bridges, exit goroutines, timers, a reaper, REST
requests and a queue for slots all act on the same containers, connections and
counters. The repository's tests cover the semaphore, the rate limiter and the
authentication middleware, mostly one call after another; nothing tests the
handlers, the timers, the labs, the calls to Docker or the sweeps, and no test
looks at interleavings of chosen steps.

This directory holds TLA+ modules translated from the Go source, TLC
configurations that check them on small instances, and proofs, checked by TLAPS,
that the main properties hold for all instances. `PROJECT.json` maps every
definition to the lines it stands for, and lists the runs, the mutants that show
each property able to fail, the hazards, the findings and the theorems.

    tlc -config MCSessionsSafety.cfg MCSessions     # one run
    tlapm SessionsProofs.tla                        # one proof module

## 1. Inventory

| Component | Source | State | Operations | Module |
|---|---|---|---|---|
| Concurrency limiter | `executor/semaphore.go` | `current`, `queueLen`, a `sync.Cond` | `Acquire`, `AcquireContext`, `Release`, a ticker goroutine per bounded wait | `Semaphore`, `SlotPool` |
| Session lifecycle | `handler/websocket.go` | per connection: `st.session`, `st.generation`, `st.timedOut`; global: `userContainers`, `userRuns` | `run`, `shell`, eviction, exit goroutines, kill and idle timers, end of the connection | `Sessions` |
| Messages to clients | `handler/websocket.go` | `connWriteMu`, what a client has read | the output bridge, `started`, `error`, `exit`, the idle notice | `Console` |
| REST execution | `handler/execute.go`, `executor/container.go` | none of its own | take a slot, create, serve, remove, release | `Sessions` (the slot), `Containers` (the calls) |
| Docker containers | `executor/container.go` | containers, staging directories, contexts | `CreateInteractive`, `CreateShell`, `RunNonInteractive`, `Remove` | `Containers`, `Creation` |
| Time: timers, deadlines, reaper, startup sweep | `handler/websocket.go`, `executor/reaper.go`, `executor/cleanup.go` | the ages of containers, armed timers | kill, idle, read deadline, sweep by age | `Lifetimes` |
| Process lifecycle | `main.go`, `TriggerShutdown` | the process | start, crash, signal, drain, end | `Lifetimes`, `Lab` |
| Lab manager | `executor/lab.go`, `handler/websocket.go` | networks, targets, `st.lab`, an expiry goroutine per lab | `StartLab`, `StopLab`, `CleanupOrphanedLabs`, the lab messages | `Lab` |
| Rate limiter | `ratelimit/limiter.go` | a table of keys | `Allow`, `RemainingDaily`, `cleanup`, `Middleware` | `RateLimiter`, `Quota` |
| Authentication | `auth/middleware.go` | none | decide from header or query token | not modelled |
| Image warm-up | `executor/pool.go` | a flag | `warmUpLoop`, `IsReady` | not modelled |
| Health, stats, languages, config, limits, logging | | read-only or none | | not modelled |

How they interact: a `run` or `shell` handler counts the user (`run` only),
replaces `st.session`, blocks in `AcquireContext`, has a container made, stores
it, answers `started` and returns. It leaves behind a bridge that copies the
output, a timer, and an exit goroutine that waits for the bridge; between them
they must let go of the container, give the user's count back, call `Release`,
and tell the client once, in whatever order replacement, eviction, disconnection
and the timer have acted meanwhile. The generation number tells a goroutine
whether it is still the current one. A REST request passes the limiter twice,
then takes a slot from the same semaphore. A run joins the network of the
session's lab; the lab is torn down by the main loop or by its own expiry
goroutine. The reaper and the sweeps at startup, which know nothing of sessions,
remove what the others left.

What is hard, and where, is the `hazards` list of `PROJECT.json`. In short:

- lost wake-ups and aborted waits in a `sync.Cond` queue;
- slot and count accounting over every error path, across goroutines;
- stale goroutines and timers that act on a session another run has replaced,
  or send what nobody expects any more;
- output, exit and `started` written by different goroutines under one mutex;
- the container attached after it was started: a program may print, or end,
  before;
- seven or eight Docker calls, each with an error branch that undoes by hand;
- eviction in four separate critical sections;
- expiry against stop of a lab, each of which may be refused a removal because
  of the other, and a crash between any two Docker calls;
- sends that wait, under one mutex, for a client that does not read;
- sweeps by age against runs in progress; timers that fire once;
- two clocks and a sweep in the rate limiter.

## 2. Modules

| Module | What it is |
|---|---|
| `SlotPool` | abstract: who holds a slot, who is queued |
| `Semaphore` | the mutex, the condition variable and the counters; implements `SlotPool` |
| `Sessions` | WebSocket sessions, REST requests, timers, eviction and the reaper over a pool of slots; uses the slots as `SlotPool` allows, and containers as `Creation` does |
| `Creation` | abstract: a request for a container ends with a live one or an error, and whoever got a live one lets go of it |
| `Containers` | the Docker calls of the three ways to get a container, and what each failure undoes; implements `Creation` |
| `Lifetimes` | `Containers` composed with connections, timers, read deadlines, the reaper, the startup sweep, crashes and shutdown, in time; implements `Creation` too |
| `Console` | what a client reads: main loops, bridges, exit goroutines and timers that write under one mutex |
| `Quota` | abstract: grants used today and in the current window |
| `RateLimiter` | the table of keys, lazy resets, the sweep, two clocks, the two checks per request; implements `Quota` |
| `Lab` | one session's labs: `StartLab` and `StopLab` call by call, runs that join, the expiry goroutine, crash and startup sweep |
| `SemaphoreProofs`, `SessionsProofs`, `ContainersProofs`, `LifetimesProofs`, `ConsoleProofs`, `RateLimiterProofs`, `LabProofs` | theorems |
| `MCSemaphore`, `MCSessions`, `MCLifetimes`, `MCConsole`, `MCRateLimiter`, `MCLab` | constants and symmetry for TLC |

The modules meet in abstract ones. `SlotPool` is the contract between the
semaphore and the handlers: `Semaphore` shows that the queue keeps it,
`Sessions` starts from it and shows that the handlers do. `Creation` is the
contract between the handlers and Docker: `Sessions` takes the making of a
container for one step with an outcome and keeps to the rest of the contract,
`Containers` shows that the calls amount to that, and `Lifetimes` that they still
do with timers, sweeps and crashes. What a handler promises in return, that no
goroutine ends while its container lives, is `Creation`'s `Finish`.
`Sessions`, `Console` and `Lifetimes` look at the same handlers and leave out
different things: `Console` has no slots and no user counts but every message,
`Lifetimes` has no interleaving within a handler's clean-up but the time it
takes.

### How state and actions correspond to the code

*Semaphore.* A step is what a goroutine does between taking and releasing
`s.mu`. `state[t]` says where goroutine t is: idle, parked in `cond.Wait`, woken
(it has left the wait set and must still take the mutex and test again), holding.
`Signal` wakes any sleeper. The ticker goroutine of a bounded wait signals until
its context or the call is over (`Tick`, `TickerStops`). `Acquire`, which only
the tests call today, is modelled too.

*Sessions.* A *launch* is one `run` or `shell` message or REST request, with its
container, its timer and its goroutine. `at[j]` is what the goroutine in charge
of launch j does next, one stage per critical section or Docker call, named after
the code (`evictCheck` ... `replace`, `acquire`, `create`, `store`, `track`,
`spawn`, then `wait`, `recheck`, `send`, `clean`, `dec`, `release` in the exit
goroutine). `pc[s]` is the main loop of session s, which handles one message at a
time; `untrack` is the deferred `deleteUserRun`. `stalled` says that
a client, of one of these sessions or of another connection, holds `connWriteMu`
by not reading: a goroutine whose next step begins with a send (`sendError`,
`spawn` with "started", `send` with the exit, a timer at `notice`) waits until
`Resume`. `cur[s]` is `st.session`, and
`latest[s] = j` stands for `st.generation == currentGen` in the goroutines of
launch j. `ctr[j]` is the container: `live`, `gone`, or `stray` when Docker
refused a removal, which `docker.Remove` ignores. `count` is `userContainers`,
`stamp` the times in `userRuns`.

*Containers.* `step[j]` is the call a launch is at (`image`, `dir`, `files`,
`create`, `copy`, `start`, `attach`, then `await` and `logs` for a request); any
of them may fail, in `FailsBefore` or `FailsAfter`, which translate the error
branches: what `dir` (the staging directory), `box` (the container) and `ctx`
become. `stray` is a container that exists and that nobody will remove, because
Docker refused, or created it without saying so.

*Lifetimes.* `now` counts ticks. `due[j]` is when a timer fires or a request
times out, `lastRead[c]` what the read deadline counts from, `lastInput[c]` is
`st.shellLastActivity`, `nextReap` the ticker of the reaper, `born[j]` the
creation time Docker reports. `Tick` is possible only when nothing is due
(`Idle`): timers fire, goroutines run and Docker answers within a tick, except
that a pull may last, and that `stalled`, the connection whose client holds
`connWriteMu`, keeps everybody who comes to a send: the main loop (`sending`,
between the storing of the session and `Sent`, which answers the client and only
then arms the kill timer), the idle timer at its notice (`closing`), the bridge
and the exit goroutine. While there is one, `Idle` lets time pass over them.
`held[j]` counts for how long that was in the life of the container of run j.
`Sweep` removes what is old enough, unless Docker fails to
list or remove some of it, which `grace` accounts for. `ProcessEnds` is a crash,
or the end of `main` after `Signal`: every goroutine is gone, containers and
directories stay.

*Console.* `pc[c]` is the main loop, `bridge[j]`, `exit[j]` and `timer[j]` the
goroutines a handler leaves behind; what they do under `st.mu` is one step, and
what they do after releasing it is another. A goroutine at `write` is inside
`WriteJSON` and owns `connWriteMu`: `Writers` collects them, and a `Locks` action
needs it empty. A run whose user is at the limit is refused (`RefuseRun`, with
the run in `refused[c]`) before anything is replaced; when that happens is
`Sessions`' business, here it may happen to any run. `inbox[c]` is what the
client has read. A stalled client makes `Deliver` impossible, so its writer stays
where it is. Of the output, chunks are counted: `wrote[j]` by the program,
`lost[j]` of them before the stream was attached, `taken[j]` read by the bridge.

*RateLimiter.* `Allow` and `cleanup` hold one mutex for their whole body, so each
is one step: `Grant`, `Refuse`, `Cleanup`. `now.Sub` reads the monotonic clock
and `now.Format` the calendar, so `now` and `today` advance on their own.
`grantTime` and `grantDate` record what was granted, for the properties; the
code has no such memory.

*Lab.* One step per Docker call, but two for the removal of a container, which
takes time: who asks (the main loop in `loopRemoves`, the expiry goroutine of lab
l in `removes[l]`, an exit goroutine in `exiting`) waits for the answer, and
whoever asks for the same container meanwhile is refused and goes on, as
`removeContainer` does, perhaps to a network that is still in use. Docker may
also refuse for good: a container or network is `stray` then, up to `MaxStrays`
at a time. `st.mu`, which the main loop and the exit goroutine hold across their
removals, is what those stages say (`LoopHoldsMu`, `MuIsFree`). `pc` is the main
loop, `expiry[l]` the expiry goroutine of lab l, `net`, `target`, `ctr` are what
Docker has. A failed call of `StartLab` asks for the removal of the network and
of nothing else. The expiry goroutine runs the same `StopLab` but leaves `st.lab`
alone. The write of `lab.StudentID` is a data race with it: the reader sees the
old or the new value, and a torn string would crash the process, which `Crash`
covers. `Crash` loses every goroutine and keeps what Docker has; `Boot` and
`BootLabs` are the sweeps of `main`.

## 3. Runs

| Run | Instance | Checks |
|---|---|---|
| `semaphore` | 4 goroutines, 2 slots | `TypeOK`, `SlotAccounting`, `QueueLenExact`, `NoLostWakeup`, `BoundedWait`, `ImplementsPool` |
| `sessions_safety` | 2 runs, 1 shell, 2 sessions, 2 slots, 1 run per user | `TypeOK`, `SlotAccounting`, `NoContainerLeak`, `SessionIsLatest`, `NoLockout`, `TimeoutIsOwn`, `StaleKillsNothing` |
| `sessions_liveness` | a run, a shell and a request, 2 sessions, 1 slot, clients that stall | `ContainersWithinMax`, `UsesSlotPool`, `HandlerReturns`, `ClosedSessionDrains`, `SlotReturned` |
| `lifetimes` | a run and a shell of one connection, or a request; one fault | `TypeOK`, `NothingLeft`, `FilesBeforeStart`, `LifetimeBounded`, `SweepsSpareRuns`, `ImplementsCreation` |
| `console` | two runs, or a run and a shell, of one connection, each run refused or not; 2 and 1 chunks | `TypeOK`, `OutputInOrder`, `ExitIsLast`, `LateIsBounded`, `ExitReported` |
| `rate_limiter` | 3 requests of one key, 1 of another, Rps 2, Daily 3, two dates | `TypeOK`, `DailyLimitKept`, `RemainingIsExact`, `BurstBounded`, `ImplementsQuota` |
| `lab` | 2 labs, 2 runs, 1 crash, 1 refused removal at a time | `TypeOK`, `LabUsable`, `NoLabLeak`, `StopDestroys`, `TargetExpires`, `ClosedLeavesNoLab` |
| `newest_action_wins`, `daily_counts`, `crashed_labs`, `stalled_client`, `shell_idle` | | one violated claim each, section 6 |

Why the bounds are enough to be interesting:

- *semaphore*: with four goroutines and two slots, two can sleep while two hold:
  a signal can go to a sleeper whose slot a newcomer takes, or whose context has
  ended, while another sleeper should have had it.
- *sessions*: launches are never reused, so their number is the bound. Two runs
  and a shell over two sessions of one user give replacement within a session,
  eviction from another session, a stale exit goroutine and a stale timer, all
  with failed creations and disconnects. `MaxContainersPerUser` is 1 (3 in the
  code) so that two runs reach it. One slot makes every second launch queue.
  Launches run out, so these runs do not check deadlock; `HandlerReturns` and
  `SlotReturned` take its place. Clients stall only where it can matter, in the
  liveness run (`MayStall`): a send that waits takes no step, so it adds no order
  of steps that safety does not have already, and the proofs allow it anyway. TLC
  takes no symmetry for liveness; since the two sessions of that run have the
  same user and nothing tells them apart, its one `run` message may be taken to
  come on a chosen one (`RunsInFirst`), which halves the states and loses none
  but their mirror images. The constraint cuts off no behaviour half-way: to
  which session a launch belongs is settled when its message is read, and the
  mirror image of every behaviour with the other choice is there.
- *lifetimes*: a tick is ten minutes, with durations rounded up: `KillAfter` 1
  (30 or 120 seconds), `ReadTimeout` 1 (90 seconds), `StartupAge` 1 (2 minutes),
  `ReapEvery` 1 (5 minutes), `ShellIdle` 1, `ReapAge` 2, `MaxTime` 4. So a
  container can be made, lost and reaped within the run. The one fault can be a
  crash, a sweep that Docker lets down, or a client that stalls, for as long as
  it likes: then a run can be stored without a kill timer until the reaper takes
  it. A run that is replaced by a shell is enough for the timers of one launch to
  meet those of another. The proofs cover all other durations and any number of
  faults.
- *console*: a replacement needs two launches of one connection, and two chunks
  are needed for one to be read while another is being sent. `run1` prints twice
  and is replaced, or replaces. `stalled_client` has two connections, and only
  the first may stall.
- *shell_idle*: a tick is two and a half minutes (`ShellIdle` 4, `ReapEvery` 2,
  `ReapAge` 8, `MaxTime` 8), so that input can come between the start of a shell
  and its timer, and the reaper is still far away.
- *rate_limiter*: `Second` is 2 ticks, `Day` 3 and `Horizon` 5, so a window can
  begin and end within a day and a key can be idle for more than a day while the
  clock still runs; `LastDate` 2 gives one midnight. A lone request of a second
  key shows that keys do not feel each other. Requests are used up, hence no
  deadlock check.
- *lab*: the second lab can replace the first while its expiry is at work; the
  second run can replace the first on the same network; after the one crash there
  may still be a lab and a run to come. With one refusal at a time a network can
  outlive its target and a target its network; that stop, expiry and exit
  goroutine refuse each other is not bounded. Messages run out, hence no
  deadlock check.

Symmetry is used for safety only (`sessions_safety`, `rate_limiter` and its
violation), over values no definition tells apart.

### Fairness

Goroutines that can run do so, Docker answers every call, and time passes: the
conjuncts are weak fairness of one goroutine's next step, of a timer, of the
ticker, of the end of a context. Weak is enough because nothing else can take a
goroutine's step away for ever: a slot that is never free is met by a bounded
wait. `StreamEnds` is fair only once the container is gone, because a program
need not end by itself. No client is obliged to send or to disconnect, and no
crash is obliged to happen.

That clients read is another matter. A send waits for `connWriteMu`, which is
held over a write that has no deadline (`handler/websocket.go:1006-1011`), so one
client that stalls forever stops every handler and exit goroutine at its next
send, and no message, slot or count is certain any more: that is finding 4. The
liveness of `Sessions` is therefore claimed under an assumption the code does
*not* secure: each client that stops reading reads again or loses its connection
in the end (`WF_vars(Resume)`; TCP gives up on a peer that is gone, not on one
that keeps its window closed). Clients may stall as often as they like, so a
goroutine in a send may find the mutex taken again and again; that it gets it
(`SF_vars` of the sends) is the fairness of `sync.Mutex`, which hands itself to a
waiter that has starved for a millisecond. Requests do not send, and their half
of `SlotReturned` would hold without the assumption.

Slots are taken in no order and with no fairness between waiters, as `sync.Cond`
with newcomers ahead of the queue gives none; nothing here claims that a waiter
gets a slot in the end.

In `Console` each main loop, bridge, exit goroutine and timer is weakly fair;
programs and clients are not. A goroutine that waits for `connWriteMu` gets it
because there are finitely many messages: Go's mutex, which hands itself to a
waiter that has starved for a millisecond, gives that without the bound. A
stalled client never makes `Deliver` possible, which is why its writer keeps the
mutex under any fairness. `Lifetimes` has no liveness: that something happens in
time is an invariant there.

## 4. Proofs

All theorems hold for every value of the constants that meets the module's named
`ASSUME`: sets of goroutines, messages, connections and requests, any limits
and durations.

**SemaphoreProofs.** `IInv` is `TypeOK`, `SlotAccounting`, `QueueLenExact`,
`NoLostWakeup` and `CtxWaits`. The last is the strengthening: only a call that
waits has a context of its own, without which a ticker that stops could be that
of a sleeper. Each action is first described by what it does to the sets of
holders, sleepers and woken goroutines; the cardinalities follow. Theorems:
`SemaphoreTypeCorrect`, `SlotsAreExact`, `QueueLenIsExact`, `NoWakeupIsLost`,
and `ImplementsSlotPool`, the refinement. `SleepersMeanFull` says what the
invariant means for a sleeper nobody has woken: every slot has an owner, who will
signal. `WaitersHaveTickers`, relative to `IInv`, says that a bounded wait has
its ticker goroutine until it ends: the safety half of `BoundedWait`.

**SessionsProofs.** The safety properties of `Sessions` are not inductive as they
stand: that an exit goroutine may remove `st.session` safely depends on who can
have stored it. `IInv` adds that a session handles one message at a time
(`OneHandler`), that a handler past `Replace` is that of the latest launch with
`st.session` nil until it stores its own (`HandlerIsLatest`), which kinds of
launches reach which stages (`Kinds`), that `st.session` was stored by the launch
itself (`CurIsStored`), that a live container is about to be stored, or is
`st.session`, or serves a request (`LiveIsKept`), and that `st.timedOut` is the
doing of the latest launch, and no timer is armed before "started" is sent but
a shell's (`TimedOutIsOwn`). Clients may stall in any send: it takes nothing from
these. Theorems: `SessionsTypeCorrect`,
`SlotsAreAccounted`, `ContainersAreKept`, `ContainersAreLimited`,
`SessionsPointToLatest`, `TimeoutsAreOwn`, `StaleGoroutinesKillNothing`,
`SessionsUseSlotPool`, and `NobodyIsLockedOut`. The last is by counting: the runs
of a user that are counted are a finite set which each step changes by at most
one, and `userContainers` goes down with it or before it.

Four more sections follow, each with a small invariant of its own that is
inductive relative to `IInv`.

- *Output* (`Outputs`): an open stream is that of a launch about to be stored, or
  of `st.session`, and a run whose output is awaited has a timer. Hence
  `RunsEnd`: once "started" is sent, and as long as the output of the run is open,
  its own kill timer is still to come and will find the run to be the current
  one, whatever replacements, evictions and other timers do. It is the safety
  half of `SlotReturned`. Before, while the send of "started" waits, a run has no
  timer, and the other half needs clients that go on reading.
- *Connections* (`ClosedForgets`): `ClosedConnectionsLetGo`, the safety half of
  `ClosedSessionDrains`.
- *Eviction* (`Evictions`, with `OnlyRunsCount`): a run is in `userRuns` only
  while its own handler is about to return, `OnlyLaunchingRunsAreEvictable`. This
  is finding 1 for all instances. `EvictionsHitOwnRuns` is an action property:
  what an eviction removes is a run of the same user on another connection,
  although the choice and the removal are two critical sections.
- *Rest*: all of it together gives `RestLeavesNothing`. When every goroutine has
  ended, by whatever path, the semaphore and all users' counts are at zero and no
  container lives but those Docker refused to remove.

`SessionsImplementCreation` closes the circle of the modules: a launch is `asked`
until its creation is answered, `live` while a goroutine keeps its container, and
`over` afterwards (`Phase`), and with `MadeOnce`, that there is no container
before the call that creates it, every step of `Sessions` is one of `Creation`
or a stutter.

**ContainersProofs.** `ContainersInv` says, for each call, what the launch has by
then (`Stages`), that a launch that ended has nothing (`Clean`), and that a
program that runs has its files (`Staged`). Launches share nothing, so a call of
one is first shown to leave the others alone. Theorems: `FailuresLeaveNothing`,
`FilesComeFirst`, `CallsImplementCreation`. The lemmas are about single steps and
are used again in the next module.

**LifetimesProofs.** That the reaper is never early for a run, and never late for
anything, is a matter of who lets time pass. `IInv` adds to `ContainersInv` that
a container in the making or in use has an owner in a living process (`Owned`,
`Jobs`), that the container of a run or request that is served is no older than
its deadline, which is armed or has already ended it, or, of a run, will be armed
when `started` is sent, and all this plus the time that sends waited, `held`
(`Timely`), that the ticker is at most one interval away (`Clock`), and that it
comes in time for every container in Docker, counted from its creation or the
last start of the process, and from each sweep that was let down (`Reaped`).
`Tick` waits for all of these. Theorems: `LifetimesTypeCorrect`,
`NothingLeftInTime`, `FilesFirstInTime`, `LifetimesBounded`, `SweepsTakeNoRun`,
`LifetimesImplementCreation`. Two more follow from `IInv` as it stands:
`TimeoutsAreKept`, that no request exists for longer than its timeout, and no run
for longer than its timeout and the time that sends waited, be it for the client
of another connection; and `NoOrphans`, that while the process runs every
container serves a request or belongs to an open connection that is making it or
has it as `st.session`. `SweepsTakeNoRun` says that no sweep takes a request that
is served, nor a run for which `held + KillAfter < ReapAge`: in the code, one
that sends have held up for less than 18 minutes. A run that waits for longer in
its "started" is taken, as TLC finds at once without that condition. The theorem
needs `KillAfter < ReapAge`; nothing else is assumed of the durations.

**ConsoleProofs.** What a client has read is tied to what the bridge has done,
the bridge to the stream, and the stream to `st.session`. `IInv` has three
layers. `Pointers` and `Goroutines`: a handler has not spawned its goroutines yet,
and the stream of a launch that is no longer `st.session` is closed. `Counted`:
how far program and bridge are, and why a bridge that is done stopped. Then the
inboxes: `Outputs` (all chunks from the attachment to `Sent` have arrived, unless
the bridge stopped for being replaced), `Started`, `Exited`, and `Late` for a
pair of launches. A step is shown to be harmless to them in a few words (`Flow`,
`Stages`, `Ending`, `Passing`); only the four actions that write need an argument
of their own. Theorems: `ConsoleTypeCorrect`, `OutputArrivesInOrder`,
`ExitComesLast`, `LateOutputIsBounded`.

Relative to that invariant: `WritesAreSerialized`, that no two goroutines are in
`WriteJSON` at a time, which is what gorilla/websocket asks of its callers;
`LaunchesAreAnsweredOnce`, that a `run` or `shell` message, a refused run
included, gets one `started` or one `error` by the time its handler returns;
`ExitsFollowStarts`, that an exit is reported once, after `started`, and never
after an `error`; and `NoExitIsLost`, that an exit goroutine ends without a
report only if the client left or asked for something else. The last is the
safety half of `ExitReported`, by an invariant (`ExitsKept`) that follows the
goroutine through its two tests.

**RateLimiterProofs.** The invariant ties the counter of a key, as `Allow` would
read it, to the calls granted today, entry or no entry: that is what the sweep's
two conditions are for. `BurstInv` adds where the last window of a key began and
that the grants before it were few enough (`Windowed`): an interval of a second
meets at most two windows, the last one holds at most Rps grants, and fewer than
Rps of the grants before it are in the second that reaches into it. Theorems:
`RateLimiterTypeCorrect`, `DailyLimitIsKept`, `RemainingQuotaIsExact`,
`BurstsAreBounded`, `ImplementsTheQuota`.

**LabProofs.** `IInv` says what the main loop knows of the lab it starts and of
the run it creates (`Handling`), when a lab is whole (`Whole`), who may be
removing what (`Removing`), and that a run on the network of a started lab is
known to it or about to be, or is being removed by its expiry or exit goroutine
(`Joined`): so `StopLab`, which removes one student, is enough because there is
no second. `Removing` is what refused removals call for. When the main loop
finds a container in the middle of another removal and goes on, somebody else has
its answer still to come, and it matters who: only the expiry goroutine of the
same lab can be at its target, and that one goes on to the network itself, after
the target is gone. `NoLabLeak` is part of the invariant: a failed `StartLab`
destroys the network because nothing has been started on it yet, which is why
`Handling` says that the target of a lab being started does not run, and that the
network and target of the next one do not exist. Theorems: `LabTypeCorrect`,
`LabStaysUsable`, `NoLabIsLeft`, and `StopLeavesNothing`, which spells out what a
stop may leave: what Docker refused to remove for good, and what the lab's expiry
goroutine, or for the run its exit goroutine, is removing that moment. From the
same invariant: `OneLabAtATime`, that a session has two networks up only while
the expiry goroutine of one of them is at work on it, and
`RunsAreInTheirLab`, that no run is left on the network of a lab that was
replaced but one that is just being removed.

Relative to it (`TargetsWatched`, `ClosedKeepsNoLab`): `TargetsAreWatched`, that
a started target that Docker did not refuse to remove always has somebody about
to stop it, the expiry goroutine or the main loop that cancelled it, and
`ClosedHasNoLab`, that a main loop that has returned leaves a network or a
running target only to an expiry goroutine that is at work on it. These are the
safety halves of `TargetExpires` and `ClosedLeavesNoLab`.

All of these except a *stray*: a network or container whose removal Docker
refused other than for being at it already. The code logs that and never comes
back (`executor/lab.go:247`, `:256`), so nothing is claimed of strays.

Only model-checked: liveness, which is out of the prover's reach. Every other
property of a passing run is a theorem. That something happens in the end has two
parts, that whoever must do it is there and not misled, which is an invariant,
and that he is scheduled, which is TLC's:

| Checked by TLC | Proved for all instances |
|---|---|
| `BoundedWait` | `WaitersHaveTickers`: the ticker that lets the end of the context be noticed |
| `SlotReturned` | `RunsEnd`: the timer that ends a run; `SlotsAreAccounted`, `RestLeavesNothing`: that the end gives the slot back |
| `ClosedSessionDrains` | `ClosedConnectionsLetGo`: only exit goroutines with nothing to wait for |
| `TargetExpires` | `TargetsAreWatched`: somebody who will stop the target |
| `ClosedLeavesNoLab` | `ClosedHasNoLab`: what there is when the main loop has ended |
| `ExitReported` | `NoExitIsLost`: no exit goroutine gives up by mistake |
| `HandlerReturns` | nothing beyond the invariants |

## 5. What the models assume

- *Docker* does what it is asked, except: any call may fail; a removal may be
  refused, and what it was about is `stray` from then on; of two removals of one
  container at a time the second is refused; a container may be created although
  the call failed; a network with a running container is not removed; no
  container is created on a network that is gone. Strays are in `Sessions`,
  `Containers`, `Lifetimes` and `Lab`, and the properties that except them say so.
  It keeps the output of a container for an attached stream, and attaches without
  logs, as `ContainerAttach` is called.
- *Clients* that stop reading read again or lose their connection in the end: for
  the liveness of `Sessions` (section 3, Fairness) only, and against what the code
  secures. For `ExitReported` no client stalls (`MayStall` is empty). Safety and
  the proofs do without.
- In `Lifetimes` Docker answers within a tick, except for pulls, and main loops
  and goroutines that can run do so within a tick, unless they are in a send that
  waits. The containers of the three calls carry the label the sweeps look for;
  lab targets do not. The sweeps also spare containers by the names of images
  (`executor/cleanup.go:79-89`, `:123`): no language is taken to name the image of
  a lab target, or its containers would escape them.
- Cancelling the context of an attached session closes its stream, as the comment
  at `handler/websocket.go:542` says of the hijacked connection.
- Times in `userRuns` are strictly increasing; the calendar does not go back;
  the window of the limiter is no longer than a day.
- A refused REST request leaves no trace. Panics of handlers are not modelled.
- A read of the PTY is one message: the buffer's size, and characters cut in two
  by it, are not modelled. The `files` message goes out with the `exit` message.
- Labs of different sessions share nothing, so `Lab` has one session. In it the
  target does not exit by itself, and shells do not take part (see below).
- `lab_stop` sets `st.lab` to nil before it stops the lab, the other two callers
  after; nobody reads it in between, and the model does it last.

## 6. Findings

Each is a run that TLC shows violated by what the code does.

1. **`newest_action_wins`**: `handleRunMessage` defers `deleteUserRun` to its own
   return (`handler/websocket.go:583`), so a run that is executing is not in
   `userRuns` and cannot be evicted. Eviction only sees runs whose handler is
   about to return. "Your newest action always wins" (line 135) does not hold:
   a user at the limit is refused. `OnlyLaunchingRunsAreEvictable` proves the
   reason for any number of users, sessions and runs.
2. **`daily_counts`**: the route is wrapped in the limiter's middleware
   (`main.go:92`) and `Execute` calls `Allow` again (`handler/execute.go:55`):
   a request costs two of the "daily execution limit" (README.md:162).
3. **`crashed_labs`**: `CleanupOrphanedLabs` "removes Docker networks and
   containers from crashed lab sessions" (`executor/lab.go:229`) but removes
   networks only, and those not while their target runs; the other sweeps skip
   targets.
4. **`stalled_client`**: `connWriteMu` "serializes ALL writes to a WebSocket
   connection" (`handler/websocket.go:999`) but is one mutex for all of them, held
   while `WriteJSON` blocks, and no write has a deadline: a client that stops
   reading stops the messages of everybody, and with them the exit goroutines
   that give slots back. A handler that is stuck in its "started" (line 586) has
   not armed the kill timer (line 621), so its program runs without a limit until
   the reaper takes it after 20 minutes, against "it never touches in-flight
   sessions" (`executor/reaper.go:26`), and slot and count stay taken even then.
   This is why the liveness of `Sessions` assumes that clients do not stall
   forever, and why `TimeoutsAreKept` and `SweepsSpareRuns` count the time sends
   waited.
5. **`shell_idle`**: the idle timer fires once, `shellIdleTimeout` after the
   start, and is not armed again when it finds that there was input
   (`handler/websocket.go:901`): from then on a shell may sit idle for as long as
   its connection lives, or until the reaper comes.

Seen while reading, with no run:

- An evicted run is subtracted from the user's count by the eviction
  (`handler/websocket.go:176`) and again by its exit goroutine (line 636); after
  that more runs are alive than `MaxContainersPerUser`. No property of a run
  excludes this: `NoLockout` is the bound from the other side.
- The exit goroutine tests the generation, unlocks, reads files and then sends
  (line 716): the exit of a run can follow the `started` of the next, although
  "Only send exit if this is still the current generation" (line 643).
- The "sliding window" (`ratelimit/limiter.go:69`) is a fixed one; two bursts
  around its end exceed the limit within a second. `BurstBounded` is what does
  hold: less than twice the limit.
- The read deadline is put off when a message is read, not when it comes
  (`handler/websocket.go:332`): a handler that is busy for 90 seconds, with an
  image pull, finds its client overdue although its pings are waiting.
- The reaper removes every student container after 20 minutes, shells in use
  included (`executor/reaper.go:22`).
- A staging directory of a crashed process stays (`executor/container.go:199`):
  no sweep looks at them.
- `TriggerShutdown` is only looked at when a connection opens
  (`handler/websocket.go:992`); open sessions go on starting runs while `main`
  drains, and those containers are left to the next start.
- `CreateShell` joins a lab's network as `"container:" + labNetworkID`
  (`executor/container.go:526`), which names a container: a shell with an active
  lab can never be created. `CreateInteractive` has it right.
- A removal that Docker refuses a lab is logged and forgotten
  (`executor/lab.go:247`, `:256`), and so is the lab: a target left that way runs
  on for ever, for no sweep takes targets.
- The same happens, for a while, without any fault of Docker: `lab_stop` that
  meets the expiry goroutine, or an exit goroutine, at the same container is
  refused its removal, may then fail to remove the network that is still in use,
  and answers `lab_stopped` all the same. The expiry goroutine goes on to the
  network itself. An exit goroutine does not: then the network stays, as one
  Docker refused to remove (a `stray` in `Lab`), until the sweep of the next start.
- `StartLab` leaves the target it created behind when connecting or starting it
  fails (`executor/lab.go:142`, `:149`): created, never started, on no network.
  `NoLabLeak` is that nothing more is left.
- After a lab expires `st.lab` still points to it, so every later run of the
  session fails until the client sends `lab_stop` or `lab_start`.
- `IsReady` of the image pool becomes true after the first round, whether or not
  its pulls succeeded.

## 7. Not modelled

- *Authentication*: a decision per request that keeps nothing. What is hard in
  it, the verification of a signature, is a library.
- *Image warm-up pool*: `Get` and `Return` are called by nothing; the rest is a
  loop that pulls missing images, whose effect is that `ensureImage` succeeds.
- *Health, stats and languages*: they report counters that other modules model.
- *Limits, configuration, logging*: parsing and formatting, no state afterwards.
  The kinds of messages are in `Console`, their other fields are not.
- *Docker containers*: resource limits and command lines, the reading of files
  from a container and the parsing of its list, `ExecCommand`,
  `WriteFileToContainer`, and the reason of an exit: I/O that changes no state of
  the runner. `AddStudentContainer` and `CleanupExpiredLab` are called by nothing.
- *Deployment, images, the load test*: not part of the program.

What would add most next:

- proofs: that an expiry goroutine removes no run but the one its lab knows of;
  that the limits of `Sessions` carry over to the containers of `Containers`, by
  way of `Creation` and `SlotPool`; a bound on `userContainers` from below, which
  the double decrement of an eviction breaks today, for the code once repaired;
- models: `Sessions` over the real `Semaphore` on one small instance; a write
  deadline in `Console` and `Sessions`, as the repair of `stalled_client`, with
  `ExitReported` for clients that read and `Resume` no longer assumed; the
  re-armed idle timer in `Lifetimes`, with   `ShellIdleKilled` as an invariant.
