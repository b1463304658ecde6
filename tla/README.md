# A TLA+ model of the process architecture of nginx 1.12.0

The repository holds annotated copies of two programs, nginx 1.12.0
(`src/nginx-release-1.12.0`) and PHP 7.1.3 (`src/php-src-php-7.1.3`). This
development models nginx: the part of it in which several processes, threads
and signals meet, where an ordinary test reaches few of the orders in which
things can happen. Paths below are relative to `src/nginx-release-1.12.0/src`.

Contents: [inventory](#inventory), [modules](#modules),
[runs](#runs), [findings](#findings), [proofs](#proofs),
[what is left out](#what-is-left-out), [plan](#plan).

## Inventory

nginx is a master process and the processes it forks: workers, and with a file
cache a cache manager and a cache loader. The master reads the configuration,
owns the table of processes and is driven by signals. Each worker runs one event
loop over its own epoll instance. Workers share listening sockets and zones of
shared memory, which are protected by mutexes made of an atomic word. A worker
may own pools of threads for blocking file operations.

| Component | State | Operations | Meets |
|---|---|---|---|
| shared memory mutex, `core/ngx_shmtx.c` | the lock word (pid of the owner), the counter `wait`, a semaphore | trylock, lock, unlock, wakeup, force_unlock | every worker; the master's SIGCHLD handler frees the mutexes of a dead worker |
| accept path, `event/ngx_event.c`, `event/ngx_event_accept.c` | `ngx_accept_mutex_held`, `ngx_accept_disabled`, which listening sockets are in epoll, posted accept events, timers of paused sockets, free connections | one iteration of `ngx_process_events_and_timers()`, trylock of the accept mutex, enable and disable accept events, `ngx_event_accept()` | the mutex above, the kernel's accept queues, epoll, the master |
| thread pool, `core/ngx_thread_pool.c` | task queue, `tp->waiting`, done queue, the eventfd of `ngx_epoll_notify()` | post, the thread cycle, completion, destroy | the event loop of its worker |
| master, `os/unix/ngx_process_cycle.c`, `os/unix/ngx_process.c` | `ngx_processes[]`, `ngx_last_process`, the flags of the signal handler, `live`, `delay`, `sigio`, `ngx_new_binary`, `ngx_noaccepting` | start, signal, reap, respawn, reload, reopen, upgrade, graceful and fast shutdown | its children over channels and signals, the administrator over signals |
| channels, `os/unix/ngx_channel.c` | socket pairs, the descriptor table of each worker | write, read, OPEN and CLOSE announcements | master and workers |
| connection pool and epoll events, `core/ngx_connection.c`, `event/modules/ngx_epoll_module.c`, `event/ngx_event_posted.[ch]` | free list, reusable queue, the `instance` bit, registered, posted and timed events, the batch of `epoll_wait()` | get, free, close, drain, post, the test for stale events, closing the listening sockets | every event handler of a worker |
| timers, `event/ngx_event_timer.[ch]` | red-black tree of 32-bit milliseconds | add (lazily), delete, find, expire | every event |
| reader-writer lock, `core/ngx_rwlock.c` | one word: -1 or the number of readers | rlock, wlock, unlock | upstream zones |
| slab allocator, `core/ngx_slab.c` | bitmaps, page lists | alloc, free | every zone |
| limits, `http/modules/ngx_http_limit_{req,conn}_module.c` | trees and queues of nodes in a zone | lookup, account, expire, clean up | workers over a zone |
| upstream peers, `http/ngx_http_upstream_round_robin.c` | per server: weights, `conns`, `fails`, `accessed`, `checked`, a lock; per list a lock; per request `tried`, `tries`, the list | get and free a peer, next upstream | workers over a zone, the locks above |
| file cache, `http/ngx_http_file_cache.c` | nodes with `count`, `updating`, `deleting` | open, lock, update, free, expire | workers, cache manager, cache loader |
| resolver, `core/ngx_resolver.c` | nodes, waiting contexts, resend and expire queues | resolve, cancel, response, resend | requests of one worker |
| requests, configuration, memory pools | per request or at start only | | sequential |

What is hard, and what makes each part correct:

- The *mutex* has three words that change one after the other. It must exclude,
  also when the master takes it from a dead process, and must not lose a wake-up
  between a waiter's last look and its sleep.
- On the *accept path*, `ngx_accept_mutex_held` stands for "my sockets are in
  epoll and I had the mutex". Failures in the middle of an iteration must not
  make it lie, leak the mutex, or leave the sockets with nobody.
- A *thread pool* must not lose a signal of its condition variable, count its
  free threads wrongly, announce a done task to nobody, or return from its
  shutdown with a thread alive.
- The *master* takes any number of signals in one `sigsuspend()`, in any order,
  while children exit at any time. Its table must never lose a child, a reload
  must pass nobody over, and a shutdown must end, and not too early.
- A *connection* that is closed and reused while events for its former life are
  in the same batch must not see them, nor anything that was posted or timed for
  it; and the pool must neither lose a connection nor hand one out twice.
- A *reader-writer lock* is one word that readers change in two steps, a read and
  an exchange. It must never admit a writer beside anybody, nor lose a reader.
- The *servers* of an upstream are changed by every worker. The counts behind
  `max_conns` must be exact although requests that leave hold the lock of the
  list together, a disabled server must not be asked by all of them at once, and
  the bits of `tried` must not be taken for those of the other list.

`PROJECT.json` lists every hazard at its line, with the properties that would
catch it or the reason that none does yet.

## Modules

| Module | Models | State corresponds to |
|---|---|---|
| `Mutex` | what a mutex promises: one owner, taken only when free, freed by its owner or, once the owner has died, by the master | abstract |
| `Shmtx` | `ngx_shmtx.c`, build with atomic operations and POSIX semaphores | `lock`, `wait`, `sem` are the words; `pc` the place of each process and of the SIGCHLD handler |
| `AcceptMutex` | one worker iteration, `ngx_trylock_accept_mutex()`, `ngx_event_accept()`, shutdown, death and respawn of workers | `held`, `disabled`, `active` (sockets in epoll), `ready` (events returned or posted), `timer`, `timedout`, `free`, and the kernel's `backlog` |
| `ThreadPool` | `ngx_thread_pool.c` and the eventfd of `ngx_epoll_notify()` | `queue`, `waiting`, `done`, `batch`, `active`; `tpc` and `main` the places of the threads and of the event loop |
| `ProcessCycle` | `ngx_process_cycle.c`, `ngx_process.c` | `pid`, `exited`, `exiting`, `respawn`, `just`, `detached`, `proc`, `last` are the table; `flag` the flags of the handler; `pend` the pending signals; `st`, `role`, `gen`, `inbox`, `told` the processes |
| `Connections` | the pool of `ngx_connection.c` and the loop of a worker over it: `ngx_epoll_process_events()`, posted events, timers, draining, shutdown | `free`, `live` (fd is not -1), `instance`, `active`, `accepts` and `posted`, `tree` (events with a timer), `reusable` and its count, `batch` (what `epoll_wait()` returned) |
| `ReadWrite` | what a reader-writer lock promises: many readers or one writer, and only an own unlock ends either | abstract |
| `Rwlock` | `ngx_rwlock.c`, one action per access to the word | `word`; `step`, `arg`, `seen` are where each process is; `readers`, `writers` who is inside |
| `Peers` | `ngx_http_upstream_round_robin.c` in a shared zone, with the calls of `ngx_http_upstream.c`; it composes `Rwlock` | `peer` and `weight` are the servers; `list`, `current`, `tried`, `tries` belong to a request; `pc` its place, `copy` what it has read and not yet written |
| `Sums` | lemmas about sums over finite sets, for the proofs about the weights | |
| `MC...` | the modules above for TLC | |
| `...Proofs` | theorems about the modules above | |

`Mutex` is the abstract specification: `Shmtx` implements it with the lock word
as the owner, and `AcceptMutex`, in which the accept mutex is only tried, does so
too. In this way the two detailed modules meet: `AcceptMutex` relies on no more
than `Mutex`, and `Shmtx` provides it. `ReadWrite` is the abstract reader-writer
lock that `Rwlock` implements. `Peers` is a composition: its requests call the
actions of an instance of `Rwlock`, one lock per list and one per server, and the
steps inside the locks interleave with those of the requests.

How the modules treat the code:

- **Granularity.** In `Shmtx` one action is one atomic operation with the local
  code behind it. In `AcceptMutex` everything but the mutex and the accept
  queues belongs to one worker, so that an action is one operation on those. In
  `ThreadPool` an action is a critical section or a call that may fail. In
  `ProcessCycle` the signals are blocked outside `sigsuspend()`; an action of the
  master is one fork, one entry of the reap loop or one branch of the main loop,
  and children run between them. `Connections` is one worker and sequential: an
  action is one call of the pool, the event module or the loop, and what is
  interleaved are handlers with the scan of the batch. In `Peers` a function reads
  the servers in one step and writes them in another, so that it is the locks, not
  the model, that keep other workers out in between.
- **Handlers.** A handler in `Connections` is any sequence of operations on
  connections that are open, with one exception: it may close one again that is
  closed. The order inside the posted queues, the timer tree and the reusable
  queue is left out (any element may be next); the free list is a stack as in the
  code, since the order decides which structure is reused.
- **Requests.** In `Peers` every request has a worker of its own, which contains
  what fewer workers do, and all see one clock. A failure, an answer, a timeout
  or the end of the client may come at any time.
- **Failure.** System calls that the code checks may fail, and processes may die
  at any place. `MaxFaults` bounds them; `FaultKinds` of `ProcessCycle` selects
  them. A history variable (`orphaned`, `broken`, `gone`) records the faults that
  the code cannot make up for, so that a property excludes those and no others.
- **Signals and channels.** A command that does not go through the channel is
  sent as a signal with the same meaning, so that a child has one `inbox`.
  A standard signal does not queue: `pend` is a set.
- **Time.** A timer may fire at any moment after it was set. The doubling of
  `delay` stops once it is long enough for SIGKILL.
- **Kernel.** The accept queue, `fork()`, the pids, SIGCHLD, the alarm, the
  condition variable (with spurious wake-ups) and the eventfd are marked as
  external in the map. A pid is not given out again while the table names it.

Definitions with an underscore inside their name are mutants: a form of the
definition behind them with a mistake that one could make there. Each property
has one that breaks it; `TaskIsInOnePlace` has two (a task that is queued while it is
active, and a `next` pointer that is read after the handler that posts again), and so
has `PostponedByHupOnly`.

## Runs

`tlc -config X.cfg MCModule`. A run is a question about the system.

| Run | Instance | Distinct states | Shows |
|---|---|---|---|
| `shmtx` | 3 processes, 2 faults | 147,397 | the accounting of sleepers (a fault loses one wake-up at most), no lost wake-up, the bound of the semaphore; a free mutex is taken, a dead owner evicted; `Mutex` is implemented |
| `accept` | 2 workers, 2 shared sockets and a reuseport one, 1 free connection each, 2 clients, 2 faults | 473,937 | no path leaks the mutex; only its owner listens on shared sockets, and on all of them |
| `accept_live` | 2 workers, 1 socket, 2 clients, 3 faults | 259,921 | a pending connection is accepted in the end; `Mutex` is implemented |
| `threads` | 2 threads, 3 tasks, `max_queue` 1, 2 failed calls | 88,450 | the counter, the limit, no lost signal, a task is in one place, done tasks are announced, a destroyed pool is empty; tasks complete, destroy returns |
| `reload` | worker and cache loader, 5 pids, 2 of HUP, USR1 and QUIT, 1 crash | 243,619 | nobody is passed over by a reload, the crew is whole whenever the master sleeps, a shutdown leaves nobody, no exit is forgotten |
| `upgrade` | 1 worker, 4 pids, table of 3, 3 of USR1, USR2, WINCH and HUP, 2 crashes, failed forks, executions, configurations or initialisations | 727,157 | the table stays within its size and loses no child, in any order of upgrades, with failures; only SIGHUP makes the master sleep on other requests |
| `terminate` | 1 worker, 2 of TERM, QUIT, HUP and IO, 2 crashes, hangs or failed initialisations | 48,173 | SIGTERM ends the master even when processes hang, SIGQUIT unless one hangs |
| `connections` | 3 connections, 1 listening socket, 3 connections taken, a batch of 2, 1 timer or posted event | 2,851,938 | the pool is whole, nothing points to a closed connection, stale events are caught up to the width of the bit |
| `peers` | 2 requests, 4 upstreams of up to 3 servers, 3 calls to get, 1 tick | 229,951 | exact counts, `max_conns`, balanced weights, one probe, correct `tried` bits; `ReadWrite` is implemented; every request ends |
| `upgrade_quit`, `upgrade_failed`, `pause_quit` | smallest that shows it | | see [findings](#findings) |

**Bounds.** Three processes are a mutex owner, a sleeper and one that races with
both, next to the handler; two faults are a death and a failed semaphore call, or
a death behind another. On the accept path two workers suffice for every conflict over the
mutex, two shared sockets for a failure half way through the list, and one free
connection for `ngx_accept_disabled` to become positive. Two threads and three
tasks with a queue of one reach the limit with and without free threads. Two
signals are a reload followed by another or by a shutdown in every state between
them, with a crash at any place; the five pids are used up by a second reload, so
that starts and respawns fail. Three signals are an upgrade, its SIGWINCH and a
reload, in any order. In `upgrade` the table of three fills up, and two faults
are a crash and the failure of the respawn. `KillDelay` 60 is passed
after one doubling; more doublings repeat the same step. In `connections` three
structures are a listening one, one that is reused and one whose handler does it;
three takes let one structure live twice more within a batch, which is the first
case the bit cannot tell. In `peers` two requests suffice for every conflict over a
word or a server; the four upstreams are two servers with weights, a limit and a
backup server, a single server with a limit, a list with a server that is down and
one try, and a backup server that is down; three calls to get are a request with
two retries, or one with a retry next to another. What the theorems below
state does not depend on any of these numbers.

`SYMMETRY` over the workers is used only in `accept`, which checks invariants.

**Deadlock** is checked in the accept runs, whose workers never stop. It is not
in `shmtx` (a fault that takes the only process that owed a wake-up leaves the
others asleep, which the properties say), in `threads` (a destroyed pool stops)
and in the runs of the master, which exits, or sleeps when no more signals come,
in `connections` (the worker exits), and in `peers` (the calls to get are used
up; that nobody waits for ever is `RequestEnds`).

**Fairness.** `Shmtx`: a process inside `ngx_shmtx_lock()`, a critical section or
a wake-up goes on, and the master reaps: the kernel's scheduler runs every
runnable process, and no critical section of nginx blocks. Nobody is assumed to
ask for the mutex. `AcceptMutex`: the same for the steps of an iteration, and
strong fairness for the timer of a paused socket, because a timer that stays set
while the worker iterates is found by `ngx_event_expire_timers()`. `ThreadPool`:
threads and the event loop go on; the handlers of tasks return. `ProcessCycle`:
the master and the interval timer go on, a process that does not hang reads its
inbox, and a worker that was told to quit gets rid of its connections, each of
which ends or times out. `Peers`: every worker runs on, and the wait for a server
ends with an answer, an error or one of the timeouts of the upstream. The locks
have no queue: a writer starves if readers never cease to come, and `RequestEnds`
holds because the calls to get are bounded, as the requests of a moment are.
Faults, clients and signals are never fair.

## Findings

Each is a run that TLC must find violated.

1. `upgrade_quit`: during an upgrade, SIGWINCH lets the old workers go and `live`
   becomes 0. SIGHUP starts them again (`os/unix/ngx_process_cycle.c:257-263`)
   without `live = 1`, which lines 284 and 294 have. A SIGQUIT or SIGTERM before
   any child has exited then ends the master at once; the crew runs on without it.
2. `upgrade_failed`: a failed upgrade leaves `ngx_new_binary` at -1. Line 257
   takes this for a running new binary, so that SIGHUP starts a second crew with
   the old configuration and never reads the new one; the signal handler
   (`os/unix/ngx_process.c:423`) tests for `> 0`.
3. `pause_quit`: `ngx_close_listening_sockets()` gives the connection of a
   listening socket back without deleting the timer of its event
   (`core/ngx_connection.c:1020`). Without the accept mutex a descriptor shortage
   has set that timer (`event/ngx_event_accept.c:139`). While the worker shuts
   down, a request that opens a connection takes the freed structure first, and
   `ngx_memzero()` clears a node that is linked in the timer tree.

Seen while modelling, without a run of their own: a SIGHUP whose configuration is
bad ends the round of the master's loop with `continue`
(`os/unix/ngx_process_cycle.c:271`), past a SIGUSR1, SIGUSR2 or SIGWINCH that the
same `sigsuspend()` took, and so does SIGHUP after a SIGUSR2 (line 263); the master
sleeps on them until another signal comes. `PostponedByHupOnly`, in `upgrade`, says
that these two branches are all that postpones a request, and the theorem
`RequestsAreCarriedOut` that nothing is postponed without them. `live` is 1 at the start whether or not a process could
be forked (line 169); without a child there is no SIGCHLD to compute it again, and
SIGTERM does not end the master. A worker with `ngx_accept_disabled > 0` skips the
mutex and, against the comment at `event/ngx_event.c:255`, goes on accepting from
the sockets that are still in its epoll instance. A worker that dies with servers
or with a reader-writer lock leaves both as they are: `ngx_unlock_mutexes()` knows
only the mutexes of `Shmtx`. A worker that ran out of descriptors with the mutex
skips it in the next iteration and computes no `accept_mutex_delay`
(`event/ngx_event_accept.c:136`), so that without timers it waits and listens on
nothing; `PendingIsAccepted` says nothing while all workers do (`Lulled`), and
covers one that does. A worker whose `ngx_enable_accept_events()`
failed half way keeps the sockets it had added when it later misses the mutex
(`event/ngx_event_accept.c:662`, `679`). After SIGWINCH without a new binary
`ngx_noaccepting` stays 1 through a reload, so that a later upgrade that exits
starts a second crew; so does a second SIGHUP while a new binary runs. Hence
`CrewIsWhole` is a property of `reload` and not of `upgrade`.

That there is nothing else behind the three findings is proved. Unless SIGHUP
takes the branch at line 257, a shutdown leaves nobody (`ShutdownLeavesNobody`);
unless an execution fails, SIGHUP reads the configuration
(`HupReloadsWithoutFailure`); unless a listening socket is paused while it is closed, and always with `accept_mutex on`, no linked structure is cleared
(`DefinedUnlessPaused`, `DefinedWithMutex`).

## Proofs

`tlapm M.tla` for the seven `...Proofs` modules and for `Sums`. The theorems hold
for every value of the constants that satisfies the named assumptions of the
modules: finite sets of processes and threads, at least one thread in a pool
(`ngx_thread_pool()` refuses less, `core/ngx_thread_pool.c:507`), a positive table
size, names that are distinct.
`TypeCorrect` comes first in each, and the invariants build on it.

- **`ShmtxProofs`.** `OwnerIsInside` is inductive. `Accounting` proves
  `WakeupAccounting` with the invariant `Accounts`, by following how each operation
  moves one unit between `wait`, the semaphore, the processes about to post and the
  counted ones, and that a death or a failed `sem_post()` takes one unit with it and
  counts it in `orphaned`; sums and cardinalities make it the longest proof. `WakeupsAreNotLost` builds
  on it: `NoLostWakeup` is inductive together with the accounting, because the step
  that ends a wake-up either posted or saw `wait <= 0`, and then every sleeper's
  post is on the semaphore or on its way. `SemaphoreBound` follows from the accounting. `Refinement` maps each
  action to a step of `Mutex` or a stutter.
- **`AcceptMutexProofs`.** `NoLeak` proves `MutexNotLeaked` with the invariant
  `OwnerKnows`: the owner is where the mutex may be owned, and from the end of
  the trylock on has `held = 1`. `OneListener` and `OwnerListens` add the
  invariant `Listening` on `ngx_accept_mutex_held`: as long as no `epoll_ctl()`
  has failed, `held = 1` means that all sockets are in epoll and `held = 0` that
  no shared one is; a worker that waits after it got the mutex is its owner, and
  with the mutex no socket has a timer. `PausesEnd` is inductive given the types.
  `Refinement` maps each action to a step of `Mutex` or a stutter.
- **`ThreadPoolProofs`.** The counter is exact (`Accounting`), from which the
  limit follows, since a task is queued only while `waiting < max_queue`
  (`QueueBound`). `SignalsAreNotLost` and `DoneTasksAreAnnounced` are inductive
  given the types: a thread goes to sleep only on an empty queue, and an event is
  consumed only before the whole done queue is taken. `TasksAreInOnePlace` proves
  `TaskIsInOnePlace` by counting: how often a task occurs in a sequence changes by
  one when one end of it changes, and `HandsAreFree` says that a thread that is
  about to take a task holds none and that the batch is empty when the done queue
  is taken. `DestroyIsComplete` proves `DestroyLeavesNothing` with two
  invariants on the exit tasks: there is one at a time, with nothing queued behind
  it, and whoever takes it leaves the queue empty (`ExitIsLast`); and the threads
  that have exited are as many as the rounds that ended, with the present one if
  its task was taken (`ExitsAreCounted`). No assumption on faults is needed: a destroy
  that gives up does not reach its end.
- **`ProcessCycleProofs`.** `EveryChildIsKnown` needs that a fresh pid is in no
  entry and that an entry is given away only after its process was waited for;
  most steps are `Calm`: they change neither the pids nor what exists.
  `ExitingWasTold` rests on the reset of `exiting` in a reused entry, and on
  respawning only entries that are not exiting. `ReloadPassesNobodyOver` proves
  `OldConfigRetires` with three invariants: `JustIsNew` (`just_spawn` is set only
  during a reload, in entries of the new configuration), `KindsMatch` (an entry
  agrees with its process on what it runs, and only a new binary is detached) and
  `OldAreTold` (outside a reload every older process was told to leave): a
  process that SIGQUIT passes over is either new or was told before.
  `ShutdownLeavesNobody` assumes `NoSecondCrew`, that SIGHUP does not take the
  branch for a running new binary, without which it is false (finding 1);
  `UpgradeIsNeeded` proves that this holds when SIGUSR2 is never sent. Its
  invariant `LiveIsTrue` follows the reap loop: as long as it has found nobody,
  every entry behind it is over; so is every entry when `live` is 0 outside a
  start. `HupReloadsWithoutFailure` needs that `ngx_new_binary` is never -1.
  `EveryExitIsNoticed` proves `ZombieIsPending` for all behaviours: it is
  inductive, since whatever ends a process also sends SIGCHLD, and the handler
  that takes the signal waits for all. `OnlyHupPostpones` proves
  `PostponedByHupOnly` with `InOrder`, which gives for each place in the loop the
  flags that are 0 there, and a look at every step that leads to its top.
  `RequestsAreCarriedOut` derives `NothingPostponed` from the same. It assumes
  `NoSecondCrew` and that no configuration is bad: these are the two branches that
  end with `continue` past the others.
  `CrewStaysWhole` proves `CrewIsWhole` with `CrewIsCounted`: the entries to keep
  are as many as the members of the crew that have been started, where a reload
  counts only what `just_spawn` marks. That the SIGQUIT behind a reload then lets
  go of exactly the others needs `Reaped` (outside the reap loop no entry in use
  belongs to a process that has exited; `kill()` would fail on it and mark it as
  not exiting). It assumes that no fork fails and no process gives up with
  `exit(2)`, each of which costs a worker by design, `NoSecondCrew`, and that
  SIGWINCH is not taken (`PauseIsNeeded`: that it is not sent).

- **`ConnectionsProofs`.** `PoolCorrect` follows the free list through its one push
  and one pop: the elements are distinct, closed, and all that is closed.
  `ForgottenCorrect` says that the lists hold events of open connections, with the
  exception of finding 3. `ReusableCorrect` needs that only open connections of
  requests are in the queue. `StaleCorrect` and `LiveCorrect` rest on one
  invariant about the bit: a connection's instance is the parity of its lives, and
  an element of the batch carries the bit of a life that is not later than now. So
  equal bits mean an even distance, and an element whose life is the present one
  is never found stale. With posted events the distance is zero, because no
  handler runs while the batch is read. `DefinedUnlessPaused` proves
  `NothingUndefined` for a worker none of whose listening sockets is paused while
  it closes them: then the timer tree, too, holds events of open connections
  only (`TreeIsOpen`). `DefinedWithMutex` derives that from the accept mutex,
  which is given up only when the sockets are closed (`MutexIsKept`).
- **`RwlockProofs`.** `WordCorrect` is inductive with what a process on its way
  knows: one that unlocks has the lock, in the way its branch says, and one that
  locks has not. `Refinement` follows. Both hold for any use that locks only what
  it does not have and unlocks what it has.
- **`PeersProofs`** uses the theorems of `RwlockProofs` for its instance.
  `LocksAreUsed` shows that the requests call the locks in that way; for this the
  invariant `Places` ties each place in the code to the locks a request holds
  there. Since the words of the locks are exact it follows that nobody writes a server that
  another request has read and will write (`Copies`): what was copied under a lock
  is still true when it is used. `CountCorrect` then counts the holders of a
  server through get and free, `LimitCorrect` follows from it and the test in get.
  `TriedCorrect` adds that a request on the first list has used only servers of
  that list (`InOrder`), so that clearing the bits is right. `ProbeCorrect` adds
  `Checks`: a server probed since the last tick has `checked` at the present time.
  `WeightsCorrect` proves `WeightsBalance`: a choice adds to each eligible server
  its effective weight and takes their total from one of them, all under the
  write lock of the list.
- **`Sums`** has what that needs of sums over a finite set: they are unique and
  exist, depend only on the set, and change by what one element changes by or by a
  sum over a subset. The induction theorems of the library cannot be used by the
  provers; the lemmas are proved with a smallest counterexample instead, which the
  well-foundedness of strict inclusion among finite sets provides.

The type invariants of all modules are proved; the runs repeat those that bound
something (the table of `ProcessCycle`, `effective_weight` in `Peers`). Also proved
and not repeated by a run are `NothingPostponed`, `OwnerIsInside`, `PauseHasTimer`, `ReusableCounted`,
`LiveIsKept` and `LockWordIsExact`. (A pause without its timer also breaks
`PendingIsAccepted`, and a dead owner's mutex freed wrongly `ImplementsMutex`.)

Every invariant and every refinement that a run checks is also proved, the
properties of the three findings under the condition that excludes the finding.
Only model-checked is what is temporal under fairness (`FreeMutexIsTaken`,
`DeadOwnerIsEvicted`, `PendingIsAccepted`, `TaskCompletes`, `DestroyReturns`,
`TerminateCompletes`, `QuitCompletes`, `RequestEnds`), which is beyond the prover,
as is `ENABLED`, and with it the absence of deadlock. The modules contain no
recursive operator, so that all of them can be proved about.

## What is left out

- Builds: locks with `fcntl()`, event methods other than epoll, Win32, the
  single-process mode, the debugging points.
- `ProcessCycle`: OPEN_CHANNEL and CLOSE_CHANNEL announcements (no worker reads
  the table they fill); pid files; environment and descriptors passed to a new
  binary; the new binary is a process that may exit. SIGUSR2 is ignored by a master
  whose parent is a master: the model is the parent, and runs as a daemon.
- `AcceptMutex`: UDP (`ngx_event_recvmsg()`), the handlers of connections, which
  may only close one and give it back; deferred and multi accept differ in how
  long one event is served.
- `Connections`: UDP connections that share a descriptor, failed `epoll_ctl()`
  calls (they belong to `AcceptMutex`), the `files` table, cancelable timers and
  the keys of timers; the eventfds of the notify and AIO interfaces.
- `Peers`: a zone always has its locks (`shpool`); upstreams without a zone belong
  to one worker and are sequential. The balancers least_conn, ip_hash, hash and
  keepalive, servers that are resolved at run time, SSL sessions, and the same
  file for stream. `current_weight` is read and written in one step, under the
  lock that `copy` shows to be enough. The clock is the same for all workers;
  in the code two workers may differ by the age of their cached time.
- `ThreadPool`: several pools, a mutex whose unlock fails; the work of a task.
- Request processing, parsing and configuration: sequential transformations of
  data without shared state.
- PHP: the engine is sequential; the process manager of FPM and the shared memory
  of opcache are possible subjects once nginx is done.

## Plan

In order of importance; the first seven are done.

1. `Mutex`, `Shmtx` and its proofs. Done.
2. `AcceptMutex` over `Mutex` and its proofs. Done.
3. `ThreadPool` and its proofs. Done.
4. `ProcessCycle` and its proofs. Done.
5. `Connections` with the stale events of epoll, and its proofs. Done.
6. `ReadWrite`, `Rwlock`, and `Peers` over it, with their proofs. Done.
7. Proofs of `CrewIsWhole`, `ZombieIsPending`, `NothingPostponed`,
   `TaskIsInOnePlace`, `DestroyLeavesNothing` and, with `Sums`,
   `WeightsBalance`. Done.
8. `Timers`: the wrap of `ngx_current_msec`, the lazy `ngx_add_timer()` and
   `ngx_event_expire_timers()` with handlers that add and delete timers.
9. `LimitReq` and `LimitConn`: the excess arithmetic, nodes shared by workers
   that are evicted and cleaned up.
10. `FileCache`: `count`, `updating`, `deleting` and the lock of a cache node
    under several workers and the cache manager, with deaths.
11. `Channels`: announcements lost or sent with a stale command
    (`os/unix/ngx_process_cycle.c:504`, `695`), composed with `ProcessCycle`.
12. `Slab` and `Resolver` as far as they go.
