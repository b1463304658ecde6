---------------------------- MODULE AcceptMutex ----------------------------
(***************************************************************************)
(* How the worker processes share the listening sockets: one iteration of  *)
(* ngx_process_events_and_timers() per turn of the worker's loop, the      *)
(* accept mutex that decides whose epoll instance holds the shared         *)
(* sockets, ngx_event_accept() on a socket with a pending connection, the  *)
(* descriptor shortage that takes the sockets out of epoll, and the        *)
(* shutdown, death, reaping and respawning of workers.                     *)
(*                                                                         *)
(* The mutex word is the one of Shmtx; here it is only tried, never waited *)
(* for.  Every other variable belongs to one worker, so one action is one  *)
(* operation on the mutex or on the kernel's accept queue together with    *)
(* the local code around it.  The build is the one for Linux: epoll, level *)
(* triggered listening sockets, SO_REUSEPORT, ngx_accept_events never set. *)
(***************************************************************************)
EXTENDS Integers

CONSTANTS
  Workers,      \* the worker processes
  Nobody,       \* the value 0 of the mutex word
  ListenN,      \* cycle->listening.nelts as one worker sees it
  Reuseport,    \* the elements with a socket of the worker's own
  ConnectionN,  \* cycle->connection_n
  FreeN,        \* connections a worker has free before it accepts any
  MaxArrivals,  \* bound on the clients that connect
  MaxFaults     \* bound on deaths, shutdowns and failed system calls

ASSUME WorkersAssumption == Nobody \notin Workers
ASSUME ListenAssumption == ListenN \in Nat /\ Reuseport \subseteq 1..ListenN
ASSUME PoolAssumption == ConnectionN \in Nat /\ FreeN \in 0..ConnectionN
ASSUME BoundsAssumption == MaxArrivals \in Nat /\ MaxFaults \in Nat

VARIABLES
  use,       \* ngx_use_accept_mutex as configured
  multi,     \* ecf->multi_accept
  lock,      \* *ngx_accept_mutex.lock
  held,      \* ngx_accept_mutex_held
  disabled,  \* ngx_accept_disabled
  active,    \* listening sockets whose read event is in the worker's epoll
  ready,     \* accept events returned or posted and not handled yet
  post,      \* NGX_POST_EVENTS was set for this iteration
  branch,    \* what this iteration did with the mutex
  cur,       \* socket on which ngx_event_accept() loops, or 0
  timer,     \* sockets whose event has a timer
  timedout,  \* sockets whose event has ev->timedout set
  free,      \* ngx_cycle->free_connection_n
  pc,        \* where the worker is
  backlog,   \* connections the kernel holds for each socket
  arrivals,  \* clients so far
  faults,    \* faults so far
  broken     \* history: epoll_ctl() calls on listening sockets that failed

config  == <<use, multi>>
kernel  == <<backlog, arrivals>>
local   == <<held, disabled, active, ready, post, branch, cur, timer, timedout,
             free>>
history == <<faults, broken>>
vars == <<config, lock, local, pc, kernel, history>>

Listeners == 1..ListenN
Shared == Listeners \ Reuseport

\* A reuseport element is another socket in every worker.
Owners == Workers \cup {Nobody}
Sock(w, i) == <<i, IF i \in Reuseport THEN w ELSE Nobody>>
Pending(w) == {i \in active[w] : backlog[Sock(w, i)] > 0}

(***************************************************************************)
(* top     about to look at the mutex      rest     timers, posted events  *)
(* giveup  got it, could not listen        loop     back in the main loop  *)
(* wait    about to call epoll_wait()      exiting  sockets closed         *)
(* handle  has accept events to handle     dead, gone   as in Shmtx        *)
(***************************************************************************)
Labels == {"top", "giveup", "wait", "handle", "rest", "loop", "exiting",
           "dead", "gone"}
Branches == {"none", "got", "missed", "skipped"}

Put(f, w, v) == [f EXCEPT ![w] = v]
Goto(w, l) == pc' = Put(pc, w, l)

\* ngx_event_process_init: with the mutex only reuseport sockets are added.
StartSet == IF use = 1 THEN Reuseport ELSE Listeners

Init ==
  /\ use \in {0, 1}
  /\ multi \in {0, 1}
  /\ lock = Nobody
  /\ held = [w \in Workers |-> 0]
  /\ disabled = [w \in Workers |-> 0]
  /\ active = [w \in Workers |-> StartSet]
  /\ ready = [w \in Workers |-> {}]
  /\ post = [w \in Workers |-> 0]
  /\ branch = [w \in Workers |-> "none"]
  /\ cur = [w \in Workers |-> 0]
  /\ timer = [w \in Workers |-> {}]
  /\ timedout = [w \in Workers |-> {}]
  /\ free = [w \in Workers |-> FreeN]
  /\ pc = [w \in Workers |-> "top"]
  /\ backlog = [s \in Listeners \X Owners |-> 0]
  /\ arrivals = 0
  /\ faults = 0
  /\ broken = 0

\* A failed system call, a death or a shutdown uses up one fault.
Fault == faults < MaxFaults /\ faults' = faults + 1
EpollError == Fault /\ broken' = broken + 1
NoFault == UNCHANGED history

-----------------------------------------------------------------------------
(* The top of ngx_process_events_and_timers and ngx_trylock_accept_mutex *)

\* No mutex, or too few free connections: the mutex is not even tried.
SkipMutex(w) ==
  /\ pc[w] = "top"
  /\ \/ /\ use = 0
        /\ branch' = Put(branch, w, "none")
        /\ UNCHANGED disabled
     \/ /\ use = 1
        /\ disabled[w] > 0
        /\ disabled' = Put(disabled, w, disabled[w] - 1)
        /\ branch' = Put(branch, w, "skipped")
  /\ post' = Put(post, w, 0)
  /\ Goto(w, "wait")
  /\ UNCHANGED <<config, lock, held, active, ready, cur, timer, timedout, free,
                 kernel>>
  /\ NoFault

Trying(w) == pc[w] = "top" /\ use = 1 /\ disabled[w] <= 0

\* The mutex is free.  A worker that still listens from last time goes on
\* without a look at its sockets; another one adds those that are missing.
TryLockGot(w) ==
  /\ Trying(w)
  /\ lock = Nobody
  /\ lock' = w
  /\ active' = IF held[w] = 1 THEN active ELSE Put(active, w, Listeners)
  /\ held' = Put(held, w, 1)
  /\ post' = Put(post, w, 1)
  /\ branch' = Put(branch, w, "got")
  /\ Goto(w, "wait")
  /\ UNCHANGED <<config, disabled, ready, cur, timer, timedout, free, kernel>>
  /\ NoFault

\* ngx_enable_accept_events() fails at element i.
TryLockEnableError(w) ==
  /\ Trying(w)
  /\ lock = Nobody
  /\ held[w] = 0
  /\ \E i \in Listeners \ active[w] :
       active' = Put(active, w, active[w] \cup 1..(i - 1))
  /\ EpollError
  /\ lock' = w
  /\ Goto(w, "giveup")
  /\ UNCHANGED <<config, held, disabled, ready, post, branch, cur, timer,
                 timedout, free, kernel>>

GiveUp(w) ==
  /\ pc[w] = "giveup"
  /\ lock' = IF lock = w THEN Nobody ELSE lock
  /\ Goto(w, "loop")
  /\ UNCHANGED <<config, local, kernel>>
  /\ NoFault

\* Mutant: does not stop listening.
TryLockMissed_KeepsListening(w) ==
  /\ Trying(w)
  /\ lock # Nobody
  /\ held' = Put(held, w, 0)
  /\ post' = Put(post, w, 0)
  /\ branch' = Put(branch, w, "missed")
  /\ Goto(w, "wait")
  /\ UNCHANGED <<config, lock, disabled, active, ready, cur, timer, timedout,
                 free, kernel>>
  /\ NoFault

\* Somebody else has the mutex: stop listening on the shared sockets.
TryLockMissed(w) ==
  /\ Trying(w)
  /\ lock # Nobody
  /\ active' = IF held[w] = 1 THEN Put(active, w, active[w] \cap Reuseport)
               ELSE active
  /\ held' = Put(held, w, 0)
  /\ post' = Put(post, w, 0)
  /\ branch' = Put(branch, w, "missed")
  /\ Goto(w, "wait")
  /\ UNCHANGED <<config, lock, disabled, ready, cur, timer, timedout, free,
                 kernel>>
  /\ NoFault

\* ngx_disable_accept_events() fails at element i: ngx_accept_mutex_held stays.
TryLockDisableError(w) ==
  /\ Trying(w)
  /\ lock # Nobody
  /\ held[w] = 1
  /\ \E i \in Shared \cap active[w] :
       active' = Put(active, w, active[w] \ (Shared \cap 1..(i - 1)))
  /\ EpollError
  /\ Goto(w, "loop")
  /\ UNCHANGED <<config, lock, held, disabled, ready, post, branch, cur, timer,
                 timedout, free, kernel>>

-----------------------------------------------------------------------------
(* ngx_process_events *)

WaitReturns(w, events) ==
  /\ pc[w] = "wait"
  /\ ready' = Put(ready, w, events)
  /\ Goto(w, "handle")
  /\ UNCHANGED <<config, lock, held, disabled, active, post, branch, cur,
                 timer, timedout, free, kernel>>
  /\ NoFault

\* The worker has timers of its connections or of a listening socket, or the
\* delay it waits before it tries the mutex again.
HasTimeout(w) ==
  branch[w] = "missed" \/ timer[w] # {} \/ free[w] < FreeN

\* epoll_wait() returns the sockets with pending connections or times out.
Wait(w) ==
  /\ Pending(w) # {} \/ HasTimeout(w)
  /\ WaitReturns(w, Pending(w))

\* A signal or an event of a connection, which may never come, ends the wait.
WaitOther(w) == Pending(w) = {} /\ ~HasTimeout(w) /\ WaitReturns(w, {})

\* An event that is not posted is dropped when an earlier one of the batch
\* took its socket out of epoll.
DropEvent(w, i) ==
  /\ pc[w] = "handle" /\ post[w] = 0 /\ cur[w] = 0
  /\ i \in ready[w] \ active[w]
  /\ ready' = Put(ready, w, ready[w] \ {i})
  /\ UNCHANGED <<config, lock, held, disabled, active, post, branch, cur,
                 timer, timedout, free, pc, kernel>>
  /\ NoFault

-----------------------------------------------------------------------------
(* ngx_event_accept on element i: one call of accept() *)

Returned(w, i) == i \in ready[w] /\ (post[w] = 1 \/ i \in active[w])

\* The handler runs for a returned or posted event, or goes on looping.
Accepting(w, i) ==
  \/ pc[w] = "handle" /\ cur[w] = 0 /\ Returned(w, i) /\ i \notin timedout[w]
  \/ pc[w] \in {"handle", "rest"} /\ cur[w] = i

\* The handler is done with the event, or calls accept() again.
Turn(w, i, again) ==
  /\ ready' = Put(ready, w, ready[w] \ {i})
  /\ cur' = Put(cur, w, IF again = 1 THEN i ELSE 0)

\* One connection leaves the accept queue.
Dequeue(w, i) ==
  /\ backlog[Sock(w, i)] > 0
  /\ backlog' = [backlog EXCEPT ![Sock(w, i)] = @ - 1]
  /\ UNCHANGED arrivals

\* The handler runs with ev->timedout set: ngx_event_expire_timers() called it,
\* or an event came after an attempt to listen again had failed.
Resuming(w, i) ==
  /\ cur[w] = 0
  /\ \/ pc[w] = "rest" /\ i \in timer[w]
     \/ pc[w] = "handle" /\ Returned(w, i) /\ i \in timedout[w]

\* Listen again, then accept.
Resume(w, i) ==
  /\ Resuming(w, i)
  /\ timer' = Put(timer, w, timer[w] \ {i})
  /\ timedout' = Put(timedout, w, timedout[w] \ {i})
  /\ active' = Put(active, w, Listeners)
  /\ Turn(w, i, 1)
  /\ UNCHANGED <<config, lock, held, disabled, post, branch, free, pc, kernel>>
  /\ NoFault

\* ngx_enable_accept_events() fails at element k.  Nothing sets a timer again.
ResumeError(w, i) ==
  /\ Resuming(w, i)
  /\ timer' = Put(timer, w, timer[w] \ {i})
  /\ timedout' = Put(timedout, w, timedout[w] \cup {i})
  /\ \E k \in Listeners \ active[w] :
       active' = Put(active, w, active[w] \cup 1..(k - 1))
  /\ EpollError
  /\ Turn(w, i, 0)
  /\ UNCHANGED <<config, lock, held, disabled, post, branch, free, pc, kernel>>

\* EAGAIN: another worker was faster, or the queue is drained.
AcceptAgain(w, i) ==
  /\ Accepting(w, i)
  /\ backlog[Sock(w, i)] = 0
  /\ Turn(w, i, 0)
  /\ UNCHANGED <<config, lock, held, disabled, active, post, branch, timer,
                 timedout, free, pc, kernel>>
  /\ NoFault

\* ECONNABORTED: the client has gone.
AcceptAborted(w, i) ==
  /\ Accepting(w, i)
  /\ Dequeue(w, i)
  /\ Turn(w, i, multi)
  /\ UNCHANGED <<config, lock, held, disabled, active, post, branch, timer,
                 timedout, free, pc>>
  /\ NoFault

\* Any error that has no case of its own.
AcceptError(w, i) ==
  /\ Accepting(w, i)
  /\ Fault
  /\ Turn(w, i, 0)
  /\ UNCHANGED <<config, lock, held, disabled, active, post, branch, timer,
                 timedout, free, pc, kernel, broken>>

\* Mutant: leaves ngx_accept_mutex_held set after the unlock.
AcceptNoFiles_KeepsHeld(w, i) ==
  /\ Accepting(w, i)
  /\ Fault
  /\ active' = Put(active, w, {})
  /\ lock' = IF use = 1 /\ held[w] = 1 /\ lock = w THEN Nobody ELSE lock
  /\ disabled' = IF use = 1 THEN Put(disabled, w, 1) ELSE disabled
  /\ timer' = IF use = 1 THEN timer ELSE Put(timer, w, timer[w] \cup {i})
  /\ Turn(w, i, 0)
  /\ UNCHANGED <<config, timedout, held, post, branch, free, pc, kernel,
                 broken>>

\* EMFILE, ENFILE: stop listening and let the others, or the timer, go on.
AcceptNoFiles(w, i) ==
  /\ Accepting(w, i)
  /\ Fault
  /\ active' = Put(active, w, {})
  /\ \/ /\ use = 1
        /\ lock' = IF held[w] = 1 /\ lock = w THEN Nobody ELSE lock
        /\ held' = Put(held, w, 0)
        /\ disabled' = Put(disabled, w, 1)
        /\ UNCHANGED timer
     \/ /\ use = 0
        /\ timer' = Put(timer, w, timer[w] \cup {i})
        /\ UNCHANGED <<lock, held, disabled>>
  /\ Turn(w, i, 0)
  /\ UNCHANGED <<config, post, branch, timedout, free, pc, kernel, broken>>

\* The same, and ngx_disable_accept_events() fails at element k.
AcceptNoFilesError(w, i) ==
  /\ Accepting(w, i)
  /\ \E k \in active[w] : active' = Put(active, w, active[w] \ 1..(k - 1))
  /\ EpollError
  /\ Turn(w, i, 0)
  /\ UNCHANGED <<config, lock, held, disabled, post, branch, timer, timedout,
                 free, pc, kernel>>

(***************************************************************************)
(* accept() succeeds.  ngx_accept_disabled is computed, then               *)
(* ngx_get_connection() takes a free connection, after draining an idle    *)
(* one when there is none, and the socket is closed when that fails.  The  *)
(* new connection is kept, closed by the listening handler, or given back  *)
(* when something could not be allocated, which also ends the loop.        *)
(***************************************************************************)
Accept(w, i) ==
  /\ Accepting(w, i)
  /\ Dequeue(w, i)
  /\ disabled' = Put(disabled, w, ConnectionN \div 8 - free[w])
  /\ \E drained \in (IF free[w] = 0 /\ FreeN > 0 THEN {0, 1} ELSE {0}) :
       LET slots == free[w] + drained IN
       \/ slots = 0 /\ Turn(w, i, 0) /\ UNCHANGED free
       \/ slots > 0 /\ Turn(w, i, multi)
            /\ \E kept \in {0, 1} : free' = Put(free, w, slots - kept)
       \/ slots > 0 /\ Turn(w, i, 0) /\ free' = Put(free, w, slots)
  /\ UNCHANGED <<config, lock, held, active, post, branch, timer, timedout,
                 pc>>
  /\ NoFault

-----------------------------------------------------------------------------
(* The end of the iteration *)

\* Mutant: goes on to the posted events with the mutex.
Unlock_Later(w) ==
  /\ pc[w] = "handle" /\ cur[w] = 0 /\ ready[w] = {}
  /\ Goto(w, "rest")
  /\ UNCHANGED <<config, lock, local, kernel>>
  /\ NoFault

\* The accept events are handled: unlock, which only the owner can do.
Unlock(w) ==
  /\ pc[w] = "handle" /\ cur[w] = 0 /\ ready[w] = {}
  /\ lock' = IF held[w] = 1 /\ lock = w THEN Nobody ELSE lock
  /\ Goto(w, "rest")
  /\ UNCHANGED <<config, local, kernel>>
  /\ NoFault

\* A connection closes, in its own handler: not between posted accept events.
CloseConnection(w) ==
  /\ pc[w] = "rest" \/ (pc[w] = "handle" /\ post[w] = 0)
  /\ cur[w] = 0
  /\ free[w] < FreeN
  /\ free' = Put(free, w, free[w] + 1)
  /\ UNCHANGED <<config, lock, held, disabled, active, ready, post, branch,
                 cur, timer, timedout, pc, kernel>>
  /\ NoFault

EndIteration(w) ==
  /\ pc[w] = "rest" /\ cur[w] = 0
  /\ Goto(w, "loop")
  /\ UNCHANGED <<config, lock, local, kernel>>
  /\ NoFault

Loop(w) ==
  /\ pc[w] = "loop"
  /\ Goto(w, "top")
  /\ UNCHANGED <<config, lock, local, kernel>>
  /\ NoFault

-----------------------------------------------------------------------------
(* Shutdown, death and rebirth of a worker *)

\* ngx_quit: ngx_close_listening_sockets() and ngx_close_idle_connections().
Quit(w) ==
  /\ pc[w] = "loop"
  /\ Fault
  /\ held' = Put(held, w, 0)
  /\ active' = Put(active, w, {})
  /\ \E n \in free[w]..FreeN : free' = Put(free, w, n)
  /\ Goto(w, "exiting")
  /\ UNCHANGED <<config, lock, disabled, ready, post, branch, cur, timer,
                 timedout, kernel, broken>>

\* The last timer is gone or SIGTERM came: ngx_worker_process_exit().
Exit(w) ==
  /\ pc[w] = "exiting"
  /\ Goto(w, "dead")
  /\ UNCHANGED <<config, lock, local, kernel>>
  /\ NoFault

\* SIGTERM in a worker that is not shutting down, a crash or SIGKILL.
Die(w) ==
  /\ pc[w] \notin {"exiting", "dead", "gone"}
  /\ Fault
  /\ Goto(w, "dead")
  /\ UNCHANGED <<config, lock, local, kernel, broken>>

\* Mutant: the master does not free the accept mutex of a dead worker.
Reap_NoUnlock(w) ==
  /\ pc[w] = "dead"
  /\ Goto(w, "gone")
  /\ UNCHANGED <<config, lock, local, kernel>>
  /\ NoFault

\* Mutant: the master frees the accept mutex whoever owns it.
Reap_AnyOwner(w) ==
  /\ pc[w] = "dead"
  /\ lock' = Nobody
  /\ Goto(w, "gone")
  /\ UNCHANGED <<config, local, kernel>>
  /\ NoFault

\* ngx_unlock_mutexes() in the master.
Reap(w) ==
  /\ pc[w] = "dead"
  /\ lock' = IF lock = w THEN Nobody ELSE lock
  /\ Goto(w, "gone")
  /\ UNCHANGED <<config, local, kernel>>
  /\ NoFault

\* The master starts a worker in its place: ngx_event_process_init().
Spawn(w) ==
  /\ pc[w] = "gone"
  /\ held' = Put(held, w, 0)
  /\ disabled' = Put(disabled, w, 0)
  /\ active' = Put(active, w, StartSet)
  /\ ready' = Put(ready, w, {})
  /\ post' = Put(post, w, 0)
  /\ branch' = Put(branch, w, "none")
  /\ cur' = Put(cur, w, 0)
  /\ timer' = Put(timer, w, {})
  /\ timedout' = Put(timedout, w, {})
  /\ free' = Put(free, w, FreeN)
  /\ Goto(w, "top")
  /\ UNCHANGED <<config, lock, kernel>>
  /\ NoFault

\* A client connects.
Arrive(w, i) ==
  /\ arrivals < MaxArrivals
  /\ arrivals' = arrivals + 1
  /\ backlog' = [backlog EXCEPT ![Sock(w, i)] = @ + 1]
  /\ UNCHANGED <<config, lock, local, pc, history>>

-----------------------------------------------------------------------------
Mutexes(w) ==
  \/ SkipMutex(w) \/ TryLockGot(w) \/ TryLockMissed(w) \/ GiveUp(w)
  \/ Unlock(w)

AcceptStep(w, i) ==
  \/ DropEvent(w, i) \/ AcceptAgain(w, i) \/ AcceptAborted(w, i)
  \/ Accept(w, i)

Iterate(w) == Wait(w) \/ EndIteration(w) \/ Loop(w)

Failures(w) ==
  \/ TryLockEnableError(w) \/ TryLockDisableError(w) \/ Quit(w) \/ Die(w)
  \/ \E i \in Listeners : \/ AcceptError(w, i) \/ AcceptNoFiles(w, i)
                          \/ AcceptNoFilesError(w, i) \/ ResumeError(w, i)

WorkerNext(w) ==
  \/ Mutexes(w) \/ Iterate(w) \/ WaitOther(w) \/ CloseConnection(w)
  \/ \E i \in Listeners : AcceptStep(w, i) \/ Resume(w, i) \/ Arrive(w, i)
  \/ Failures(w) \/ Exit(w) \/ Reap(w) \/ Spawn(w)

Next == \E w \in Workers : WorkerNext(w)

Spec == Init /\ [][Next]_vars

(***************************************************************************)
(* A runnable worker runs, a timer expires, and the master reaps and       *)
(* replaces workers.  No event other than these has to happen: a worker    *)
(* without timers may sleep for ever.                                      *)
(***************************************************************************)
Fairness ==
  \A w \in Workers :
    /\ WF_vars(Mutexes(w))
    /\ WF_vars(Iterate(w))
    /\ \A i \in Listeners :
         WF_vars(AcceptStep(w, i)) /\ SF_vars(Resume(w, i))
    /\ WF_vars(Exit(w)) /\ WF_vars(Reap(w)) /\ WF_vars(Spawn(w))

FairSpec == Spec /\ Fairness
-----------------------------------------------------------------------------
Alive(w) == pc[w] \notin {"exiting", "dead", "gone"}

\* Every variable has a value that the code gives it; the count of free
\* connections stays within the pool.
TypeOK ==
  /\ use \in {0, 1} /\ multi \in {0, 1}
  /\ lock \in Workers \cup {Nobody}
  /\ held \in [Workers -> {0, 1}]
  /\ disabled \in [Workers -> Int]
  /\ active \in [Workers -> SUBSET Listeners]
  /\ ready \in [Workers -> SUBSET Listeners]
  /\ post \in [Workers -> {0, 1}]
  /\ branch \in [Workers -> Branches]
  /\ cur \in [Workers -> 0..ListenN]
  /\ timer \in [Workers -> SUBSET Listeners]
  /\ timedout \in [Workers -> SUBSET Listeners]
  /\ free \in [Workers -> 0..FreeN]
  /\ pc \in [Workers -> Labels]
  /\ backlog \in [Listeners \X Owners -> Nat]
  /\ arrivals \in 0..MaxArrivals
  /\ faults \in 0..MaxFaults
  /\ broken \in Nat

(***************************************************************************)
(* No path through ngx_process_events_and_timers() leaks the mutex: its    *)
(* owner is between the trylock that gave it the mutex and the unlock      *)
(* before the posted events, or died there.  So a worker never runs the    *)
(* handlers of connections, shuts down or comes around with the mutex.     *)
(***************************************************************************)
MutexNotLeaked ==
  \A w \in Workers :
    lock = w => \/ pc[w] \in {"giveup", "dead"}
                \/ pc[w] \in {"wait", "handle"} /\ branch[w] = "got"

(***************************************************************************)
(* Who tried the mutex waits on the shared sockets only as its owner,      *)
(* unless epoll_ctl() failed: the reason to have the mutex.                *)
(***************************************************************************)
OnlyOwnerListens ==
  \A w \in Workers :
    (pc[w] = "wait" /\ branch[w] \in {"got", "missed"} /\ broken = 0)
      => (active[w] \cap Shared = {} \/ lock = w)

(***************************************************************************)
(* Who waits as the owner waits on all sockets, unless epoll_ctl() failed: *)
(* ngx_accept_mutex_held may be trusted as "my sockets are all in epoll"   *)
(* and no connection is left to nobody.                                    *)
(***************************************************************************)
OwnerListensOnAll ==
  \A w \in Workers :
    (pc[w] = "wait" /\ lock = w /\ broken = 0) => active[w] = Listeners

(***************************************************************************)
(* Without the mutex a worker that stopped listening has a timer that      *)
(* makes it listen again, unless epoll_ctl() failed.                       *)
(***************************************************************************)
PauseHasTimer ==
  \A w \in Workers :
    (use = 0 /\ Alive(w) /\ broken = 0)
      => (active[w] = Listeners \/ timer[w] # {})

(***************************************************************************)
(* A worker that ran out of descriptors and has no timers of its own: its  *)
(* next epoll_wait() has no timeout although it listens on nothing.        *)
(***************************************************************************)
Lulled(w) ==
  /\ pc[w] = "wait" /\ branch[w] = "skipped"
  /\ active[w] = {} /\ ~HasTimeout(w)

(***************************************************************************)
(* A connection in the queue of a shared socket is accepted in the end,    *)
(* whoever dies or shuts down, unless epoll_ctl() failed or descriptors    *)
(* ran out in all workers while they were idle.                            *)
(***************************************************************************)
PendingIsAccepted ==
  \A i \in Shared :
    backlog[<<i, Nobody>>] > 0
      ~> (\/ backlog[<<i, Nobody>>] = 0 \/ broken > 0
          \/ \A w \in Workers : Lulled(w))

(***************************************************************************)
(* The workers use the mutex as Mutex says: nobody but the owner, or the   *)
(* master after the owner's death, frees it.                               *)
(***************************************************************************)
Abstract == INSTANCE Mutex WITH
              Procs <- Workers, owner <- lock,
              dead <- {w \in Workers : pc[w] = "dead"}

ImplementsMutex == Abstract!Spec
=============================================================================
