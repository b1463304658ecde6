------------------------------- MODULE Shmtx -------------------------------
(***************************************************************************)
(* ngx_shmtx.c: the mutex that nginx keeps in shared memory, in the build  *)
(* with atomic operations and POSIX semaphores.                            *)
(*                                                                         *)
(* The mutex is a word holding the pid of its owner, a counter of the      *)
(* processes that may be asleep and a semaphore they sleep on.  None of    *)
(* the three is changed together with another one: between the atomic      *)
(* operations of one process any operation of another may happen, a        *)
(* process may die, and the SIGCHLD handler of the master may free the     *)
(* word that the dead process left locked (ngx_process.c).                 *)
(*                                                                         *)
(* One action is one atomic operation on the shared words together with    *)
(* the local code up to the next one.  "*lock == 0 && cmp_set(lock, 0,     *)
(* pid)" is one action: when the plain read sees the mutex taken the test  *)
(* fails there, otherwise it succeeds or fails at the cmp_set.             *)
(***************************************************************************)
EXTENDS Integers, FiniteSets

CONSTANTS
  Procs,      \* the worker processes that use the mutex
  Handler,    \* the SIGCHLD handler of the master process
  Nobody,     \* the value 0 of the lock word
  MaxFaults   \* bound on deaths and failed semaphore calls in a behaviour

ASSUME ProcsAssumption == IsFiniteSet(Procs)
ASSUME NamesAssumption == Nobody \notin Procs /\ Handler \notin Procs
ASSUME MaxFaultsAssumption == MaxFaults \in Nat

VARIABLES
  semaphore,  \* mtx->semaphore: sem_init() succeeded
  lock,       \* *mtx->lock: pid of the owner
  wait,       \* *mtx->wait, read as a signed number by the wake-up
  sem,        \* value of mtx->sem
  pc,         \* where each thread is in the code
  seen,       \* local variable "wait" of ngx_shmtx_wakeup(), 0 once it is dead
  faults,     \* faults so far
  orphaned    \* history: faults that hit somebody who owed or had used a wake-up

shared == <<lock, wait, sem>>
vars == <<semaphore, lock, wait, sem, pc, seen, faults, orphaned>>

Threads == Procs \cup {Handler}

(***************************************************************************)
(* out     outside, or the handler idle      dec    owner, still counted   *)
(* try     top of the loop of lock           cs     owner                  *)
(* inc     gave up spinning                  wake   freed the lock word    *)
(* check   counted in wait, will look again  cas    has read wait > 0      *)
(* sleep   in sem_wait()                     post   has taken 1 from wait  *)
(* dead    died, not reaped                  gone   reaped, not respawned  *)
(***************************************************************************)
Holding == {"dec", "cs"}
Waking  == {"wake", "cas", "post"}
Wanting == {"try", "inc", "check", "sleep"}
Labels  == {"out", "dead", "gone"} \cup Holding \cup Waking \cup Wanting

Goto(t, l) == pc' = [pc EXCEPT ![t] = l]

Init ==
  /\ semaphore \in {0, 1}
  /\ lock = Nobody
  /\ wait = 0
  /\ sem = 0
  /\ pc = [t \in Threads |-> "out"]
  /\ seen = [t \in Threads |-> 0]
  /\ faults = 0
  /\ orphaned = 0

-----------------------------------------------------------------------------
(* ngx_shmtx_trylock and ngx_shmtx_lock *)

TryLock(p) ==
  /\ pc[p] = "out"
  /\ lock = Nobody
  /\ lock' = p
  /\ Goto(p, "cs")
  /\ UNCHANGED <<semaphore, wait, sem, seen, faults, orphaned>>

Lock(p) ==
  /\ pc[p] = "out"
  /\ Goto(p, "try")
  /\ UNCHANGED <<semaphore, shared, seen, faults, orphaned>>

\* The first attempt or one of those between the pauses of the spin loop.
LockTake(p) ==
  /\ pc[p] = "try"
  /\ lock = Nobody
  /\ lock' = p
  /\ Goto(p, "cs")
  /\ UNCHANGED <<semaphore, wait, sem, seen, faults, orphaned>>

\* The last attempt failed.  Without a semaphore the process yields and is at
\* the top of the loop again, which changes nothing.
LockSpinOut(p) ==
  /\ pc[p] = "try"
  /\ lock # Nobody
  /\ semaphore = 1
  /\ Goto(p, "inc")
  /\ UNCHANGED <<semaphore, shared, seen, faults, orphaned>>

LockCountIn(p) ==
  /\ pc[p] = "inc"
  /\ wait' = wait + 1
  /\ Goto(p, "check")
  /\ UNCHANGED <<semaphore, lock, sem, seen, faults, orphaned>>

\* Mutant: forgets to take itself out of wait again.
LockRecheck_StaysCounted(p) ==
  /\ pc[p] = "check"
  /\ \/ /\ lock = Nobody
        /\ lock' = p
        /\ Goto(p, "cs")
     \/ /\ lock # Nobody
        /\ Goto(p, "sleep")
        /\ UNCHANGED lock
  /\ UNCHANGED <<semaphore, wait, sem, seen, faults, orphaned>>

\* Mutant: goes to sleep without the second look at the lock word.
LockRecheck_NoSecondLook(p) ==
  /\ pc[p] = "check"
  /\ Goto(p, "sleep")
  /\ UNCHANGED <<semaphore, shared, seen, faults, orphaned>>

LockRecheck(p) ==
  /\ pc[p] = "check"
  /\ \/ /\ lock = Nobody
        /\ lock' = p
        /\ Goto(p, "dec")
     \/ /\ lock # Nobody
        /\ Goto(p, "sleep")
        /\ UNCHANGED lock
  /\ UNCHANGED <<semaphore, wait, sem, seen, faults, orphaned>>

LockCountOut(p) ==
  /\ pc[p] = "dec"
  /\ wait' = wait - 1
  /\ Goto(p, "cs")
  /\ UNCHANGED <<semaphore, lock, sem, seen, faults, orphaned>>

\* EINTR keeps the process in sem_wait().
SemWait(p) ==
  /\ pc[p] = "sleep"
  /\ sem > 0
  /\ sem' = sem - 1
  /\ Goto(p, "try")
  /\ UNCHANGED <<semaphore, lock, wait, seen, faults, orphaned>>

\* Any other error is logged and the loop starts over, still counted in wait.
SemWaitError(p) ==
  /\ pc[p] = "sleep"
  /\ faults < MaxFaults
  /\ faults' = faults + 1
  /\ Goto(p, "try")
  /\ UNCHANGED <<semaphore, shared, seen, orphaned>>

-----------------------------------------------------------------------------
(* ngx_shmtx_unlock and ngx_shmtx_wakeup *)

\* Mutant: returns without ngx_shmtx_wakeup().
Unlock_NoWakeup(p) ==
  /\ pc[p] = "cs"
  /\ lock = p
  /\ lock' = Nobody
  /\ Goto(p, "out")
  /\ UNCHANGED <<semaphore, wait, sem, seen, faults, orphaned>>

\* A call by a process that is not the owner fails its cmp_set: no change.
Unlock(p) ==
  /\ pc[p] = "cs"
  /\ lock = p
  /\ lock' = Nobody
  /\ Goto(p, "wake")
  /\ UNCHANGED <<semaphore, wait, sem, seen, faults, orphaned>>

WakeRead(t) ==
  /\ pc[t] = "wake"
  /\ \/ /\ semaphore = 0 \/ wait <= 0
        /\ Goto(t, "out")
        /\ UNCHANGED seen
     \/ /\ semaphore = 1
        /\ wait > 0
        /\ seen' = [seen EXCEPT ![t] = wait]
        /\ Goto(t, "cas")
  /\ UNCHANGED <<semaphore, shared, faults, orphaned>>

\* Mutant: posts without taking the sleeper out of wait.
WakeCas_KeepsWait(t) ==
  /\ pc[t] = "cas"
  /\ \/ /\ wait = seen[t]
        /\ Goto(t, "post")
     \/ /\ wait # seen[t]
        /\ Goto(t, "wake")
  /\ seen' = [seen EXCEPT ![t] = 0]
  /\ UNCHANGED <<semaphore, shared, faults, orphaned>>

WakeCas(t) ==
  /\ pc[t] = "cas"
  /\ \/ /\ wait = seen[t]
        /\ wait' = seen[t] - 1
        /\ Goto(t, "post")
     \/ /\ wait # seen[t]
        /\ Goto(t, "wake")
        /\ UNCHANGED wait
  /\ seen' = [seen EXCEPT ![t] = 0]
  /\ UNCHANGED <<semaphore, lock, sem, faults, orphaned>>

WakePost(t) ==
  /\ pc[t] = "post"
  /\ sem' = sem + 1
  /\ Goto(t, "out")
  /\ UNCHANGED <<semaphore, lock, wait, seen, faults, orphaned>>

\* sem_post() failed: the error is logged and the wake-up is lost.
WakePostError(t) ==
  /\ pc[t] = "post"
  /\ faults < MaxFaults
  /\ faults' = faults + 1
  /\ orphaned' = orphaned + 1
  /\ Goto(t, "out")
  /\ UNCHANGED <<semaphore, shared, seen>>

-----------------------------------------------------------------------------
(* A worker dies; the master reaps it, frees what it held, forks another *)

Die(p) ==
  /\ pc[p] \notin {"dead", "gone"}
  /\ faults < MaxFaults
  /\ faults' = faults + 1
  /\ orphaned' = orphaned
                 + IF pc[p] \in Waking \cup (Wanting \ {"sleep"}) THEN 1 ELSE 0
  /\ Goto(p, "dead")
  /\ seen' = [seen EXCEPT ![p] = 0]
  /\ UNCHANGED <<semaphore, shared>>

\* Mutant: frees the mutex whoever owns it.
Reap_AnyOwner(p) ==
  /\ pc[p] = "dead"
  /\ pc[Handler] = "out"
  /\ lock' = Nobody
  /\ pc' = [pc EXCEPT ![p] = "gone", ![Handler] = "wake"]
  /\ UNCHANGED <<semaphore, wait, sem, seen, faults, orphaned>>

\* Mutant: does not look for mutexes that the dead process held.
Reap_NoUnlock(p) ==
  /\ pc[p] = "dead"
  /\ pc[Handler] = "out"
  /\ Goto(p, "gone")
  /\ UNCHANGED <<semaphore, shared, seen, faults, orphaned>>

\* waitpid() in the handler, then ngx_shmtx_force_unlock() with the dead pid.
Reap(p) ==
  /\ pc[p] = "dead"
  /\ pc[Handler] = "out"
  /\ \/ /\ lock = p
        /\ lock' = Nobody
        /\ pc' = [pc EXCEPT ![p] = "gone", ![Handler] = "wake"]
     \/ /\ lock # p
        /\ Goto(p, "gone")
        /\ UNCHANGED lock
  /\ UNCHANGED <<semaphore, wait, sem, seen, faults, orphaned>>

\* The main loop of the master respawns once the handler has returned.
Spawn(p) ==
  /\ pc[p] = "gone"
  /\ pc[Handler] = "out"
  /\ Goto(p, "out")
  /\ UNCHANGED <<semaphore, shared, seen, faults, orphaned>>

-----------------------------------------------------------------------------
Wakeup(t) == WakeRead(t) \/ WakeCas(t) \/ WakePost(t)

LockStep(p) ==
  \/ LockTake(p) \/ LockSpinOut(p) \/ LockCountIn(p)
  \/ LockRecheck(p) \/ LockCountOut(p) \/ SemWait(p)

WorkerNext(p) ==
  \/ TryLock(p) \/ Lock(p) \/ LockStep(p) \/ Unlock(p)
  \/ SemWaitError(p) \/ Die(p) \/ Reap(p) \/ Spawn(p)

Next ==
  \/ \E p \in Procs : WorkerNext(p)
  \/ \E t \in Threads : Wakeup(t) \/ WakePostError(t)

Spec == Init /\ [][Next]_vars

(***************************************************************************)
(* The scheduler runs every runnable process, critical sections end, and   *)
(* the master reaps its children.  Nothing obliges a process to lock.      *)
(***************************************************************************)
Fairness ==
  /\ \A p \in Procs :
       WF_vars(LockStep(p)) /\ WF_vars(Unlock(p)) /\ WF_vars(Reap(p))
  /\ \A t \in Threads : WF_vars(Wakeup(t))

FairSpec == Spec /\ Fairness

-----------------------------------------------------------------------------
CountedAt == {"check", "sleep", "dec"}
Counted == {p \in Procs : pc[p] \in CountedAt}
Posting == {t \in Threads : pc[t] = "post"}

\* Every variable has a value its C type and the code's labels allow.
TypeOK ==
  /\ semaphore \in {0, 1}
  /\ lock \in Procs \cup {Nobody}
  /\ wait \in Int
  /\ sem \in Nat
  /\ pc \in [Threads -> Labels]
  /\ seen \in [Threads -> Int]
  /\ faults \in 0..MaxFaults
  /\ orphaned \in Nat
  /\ pc[Handler] \in {"out"} \cup Waking
  /\ \A p \in Procs : pc[p] \in {"inc", "check", "sleep", "dec"} => semaphore = 1
  /\ \A t \in Threads : pc[t] = "cas" => seen[t] > 0

(***************************************************************************)
(* Mutual exclusion: a process that ngx_shmtx_lock() or ngx_shmtx_trylock()*)
(* let in is the one whose pid is in the lock word, so there is only one,  *)
(* whatever the master frees and whoever dies.  Conversely the word holds  *)
(* the pid of a process that is inside or that died there: no word stays   *)
(* locked by a process that is outside or already reaped.                  *)
(***************************************************************************)
OwnerIsInside ==
  /\ \A p \in Procs : pc[p] \in Holding => lock = p
  /\ lock # Nobody => pc[lock] \in Holding \cup {"dead"}

(***************************************************************************)
(* wait, the semaphore and the wake-ups on their way promise a wake-up to  *)
(* every counted process, exactly one without faults.  A worker that dies  *)
(* before its sem_post() (ngx_shmtx.c:190), or a sem_post() that fails,    *)
(* takes one promise with it and never two: what is left covers all        *)
(* sleepers but one for each such fault.  This is what makes reading       *)
(* wait <= 0 a proof that nobody else is left asleep.                      *)
(***************************************************************************)
WakeupAccounting ==
  LET promised == wait + sem + Cardinality(Posting) IN
  /\ promised + orphaned >= Cardinality(Counted)
  /\ faults = 0 => promised = Cardinality(Counted)

(***************************************************************************)
(* No lost wake-up: the mutex is never free with a process asleep, nothing *)
(* on the semaphore and nobody left who is about to post or to try for the *)
(* mutex, unless a fault took the process that was to do it.               *)
(***************************************************************************)
NoLostWakeup ==
  (lock = Nobody /\ sem = 0 /\ \E p \in Procs : pc[p] = "sleep")
    => \/ orphaned > 0
       \/ \E t \in Threads : pc[t] \in Waking \cup (Wanting \ {"sleep"})

(***************************************************************************)
(* Without faults the semaphore never exceeds the number of processes, so  *)
(* sem_post() cannot overflow it however long nginx runs.                  *)
(***************************************************************************)
SemaphoreBounded == faults = 0 => sem <= Cardinality(Procs)

(***************************************************************************)
(* A free mutex that somebody wants is taken, unless a fault lost the      *)
(* wake-up or removed everybody who wanted it.                             *)
(***************************************************************************)
FreeMutexIsTaken ==
  (lock = Nobody /\ \E p \in Procs : pc[p] \in Wanting)
    ~> (lock # Nobody \/ orphaned > 0 \/ \A p \in Procs : pc[p] \notin Wanting)

(***************************************************************************)
(* A mutex that a process held when it died is freed by the master         *)
(* (ngx_unlock_mutexes).                                                   *)
(***************************************************************************)
DeadOwnerIsEvicted ==
  \A p \in Procs : (pc[p] = "dead" /\ lock = p) ~> lock # p

(***************************************************************************)
(* The mutex is the abstract one: only the owner, or the master after the  *)
(* death of the owner, frees it, and it is never handed over directly.     *)
(***************************************************************************)
Abstract == INSTANCE Mutex WITH
              owner <- lock, dead <- {p \in Procs : pc[p] = "dead"}

ImplementsMutex == Abstract!Spec
=============================================================================
