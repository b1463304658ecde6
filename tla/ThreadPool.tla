----------------------------- MODULE ThreadPool -----------------------------
(***************************************************************************)
(* ngx_thread_pool.c: the threads a worker hands blocking work to, the     *)
(* queue of posted tasks with its condition variable, the queue of done    *)
(* tasks with the eventfd that tells the event loop about it, and the      *)
(* shutdown that sends one exit task per thread.                           *)
(*                                                                         *)
(* tp->mtx is held from the first to the last access to the queue and to   *)
(* tp->waiting, and ngx_thread_pool_done_lock around every access to the   *)
(* done queue, so each critical section is one action.  A thread inside    *)
(* pthread_cond_wait() is asleep until it is signalled or wakes for no     *)
(* reason, and looks at the queue again under the mutex.                   *)
(***************************************************************************)
EXTENDS Integers, Sequences, FiniteSets

CONSTANTS
  Threads,    \* the threads of the pool
  Tasks,      \* the tasks that requests own
  Exit,       \* the task on the stack of ngx_thread_pool_destroy()
  NoTask,     \* a thread without a task
  MaxQueue,   \* tp->max_queue
  MaxFaults   \* bound on failed calls in a behaviour

ASSUME ThreadsAssumption == IsFiniteSet(Threads) /\ Threads # {}
ASSUME TasksAssumption == Exit \notin Tasks /\ NoTask \notin Tasks \cup {Exit}
ASSUME BoundsAssumption == MaxQueue \in Nat /\ MaxFaults \in Nat

VARIABLES
  queue,    \* tp->queue
  waiting,  \* tp->waiting
  tpc,      \* where each thread is
  task,     \* local variable "task" of ngx_thread_pool_cycle()
  active,   \* task->event.active
  done,     \* ngx_thread_pool_done
  event,    \* the eventfd has an event epoll_wait() has not returned yet
  main,     \* where the event loop is
  batch,    \* tasks whose completion handlers ngx_thread_pool_handler() runs
  round,    \* n, in ngx_thread_pool_destroy()
  ack,      \* lock, in ngx_thread_pool_destroy(): the exit handler has not run
  faults,   \* failed calls so far
  gone      \* threads that returned after they had decremented waiting

pool == <<queue, waiting>>
workers == <<tpc, task>>
completion == <<done, event>>
loop == <<main, batch, round, ack>>
vars == <<pool, workers, active, completion, loop, faults, gone>>

(***************************************************************************)
(* lock    wants the mutex at the top of the loop                          *)
(* sleep   in pthread_cond_wait()        woken   wants the mutex again     *)
(* run     runs the task                 done    about to queue it as done *)
(* notify  about to write to the eventfd exited  by the exit task          *)
(* failed  returned after an error                                         *)
(***************************************************************************)
ThreadLabels == {"lock", "sleep", "woken", "run", "done", "notify", "exited",
                 "failed"}

(***************************************************************************)
(* loop       in the event loop           destroy  about to post Exit      *)
(* notified   the eventfd event returned  spin     waits for ack           *)
(* complete   runs completion handlers    stopped  all threads have exited *)
(* gaveup     Exit could not be posted                                     *)
(***************************************************************************)
MainLabels == {"loop", "notified", "complete", "destroy", "spin", "stopped",
               "gaveup"}

Asleep == {t \in Threads : tpc[t] = "sleep"}
Woken  == {t \in Threads : tpc[t] = "woken"}
Goto(t, l) == tpc' = [tpc EXCEPT ![t] = l]

Init ==
  /\ queue = <<>>
  /\ waiting = 0
  /\ tpc = [t \in Threads |-> "lock"]
  /\ task = [t \in Threads |-> NoTask]
  /\ active = [k \in Tasks \cup {Exit} |-> 0]
  /\ done = <<>>
  /\ event = 0
  /\ main = "loop"
  /\ batch = <<>>
  /\ round = 0
  /\ ack = 0
  /\ faults = 0
  /\ gone = 0

Fault == faults < MaxFaults /\ faults' = faults + 1

-----------------------------------------------------------------------------
(* ngx_thread_task_post *)

\* Mutant: queues the task without a signal.
Enqueue_NoSignal(k) ==
  /\ active[k] = 0
  /\ waiting < MaxQueue
  /\ active' = [active EXCEPT ![k] = 1]
  /\ queue' = Append(queue, k)
  /\ waiting' = waiting + 1
  /\ UNCHANGED tpc

\* Mutant: accepts one task too many.
Enqueue_OffByOne(k) ==
  /\ active[k] = 0
  /\ waiting <= MaxQueue
  /\ active' = [active EXCEPT ![k] = 1]
  /\ queue' = Append(queue, k)
  /\ waiting' = waiting + 1
  /\ IF Asleep = {} THEN UNCHANGED tpc ELSE \E t \in Asleep : Goto(t, "woken")

\* Mutant: queues a task that is already active.
Enqueue_Twice(k) ==
  /\ waiting < MaxQueue
  /\ active' = [active EXCEPT ![k] = 1]
  /\ queue' = Append(queue, k)
  /\ waiting' = waiting + 1
  /\ IF Asleep = {} THEN UNCHANGED tpc ELSE \E t \in Asleep : Goto(t, "woken")

\* The task is accepted.  The signal wakes a sleeping thread, if there is one,
\* before the task is in the queue, but the mutex is held until it is.
Enqueue(k) ==
  /\ active[k] = 0
  /\ waiting < MaxQueue
  /\ active' = [active EXCEPT ![k] = 1]
  /\ queue' = Append(queue, k)
  /\ waiting' = waiting + 1
  /\ IF Asleep = {} THEN UNCHANGED tpc ELSE \E t \in Asleep : Goto(t, "woken")

\* A request posts its task, from the event loop or a completion handler.  An
\* active task and a full queue are refused, which changes nothing.
Post(k) ==
  /\ main \in {"loop", "notified", "complete"}
  /\ Enqueue(k)
  /\ UNCHANGED <<task, completion, loop, faults, gone>>

\* ngx_thread_cond_signal() fails: the task stays active, in no queue.
PostSignalError(k) ==
  /\ main \in {"loop", "notified", "complete"}
  /\ active[k] = 0
  /\ waiting < MaxQueue
  /\ Fault
  /\ active' = [active EXCEPT ![k] = 1]
  /\ UNCHANGED <<pool, workers, completion, loop, gone>>

-----------------------------------------------------------------------------
(* ngx_thread_pool_cycle *)

\* The queue is empty: wait.  Otherwise take the first task.
TakeOrSleep(t) ==
  \/ /\ queue = <<>>
     /\ Goto(t, "sleep")
     /\ UNCHANGED <<queue, task>>
  \/ /\ queue # <<>>
     /\ task' = [task EXCEPT ![t] = Head(queue)]
     /\ queue' = Tail(queue)
     /\ Goto(t, "run")

\* Mutant: a free thread is not counted.
Enter_NotCounted(t) ==
  /\ tpc[t] = "lock"
  /\ TakeOrSleep(t)
  /\ waiting' = IF queue = <<>> THEN waiting ELSE waiting - 1
  /\ UNCHANGED <<active, completion, loop, faults, gone>>

Enter(t) ==
  /\ tpc[t] = "lock"
  /\ waiting' = waiting - 1
  /\ TakeOrSleep(t)
  /\ UNCHANGED <<active, completion, loop, faults, gone>>

WakeUp(t) ==
  /\ tpc[t] = "woken"
  /\ TakeOrSleep(t)
  /\ UNCHANGED <<waiting, active, completion, loop, faults, gone>>

SpuriousWakeUp(t) ==
  /\ tpc[t] = "sleep"
  /\ Goto(t, "woken")
  /\ UNCHANGED <<pool, task, active, completion, loop, faults, gone>>

\* task->handler() returns.
Run(t) ==
  /\ tpc[t] = "run"
  /\ task[t] # Exit
  /\ Goto(t, "done")
  /\ UNCHANGED <<pool, task, active, completion, loop, faults, gone>>

\* ngx_thread_pool_exit_handler
RunExit(t) ==
  /\ tpc[t] = "run"
  /\ task[t] = Exit
  /\ ack' = 0
  /\ task' = [task EXCEPT ![t] = NoTask]
  /\ Goto(t, "exited")
  /\ UNCHANGED <<pool, active, completion, main, batch, round, faults, gone>>

Finish(t) ==
  /\ tpc[t] = "done"
  /\ done' = Append(done, task[t])
  /\ task' = [task EXCEPT ![t] = NoTask]
  /\ Goto(t, "notify")
  /\ UNCHANGED <<pool, active, event, loop, faults, gone>>

Notify(t) ==
  /\ tpc[t] = "notify"
  /\ event' = 1
  /\ Goto(t, "lock")
  /\ UNCHANGED <<pool, task, active, done, loop, faults, gone>>

\* write() to the eventfd fails, which nobody looks at.
NotifyError(t) ==
  /\ tpc[t] = "notify"
  /\ Fault
  /\ Goto(t, "lock")
  /\ UNCHANGED <<pool, task, active, completion, loop, gone>>

\* The mutex could not be locked: the thread returns, still uncounted.
LockError(t) ==
  /\ tpc[t] = "lock"
  /\ Fault
  /\ Goto(t, "failed")
  /\ UNCHANGED <<pool, task, active, completion, loop, gone>>

\* pthread_cond_wait() fails: the thread returns and stays counted as free.
CondWaitError(t) ==
  /\ tpc[t] = "sleep"
  /\ Fault
  /\ gone' = gone + 1
  /\ Goto(t, "failed")
  /\ UNCHANGED <<pool, task, active, completion, loop>>

-----------------------------------------------------------------------------
(* The event loop: ngx_epoll_notify_handler and ngx_thread_pool_handler *)

\* epoll_wait() returns the edge of the eventfd.
EventReturned ==
  /\ main = "loop"
  /\ event = 1
  /\ event' = 0
  /\ main' = "notified"
  /\ UNCHANGED <<pool, workers, active, done, batch, round, ack, faults, gone>>

\* Mutant: takes one task of the done queue for one event.
TakeDone_One ==
  /\ main = "notified"
  /\ batch' = IF done = <<>> THEN <<>> ELSE <<Head(done)>>
  /\ done' = IF done = <<>> THEN <<>> ELSE Tail(done)
  /\ main' = "complete"
  /\ UNCHANGED <<pool, workers, active, event, round, ack, faults, gone>>

TakeDone ==
  /\ main = "notified"
  /\ batch' = done
  /\ done' = <<>>
  /\ main' = "complete"
  /\ UNCHANGED <<pool, workers, active, event, round, ack, faults, gone>>

\* Mutant: reads task->next after the handler.  A handler that posts its own
\* task again has set it to NULL by then, and the rest of the batch is lost.
Complete_NextTooLate ==
  /\ main = "complete"
  /\ batch # <<>>
  /\ \/ /\ active' = [active EXCEPT ![Head(batch)] = 0]
        /\ batch' = Tail(batch)
        /\ UNCHANGED <<pool, tpc>>
     \/ /\ waiting < MaxQueue
        /\ queue' = Append(queue, Head(batch))
        /\ waiting' = waiting + 1
        /\ IF Asleep = {} THEN UNCHANGED tpc
                         ELSE \E t \in Asleep : Goto(t, "woken")
        /\ batch' = <<>>
        /\ UNCHANGED active
  /\ UNCHANGED <<task, completion, main, round, ack, faults, gone>>

\* The handler of one completed task, which may post tasks again, this one too
\* (Post).  task->next is read (line 387) before active is cleared and the
\* handler runs, so that a post that sets it to NULL (line 255) leaves the rest
\* of the batch alone.
Complete ==
  /\ main = "complete"
  /\ batch # <<>>
  /\ active' = [active EXCEPT ![Head(batch)] = 0]
  /\ batch' = Tail(batch)
  /\ UNCHANGED <<pool, workers, completion, main, round, ack, faults, gone>>

CompleteEnd ==
  /\ main = "complete"
  /\ batch = <<>>
  /\ main' = "loop"
  /\ UNCHANGED <<pool, workers, active, completion, batch, round, ack, faults,
                 gone>>

-----------------------------------------------------------------------------
(* ngx_thread_pool_destroy, when the worker exits *)

Destroy ==
  /\ main = "loop"
  /\ main' = "destroy"
  /\ UNCHANGED <<pool, workers, active, completion, batch, round, ack, faults,
                 gone>>

\* The test of the for loop and, while it holds, the next exit task.
DestroyPost ==
  /\ main = "destroy"
  /\ round < Cardinality(Threads)
  /\ ack' = 1
  /\ Enqueue(Exit)
  /\ main' = "spin"
  /\ UNCHANGED <<task, completion, batch, round, faults, gone>>

\* The queue is full: destroy returns and the threads go on.
DestroyOverflow ==
  /\ main = "destroy"
  /\ round < Cardinality(Threads)
  /\ waiting >= MaxQueue
  /\ ack' = 1
  /\ main' = "gaveup"
  /\ UNCHANGED <<pool, workers, active, completion, batch, round, faults,
                 gone>>

\* Locking the mutex or the signal fails: destroy returns as well.
DestroyPostError ==
  /\ main = "destroy"
  /\ round < Cardinality(Threads)
  /\ Fault
  /\ ack' = 1
  /\ \/ UNCHANGED active
     \/ waiting < MaxQueue /\ active' = [active EXCEPT ![Exit] = 1]
  /\ main' = "gaveup"
  /\ UNCHANGED <<pool, workers, completion, batch, round, gone>>

\* Mutant: does not wait for the thread to take the exit task.
DestroySpin_NoWait ==
  /\ main = "spin"
  /\ active' = [active EXCEPT ![Exit] = 0]
  /\ round' = round + 1
  /\ main' = "destroy"
  /\ UNCHANGED <<pool, workers, completion, batch, ack, faults, gone>>

DestroySpin ==
  /\ main = "spin"
  /\ ack = 0
  /\ active' = [active EXCEPT ![Exit] = 0]
  /\ round' = round + 1
  /\ main' = "destroy"
  /\ UNCHANGED <<pool, workers, completion, batch, ack, faults, gone>>

DestroyEnd ==
  /\ main = "destroy"
  /\ round = Cardinality(Threads)
  /\ main' = "stopped"
  /\ UNCHANGED <<pool, workers, active, completion, batch, round, ack, faults,
                 gone>>

-----------------------------------------------------------------------------
Thread(t) == Enter(t) \/ WakeUp(t) \/ Run(t) \/ RunExit(t) \/ Finish(t)
             \/ Notify(t)

ThreadFault(t) == NotifyError(t) \/ LockError(t) \/ CondWaitError(t)

Completions == EventReturned \/ TakeDone \/ Complete \/ CompleteEnd

Destroying == DestroyPost \/ DestroyOverflow \/ DestroySpin \/ DestroyEnd

Next ==
  \/ \E t \in Threads : Thread(t) \/ SpuriousWakeUp(t) \/ ThreadFault(t)
  \/ \E k \in Tasks : Post(k) \/ PostSignalError(k)
  \/ Completions \/ Destroy \/ Destroying \/ DestroyPostError

Spec == Init /\ [][Next]_vars

(***************************************************************************)
(* Threads are scheduled, the event loop polls, and destroy runs to its    *)
(* end once it is called.  Nothing obliges a request to post.              *)
(***************************************************************************)
Fairness ==
  /\ \A t \in Threads : WF_vars(Thread(t))
  /\ WF_vars(Completions)
  /\ WF_vars(Destroying)

FairSpec == Spec /\ Fairness

-----------------------------------------------------------------------------
\* Every variable has a value that the code gives it.
TypeOK ==
  /\ queue \in Seq(Tasks \cup {Exit})
  /\ waiting \in Int
  /\ tpc \in [Threads -> ThreadLabels]
  /\ task \in [Threads -> Tasks \cup {Exit, NoTask}]
  /\ active \in [Tasks \cup {Exit} -> {0, 1}]
  /\ done \in Seq(Tasks)
  /\ event \in {0, 1}
  /\ main \in MainLabels
  /\ batch \in Seq(Tasks)
  /\ round \in 0..Cardinality(Threads)
  /\ main = "spin" => round < Cardinality(Threads)
  /\ ack \in {0, 1}
  /\ faults \in 0..MaxFaults
  /\ gone \in Nat
  /\ \A t \in Threads :
       /\ tpc[t] = "run" => task[t] \in Tasks \cup {Exit}
       /\ tpc[t] = "done" => task[t] \in Tasks

(***************************************************************************)
(* tp->waiting is the length of the queue less the threads that are free   *)
(* to take from it, including those that died waiting.                     *)
(***************************************************************************)
WaitingIsAccounted ==
  waiting = Len(queue) - Cardinality(Asleep \cup Woken) - gone

(***************************************************************************)
(* The limit works: beyond one task for every thread that is free no more  *)
(* than max_queue tasks wait.                                              *)
(***************************************************************************)
QueueIsBounded ==
  Len(queue) <= MaxQueue + Cardinality(Asleep \cup Woken) + gone

(***************************************************************************)
(* No lost signal: while a thread sleeps, a thread has been woken for each *)
(* task in the queue.                                                      *)
(***************************************************************************)
NoLostSignal ==
  (Asleep # {} /\ faults = 0) => Len(queue) <= Cardinality(Woken)

(***************************************************************************)
(* A task is in at most one place, and without faults it is active exactly *)
(* while it is in one: it is neither run twice nor forgotten.              *)
(***************************************************************************)
Places(k) ==
  Cardinality({i \in DOMAIN queue : queue[i] = k})
    + Cardinality({t \in Threads : task[t] = k})
    + Cardinality({i \in DOMAIN done : done[i] = k})
    + Cardinality({i \in DOMAIN batch : batch[i] = k})

TaskIsInOnePlace ==
  \A k \in Tasks :
    /\ Places(k) <= active[k]
    /\ faults = 0 => Places(k) = active[k]

(***************************************************************************)
(* A done task is never forgotten: an event is pending or about to be      *)
(* made or handled, unless a write to the eventfd failed.                  *)
(***************************************************************************)
DoneIsAnnounced ==
  (done # <<>> /\ faults = 0)
    => \/ event = 1 \/ main = "notified"
       \/ \E t \in Threads : tpc[t] = "notify"

(***************************************************************************)
(* ngx_thread_pool_destroy() that did not give up leaves no thread behind, *)
(* so the pool can be freed: every thread has taken an exit task of its    *)
(* own, none is left over in the queue, and every task that was queued     *)
(* before was taken, whatever calls failed on the way.                     *)
(***************************************************************************)
DestroyLeavesNothing ==
  main = "stopped"
    => (\A t \in Threads : tpc[t] = "exited") /\ queue = <<>>

(***************************************************************************)
(* A posted task is completed, unless a call failed or the worker exits.   *)
(***************************************************************************)
TaskCompletes ==
  \A k \in Tasks :
    active[k] = 1
      ~> (\/ active[k] = 0 \/ faults > 0
          \/ main \in {"destroy", "spin", "stopped", "gaveup"})

\* ngx_thread_pool_destroy() returns, unless a call failed.
DestroyReturns ==
  main = "destroy" ~> (main \in {"stopped", "gaveup"} \/ faults > 0)
=============================================================================
