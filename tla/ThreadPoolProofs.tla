------------------------- MODULE ThreadPoolProofs -------------------------
(***************************************************************************)
(* Proofs about ThreadPool for any finite set of threads, any tasks, any   *)
(* max_queue and any number of faults.                                     *)
(***************************************************************************)
EXTENDS ThreadPool, FiniteSetTheorems, TLAPS

USE ThreadsAssumption, TasksAssumption, BoundsAssumption

(***************************************************************************)
(* The operations on the queues.                                           *)
(***************************************************************************)
LEMMA SeqFacts ==
  ASSUME NEW S, NEW s \in Seq(S)
  PROVE  /\ Len(s) \in Nat /\ <<>> \in Seq(S)
         /\ s # <<>> => /\ Head(s) \in S /\ Tail(s) \in Seq(S)
                        /\ Len(Tail(s)) = Len(s) - 1
         /\ \A e \in S : Append(s, e) \in Seq(S) /\ Len(Append(s, e)) = Len(s) + 1
OBVIOUS

(***************************************************************************)
(* Type correctness of the pool, the done queue and the event loop.        *)
(***************************************************************************)
THEOREM TypeCorrect == Spec => []TypeOK
<1>1. Init => TypeOK
  BY FS_CardinalityType DEF Init, TypeOK, ThreadLabels, MainLabels
<1>2. TypeOK /\ [Next]_vars => TypeOK'
  <2> SUFFICES ASSUME TypeOK, [Next]_vars PROVE TypeOK'
    OBVIOUS
  <2>0. Cardinality(Threads) \in Nat
    BY FS_CardinalityType
  <2> USE <2>0
  <2> USE DEF TypeOK, ThreadLabels, MainLabels, Goto, Asleep, Fault,
              pool, workers, completion, loop
  <2>1. CASE UNCHANGED vars
    BY <2>1 DEF vars
  <2>2. ASSUME NEW k \in Tasks, Post(k)
        PROVE  TypeOK'
    BY <2>2 DEF Post, Enqueue
  <2>3. ASSUME NEW k \in Tasks, PostSignalError(k)
        PROVE  TypeOK'
    BY <2>3 DEF PostSignalError
  <2>4. ASSUME NEW t \in Threads, Enter(t) \/ WakeUp(t)
        PROVE  TypeOK'
    <3>1. CASE queue = <<>>
      <4>1. Goto(t, "sleep") /\ waiting' \in Int
            /\ UNCHANGED <<queue, task, active, completion, loop, faults, gone>>
        BY <2>4, <3>1 DEF Enter, WakeUp, TakeOrSleep
      <4>2. QED
        BY <4>1
    <3>2. CASE queue # <<>>
      <4>1. Head(queue) \in Tasks \cup {Exit} /\ Tail(queue) \in Seq(Tasks \cup {Exit})
        BY <3>2, SeqFacts
      <4>2. task' = [task EXCEPT ![t] = Head(queue)] /\ queue' = Tail(queue)
            /\ Goto(t, "run") /\ UNCHANGED <<active, completion, loop, faults, gone>>
            /\ waiting' \in Int
        BY <2>4, <3>2 DEF Enter, WakeUp, TakeOrSleep
      <4>3. QED
        BY <4>1, <4>2
    <3>3. QED
      BY <3>1, <3>2
  <2>5. ASSUME NEW t \in Threads, SpuriousWakeUp(t) \/ Run(t) \/ RunExit(t)
        PROVE  TypeOK'
    BY <2>5 DEF SpuriousWakeUp, Run, RunExit
  <2>6. ASSUME NEW t \in Threads, Finish(t) \/ Notify(t)
        PROVE  TypeOK'
    <3>1. CASE Finish(t)
      <4>1. Append(done, task[t]) \in Seq(Tasks)
        BY <3>1, SeqFacts DEF Finish
      <4>2. QED
        BY <3>1, <4>1 DEF Finish
    <3>2. CASE Notify(t)
      BY <3>2 DEF Notify
    <3>3. QED
      BY <2>6, <3>1, <3>2
  <2>7. ASSUME NEW t \in Threads, ThreadFault(t)
        PROVE  TypeOK'
    <3>1. CASE NotifyError(t) \/ LockError(t)
      <4>1. \E l \in {"lock", "failed"} : Goto(t, l)
        BY <3>1 DEF NotifyError, LockError
      <4>2. UNCHANGED <<pool, task, active, completion, loop, gone>> /\ Fault
        BY <3>1 DEF NotifyError, LockError
      <4>3. QED
        BY <4>1, <4>2
    <3>2. CASE CondWaitError(t)
      BY <3>2 DEF CondWaitError
    <3>3. QED
      BY <2>7, <3>1, <3>2 DEF ThreadFault
  <2>8. CASE Completions
    <3>1. CASE EventReturned \/ CompleteEnd
      BY <3>1 DEF EventReturned, CompleteEnd
    <3>2. CASE TakeDone
      BY <3>2, SeqFacts DEF TakeDone
    <3>3. CASE Complete
      <4>1. Head(batch) \in Tasks /\ Tail(batch) \in Seq(Tasks)
        BY <3>3, SeqFacts DEF Complete
      <4>2. QED
        BY <3>3, <4>1 DEF Complete
    <3>4. QED
      BY <2>8, <3>1, <3>2, <3>3 DEF Completions
  <2>9. CASE \/ Destroy \/ DestroyOverflow \/ DestroyPostError \/ DestroySpin
             \/ DestroyEnd
    <3>1. CASE Destroy
      BY <3>1 DEF Destroy
    <3>2. CASE DestroyOverflow \/ DestroyEnd
      BY <3>2 DEF DestroyOverflow, DestroyEnd
    <3>3. CASE DestroySpin
      BY <3>3 DEF DestroySpin
    <3>4. CASE DestroyPostError
      BY <3>4 DEF DestroyPostError, Fault
    <3>5. QED
      BY <2>9, <3>1, <3>2, <3>3, <3>4
  <2>10. CASE DestroyPost
    BY <2>10 DEF DestroyPost, Enqueue
  <2>11. QED
    BY <2>1, <2>2, <2>3, <2>4, <2>5, <2>6, <2>7, <2>8, <2>9, <2>10
       DEF Next, Thread, Destroying
<1>3. QED
  BY <1>1, <1>2, PTL DEF Spec

(***************************************************************************)
(* The threads at one of the labels L, and how a step that moves one       *)
(* thread changes their number.                                            *)
(***************************************************************************)
At(L) == {t \in Threads : tpc[t] \in L}

LEMMA AtIsFinite ==
  ASSUME NEW L
  PROVE  IsFiniteSet(At(L)) /\ Cardinality(At(L)) \in Nat
BY FS_Subset, FS_CardinalityType DEF At

LEMMA Move ==
  ASSUME TypeOK, NEW L, NEW t \in Threads, NEW l, Goto(t, l)
  PROVE  Cardinality(At(L)') = Cardinality(At(L))
           + (IF l \in L THEN 1 ELSE 0) - (IF tpc[t] \in L THEN 1 ELSE 0)
<1>1. CASE l \in L /\ tpc[t] \notin L
  <2>1. At(L)' = At(L) \cup {t} /\ t \notin At(L)
    BY <1>1 DEF At, Goto, TypeOK
  <2>2. Cardinality(At(L) \cup {t}) = Cardinality(At(L)) + 1
    BY <2>1, AtIsFinite, FS_AddElement
  <2>3. QED
    BY <1>1, <2>1, <2>2, AtIsFinite
<1>2. CASE l \notin L /\ tpc[t] \in L
  <2>1. At(L)' = At(L) \ {t} /\ t \in At(L)
    BY <1>2 DEF At, Goto, TypeOK
  <2>2. Cardinality(At(L) \ {t}) = Cardinality(At(L)) - 1
    BY <2>1, AtIsFinite, FS_RemoveElement
  <2>3. QED
    BY <1>2, <2>1, <2>2, AtIsFinite
<1>3. CASE l \in L <=> tpc[t] \in L
  <2>1. At(L)' = At(L)
    BY <1>3 DEF At, Goto, TypeOK
  <2>2. QED
    BY <1>3, <2>1, AtIsFinite
<1>4. QED
  BY <1>1, <1>2, <1>3

Free == At({"sleep", "woken"})

LEMMA MoveFree ==
  ASSUME TypeOK, NEW t \in Threads, NEW l, Goto(t, l)
  PROVE  LET F == {"sleep", "woken"} IN
         /\ l \in F /\ tpc[t] \notin F => Cardinality(Free') = Cardinality(Free) + 1
         /\ l \notin F /\ tpc[t] \in F => Cardinality(Free') = Cardinality(Free) - 1
         /\ (l \in F <=> tpc[t] \in F) => Cardinality(Free') = Cardinality(Free)
<1> DEFINE L == {"sleep", "woken"}
<1> HIDE DEF L
<1>1. Cardinality(At(L)') = Cardinality(At(L))
           + (IF l \in L THEN 1 ELSE 0) - (IF tpc[t] \in L THEN 1 ELSE 0)
  BY Move
<1>2. Cardinality(At(L)) \in Nat
  BY AtIsFinite
<1>3. QED
  BY <1>1, <1>2 DEF Free, L

LEMMA FreeThreads == Asleep \cup Woken = Free /\ Woken = At({"woken"})
BY DEF Asleep, Woken, Free, At

(***************************************************************************)
(* The two facts about the queue that a step has to preserve, told with    *)
(* the number of free threads.                                             *)
(***************************************************************************)
Counts ==
  /\ waiting = Len(queue) - Cardinality(Free) - gone
  /\ waiting <= MaxQueue

LEMMA CountsInit == Init => Counts
<1> SUFFICES ASSUME Init PROVE Counts
  OBVIOUS
<1>1. Free = {}
  BY DEF Init, Free, At
<1>2. QED
  BY <1>1, FS_EmptySet DEF Init, Counts

LEMMA CountsStep == TypeOK /\ Counts /\ [Next]_vars => Counts'
<1> SUFFICES ASSUME TypeOK, Counts, [Next]_vars PROVE Counts'
  OBVIOUS
<1>0. /\ waiting \in Int /\ gone \in Nat /\ Len(queue) \in Nat
      /\ Cardinality(Free) \in Nat
  BY AtIsFinite DEF TypeOK, Free
<1> USE <1>0 DEF Counts
<1>1. ASSUME UNCHANGED <<pool, tpc, gone>>
      PROVE  Counts'
  BY <1>1 DEF pool, Free, At
<1>2. ASSUME NEW k \in Tasks \cup {Exit}, Enqueue(k), UNCHANGED gone
      PROVE  Counts'
  <2>1. Len(queue') = Len(queue) + 1
    BY <1>2 DEF Enqueue, TypeOK
  <2>2. Cardinality(Free') = Cardinality(Free)
    <3>1. CASE UNCHANGED tpc
      BY <3>1 DEF Free, At
    <3>2. ASSUME NEW t \in Asleep, Goto(t, "woken")
          PROVE  Cardinality(Free') = Cardinality(Free)
      <4>1. t \in Threads /\ tpc[t] = "sleep"
        BY DEF Asleep
      <4>2. QED
        BY <3>2, <4>1, MoveFree
    <3>3. QED
      BY <1>2, <3>1, <3>2 DEF Enqueue
  <2>3. QED
    BY <1>2, <2>1, <2>2 DEF Enqueue
<1>3. ASSUME NEW t \in Threads, Enter(t)
      PROVE  Counts'
  <2>1. CASE queue = <<>> /\ Goto(t, "sleep") /\ UNCHANGED queue
    <3>1. Cardinality(Free') = Cardinality(Free) + 1
      BY <1>3, <2>1, MoveFree DEF Enter
    <3>2. QED
      BY <1>3, <2>1, <3>1 DEF Enter
  <2>2. CASE queue # <<>> /\ queue' = Tail(queue) /\ Goto(t, "run")
    <3>1. Cardinality(Free') = Cardinality(Free)
      BY <1>3, <2>2, MoveFree DEF Enter
    <3>2. Len(queue') = Len(queue) - 1
      BY <2>2 DEF TypeOK
    <3>3. QED
      BY <1>3, <2>2, <3>1, <3>2 DEF Enter
  <2>3. QED
    BY <1>3, <2>1, <2>2 DEF Enter, TakeOrSleep
<1>4. ASSUME NEW t \in Threads, WakeUp(t)
      PROVE  Counts'
  <2>1. CASE queue = <<>> /\ Goto(t, "sleep") /\ UNCHANGED queue
    <3>1. Cardinality(Free') = Cardinality(Free)
      BY <1>4, <2>1, MoveFree DEF WakeUp
    <3>2. QED
      BY <1>4, <2>1, <3>1 DEF WakeUp
  <2>2. CASE queue # <<>> /\ queue' = Tail(queue) /\ Goto(t, "run")
    <3>1. Cardinality(Free') = Cardinality(Free) - 1
      BY <1>4, <2>2, MoveFree DEF WakeUp
    <3>2. Len(queue') = Len(queue) - 1
      BY <2>2 DEF TypeOK
    <3>3. QED
      BY <1>4, <2>2, <3>1, <3>2 DEF WakeUp
  <2>3. QED
    BY <1>4, <2>1, <2>2 DEF WakeUp, TakeOrSleep
<1>5. ASSUME NEW t \in Threads, NEW l, Goto(t, l),
             l \in {"sleep", "woken"} <=> tpc[t] \in {"sleep", "woken"},
             UNCHANGED <<pool, gone>>
      PROVE  Counts'
  <2>1. Cardinality(Free') = Cardinality(Free)
    BY <1>5, MoveFree
  <2>2. QED
    BY <1>5, <2>1 DEF pool
<1>6. ASSUME NEW t \in Threads,
             \/ SpuriousWakeUp(t) \/ Run(t) \/ RunExit(t) \/ Finish(t)
             \/ Notify(t) \/ NotifyError(t) \/ LockError(t)
      PROVE  Counts'
  BY <1>5, <1>6 DEF SpuriousWakeUp, Run, RunExit, Finish, Notify, NotifyError,
                    LockError, pool
<1>7. ASSUME NEW t \in Threads, CondWaitError(t)
      PROVE  Counts'
  <2>1. Cardinality(Free') = Cardinality(Free) - 1
    <3>1. tpc[t] = "sleep" /\ Goto(t, "failed")
      BY <1>7 DEF CondWaitError
    <3>2. QED
      BY <3>1, MoveFree
  <2>2. QED
    BY <1>7, <2>1 DEF CondWaitError, pool
<1>8. CASE \/ Completions \/ Destroy \/ DestroyOverflow \/ DestroyPostError
           \/ DestroySpin \/ DestroyEnd
  BY <1>1, <1>8 DEF Completions, EventReturned, TakeDone, Complete,
     CompleteEnd, Destroy, DestroyOverflow, DestroyPostError, DestroySpin,
     DestroyEnd, workers
<1>9. ASSUME NEW k \in Tasks, Post(k) \/ PostSignalError(k)
      PROVE  Counts'
  BY <1>1, <1>2, <1>9 DEF Post, PostSignalError, workers
<1>10. CASE DestroyPost
  BY <1>2, <1>10 DEF DestroyPost
<1>11. CASE UNCHANGED vars
  BY <1>1, <1>11 DEF vars, workers
<1>12. QED
  BY <1>3, <1>4, <1>6, <1>7, <1>8, <1>9, <1>10, <1>11
     DEF Next, Thread, ThreadFault, Destroying

(***************************************************************************)
(* tp->waiting counts the tasks that no free thread is there for.          *)
(***************************************************************************)
THEOREM Accounting == Spec => []WaitingIsAccounted
<1>1. Counts => WaitingIsAccounted
  BY FreeThreads DEF Counts, WaitingIsAccounted
<1>2. QED
  BY <1>1, CountsInit, CountsStep, TypeCorrect, PTL DEF Spec

(***************************************************************************)
(* max_queue bounds the tasks that no free thread is there for.            *)
(***************************************************************************)
THEOREM QueueBound == Spec => []QueueIsBounded
<1>1. TypeOK /\ Counts => QueueIsBounded
  <2>1. Cardinality(Free) \in Nat
    BY AtIsFinite DEF Free
  <2>2. TypeOK => gone \in Nat /\ waiting \in Int /\ Len(queue) \in Nat
    BY SeqFacts DEF TypeOK
  <2>3. Cardinality(Asleep \cup Woken) = Cardinality(Free)
    BY FreeThreads
  <2>4. QED
    BY <2>1, <2>2, <2>3 DEF Counts, QueueIsBounded
<1>2. QED
  BY <1>1, CountsInit, CountsStep, TypeCorrect, PTL DEF Spec

LEMMA MoveWoken ==
  ASSUME TypeOK, NEW t \in Threads, NEW l, Goto(t, l)
  PROVE  /\ l = "woken" /\ tpc[t] # "woken"
              => Cardinality(Woken') = Cardinality(Woken) + 1
         /\ l # "woken" /\ tpc[t] = "woken"
              => Cardinality(Woken') = Cardinality(Woken) - 1
         /\ (l = "woken" <=> tpc[t] = "woken")
              => Cardinality(Woken') = Cardinality(Woken)
<1> DEFINE L == {"woken"}
<1>1. Woken = At(L) /\ Woken' = At(L)'
  BY DEF Woken, At
<1> HIDE DEF L
<1>2. Cardinality(At(L)') = Cardinality(At(L))
           + (IF l \in L THEN 1 ELSE 0) - (IF tpc[t] \in L THEN 1 ELSE 0)
  BY Move
<1>3. Cardinality(At(L)) \in Nat
  BY AtIsFinite
<1>4. QED
  BY <1>1, <1>2, <1>3 DEF L

(***************************************************************************)
(* Posting signals before it queues, and no signal is lost.  The formula   *)
(* is inductive by itself: a thread goes to sleep only when the queue is   *)
(* empty, and from then on every task comes with a signal as long as some  *)
(* thread sleeps.                                                          *)
(***************************************************************************)
THEOREM SignalsAreNotLost == Spec => []NoLostSignal
<1>1. Init => NoLostSignal
  BY DEF Init, NoLostSignal, Asleep
<1>2. TypeOK /\ NoLostSignal /\ [Next]_vars => NoLostSignal'
  <2> SUFFICES ASSUME TypeOK, NoLostSignal, [Next]_vars PROVE NoLostSignal'
    OBVIOUS
  <2>0. /\ Cardinality(Woken) \in Nat /\ Len(queue) \in Nat
        /\ Cardinality(Woken') \in Nat /\ faults \in Nat
    <3>1. Woken \in SUBSET Threads /\ Woken' \in SUBSET Threads
      BY DEF Woken
    <3>2. QED
      BY <3>1, FS_Subset, FS_CardinalityType, SeqFacts DEF TypeOK
  <2> USE <2>0 DEF NoLostSignal
  <2>1. ASSUME UNCHANGED <<queue, tpc>>, faults' \in {faults, faults + 1}
        PROVE  NoLostSignal'
    BY <2>1 DEF Asleep, Woken
  <2>2. ASSUME NEW t \in Threads, NEW l \in ThreadLabels \ {"sleep", "woken"},
               Goto(t, l), tpc[t] \notin {"sleep", "woken"},
               UNCHANGED queue, faults' \in {faults, faults + 1}
        PROVE  NoLostSignal'
    <3>1. Asleep' = Asleep /\ Woken' = Woken
      BY <2>2 DEF Asleep, Woken, Goto, TypeOK
    <3>2. QED
      BY <2>2, <3>1
  <2>3. ASSUME NEW k \in Tasks \cup {Exit}, Enqueue(k), UNCHANGED faults
        PROVE  NoLostSignal'
    <3>1. CASE Asleep = {}
      BY <2>3, <3>1 DEF Enqueue, Asleep
    <3>2. CASE Asleep # {}
      <4>1. PICK t \in Asleep : Goto(t, "woken")
        BY <2>3, <3>2 DEF Enqueue
      <4>2. t \in Threads /\ tpc[t] = "sleep"
        BY DEF Asleep
      <4>3. Cardinality(Woken') = Cardinality(Woken) + 1
        BY <4>1, <4>2, MoveWoken
      <4>4. Len(queue') = Len(queue) + 1
        BY <2>3, SeqFacts DEF Enqueue, TypeOK
      <4>5. QED
        BY <2>3, <3>2, <4>3, <4>4
    <3>3. QED
      BY <3>1, <3>2
  <2>4. ASSUME NEW t \in Threads, Enter(t) \/ WakeUp(t)
        PROVE  NoLostSignal'
    <3>1. CASE queue = <<>>
      BY <2>4, <3>1 DEF Enter, WakeUp, TakeOrSleep
    <3>2. CASE queue # <<>>
      <4>1. /\ Goto(t, "run") /\ queue' = Tail(queue) /\ UNCHANGED faults
            /\ tpc[t] \in {"lock", "woken"}
        BY <2>4, <3>2 DEF Enter, WakeUp, TakeOrSleep
      <4>2. Asleep' = Asleep
        BY <4>1 DEF Asleep, Goto, TypeOK
      <4>3. /\ tpc[t] = "woken" => Cardinality(Woken') = Cardinality(Woken) - 1
            /\ tpc[t] = "lock" => Cardinality(Woken') = Cardinality(Woken)
        BY <4>1, MoveWoken
      <4>4. Len(queue') = Len(queue) - 1
        BY <3>2, <4>1, SeqFacts DEF TypeOK
      <4>5. QED
        BY <4>1, <4>2, <4>3, <4>4
    <3>3. QED
      BY <3>1, <3>2
  <2>5. ASSUME NEW t \in Threads, SpuriousWakeUp(t)
        PROVE  NoLostSignal'
    <3>1. Cardinality(Woken') = Cardinality(Woken) + 1
      BY <2>5, MoveWoken DEF SpuriousWakeUp
    <3>2. Asleep # {}
      BY <2>5 DEF SpuriousWakeUp, Asleep
    <3>3. QED
      BY <2>5, <3>1, <3>2 DEF SpuriousWakeUp, pool
  <2>6. ASSUME NEW t \in Threads, Run(t) \/ RunExit(t) \/ Finish(t) \/ Notify(t)
        PROVE  NoLostSignal'
    BY <2>2, <2>6 DEF Run, RunExit, Finish, Notify, pool, ThreadLabels
  <2>7. ASSUME NEW t \in Threads, NotifyError(t) \/ LockError(t)
        PROVE  NoLostSignal'
    BY <2>2, <2>7 DEF NotifyError, LockError, Fault, pool, ThreadLabels
  <2>8. ASSUME NEW t \in Threads, CondWaitError(t)
        PROVE  NoLostSignal'
    BY <2>8 DEF CondWaitError, Fault
  <2>9. CASE \/ Completions \/ Destroy \/ DestroyOverflow \/ DestroyPostError
             \/ DestroySpin \/ DestroyEnd
    BY <2>1, <2>9 DEF Completions, EventReturned, TakeDone, Complete,
       CompleteEnd, Destroy, DestroyOverflow, DestroyPostError, DestroySpin,
       DestroyEnd, workers, pool, Fault
  <2>10. ASSUME NEW k \in Tasks, Post(k) \/ PostSignalError(k)
         PROVE  NoLostSignal'
    BY <2>1, <2>3, <2>10 DEF Post, PostSignalError, Fault, workers, pool
  <2>11. CASE DestroyPost
    BY <2>3, <2>11 DEF DestroyPost
  <2>12. CASE UNCHANGED vars
    BY <2>1, <2>12 DEF vars, workers, pool
  <2>13. QED
    BY <2>4, <2>5, <2>6, <2>7, <2>8, <2>9, <2>10, <2>11, <2>12
       DEF Next, Thread, ThreadFault, Destroying
<1>3. QED
  BY <1>1, <1>2, TypeCorrect, PTL DEF Spec

(***************************************************************************)
(* The event loop always hears of a done task: the thread that queued it   *)
(* writes to the eventfd afterwards, and an event is only consumed before  *)
(* the whole queue is taken.                                               *)
(***************************************************************************)
THEOREM DoneTasksAreAnnounced == Spec => []DoneIsAnnounced
<1>1. Init => DoneIsAnnounced
  BY DEF Init, DoneIsAnnounced
<1>2. TypeOK /\ DoneIsAnnounced /\ [Next]_vars => DoneIsAnnounced'
  <2> SUFFICES ASSUME TypeOK, DoneIsAnnounced, [Next]_vars
               PROVE  DoneIsAnnounced'
    OBVIOUS
  <2>0. faults \in Nat /\ tpc \in [Threads -> ThreadLabels]
    BY DEF TypeOK
  <2> USE <2>0 DEF DoneIsAnnounced, Goto
  <2>1. ASSUME UNCHANGED <<completion, main>>, faults' \in {faults, faults + 1},
               \A t \in Threads : tpc[t] = "notify" => tpc'[t] = "notify"
        PROVE  DoneIsAnnounced'
    BY <2>1 DEF completion
  <2>2. ASSUME NEW k \in Tasks \cup {Exit}, Enqueue(k)
        PROVE  \A t \in Threads : tpc[t] = "notify" => tpc'[t] = "notify"
    BY <2>2 DEF Enqueue, Asleep
  <2>3. ASSUME NEW t \in Threads,
               Enter(t) \/ WakeUp(t) \/ SpuriousWakeUp(t) \/ Run(t) \/ RunExit(t)
        PROVE  DoneIsAnnounced'
    BY <2>1, <2>3
       DEF Enter, WakeUp, TakeOrSleep, SpuriousWakeUp, Run, RunExit, loop
  <2>4. ASSUME NEW t \in Threads, Finish(t) \/ Notify(t)
        PROVE  DoneIsAnnounced'
    BY <2>4 DEF Finish, Notify
  <2>5. ASSUME NEW t \in Threads, ThreadFault(t)
        PROVE  DoneIsAnnounced'
    BY <2>5 DEF ThreadFault, NotifyError, LockError, CondWaitError, Fault
  <2>6. CASE EventReturned \/ TakeDone
    BY <2>6 DEF EventReturned, TakeDone
  <2>7. CASE \/ Complete \/ CompleteEnd \/ Destroy \/ DestroyOverflow
             \/ DestroyPostError \/ DestroySpin \/ DestroyEnd
    BY <2>7 DEF Complete, CompleteEnd, Destroy, DestroyOverflow, DestroySpin,
       DestroyPostError, DestroyEnd, completion, workers, Fault
  <2>8. ASSUME NEW k \in Tasks, Post(k) \/ PostSignalError(k)
        PROVE  DoneIsAnnounced'
    BY <2>1, <2>2, <2>8 DEF Post, PostSignalError, Fault, loop, workers
  <2>9. CASE DestroyPost
    BY <2>2, <2>9 DEF DestroyPost, completion
  <2>10. CASE UNCHANGED vars
    BY <2>10 DEF vars, completion, workers, loop
  <2>11. QED
    BY <2>3, <2>4, <2>5, <2>6, <2>7, <2>8, <2>9, <2>10
       DEF Next, Thread, Completions, Destroying
<1>3. QED
  BY <1>1, <1>2, TypeCorrect, PTL DEF Spec

(***************************************************************************)
(* How often k is in the sequence s, and what the operations on the queues *)
(* change in that.                                                         *)
(***************************************************************************)
Occurs(k, s) == Cardinality({j \in DOMAIN s : s[j] = k})

LEMMA OccursType ==
  ASSUME NEW S, NEW s \in Seq(S), NEW k
  PROVE  /\ IsFiniteSet({j \in DOMAIN s : s[j] = k})
         /\ Occurs(k, s) \in Nat /\ Occurs(k, <<>>) = 0
<1>1. DOMAIN s = 1 .. Len(s) /\ Len(s) \in Nat
  OBVIOUS
<1>2. IsFiniteSet(1 .. Len(s))
  BY <1>1, FS_Interval
<1>3. IsFiniteSet({j \in DOMAIN s : s[j] = k})
  BY <1>1, <1>2, FS_Subset
<1>4. {j \in DOMAIN <<>> : <<>>[j] = k} = {}
  OBVIOUS
<1>5. QED
  BY <1>3, <1>4, FS_CardinalityType, FS_EmptySet DEF Occurs

LEMMA OccursAppend ==
  ASSUME NEW S, NEW s \in Seq(S), NEW e \in S, NEW k
  PROVE  Occurs(k, Append(s, e)) = Occurs(k, s) + (IF e = k THEN 1 ELSE 0)
<1> DEFINE A == {j \in DOMAIN s : s[j] = k}
           B == {j \in DOMAIN Append(s, e) : Append(s, e)[j] = k}
           n == Len(s) + 1
<1>1. IsFiniteSet(A) /\ Cardinality(A) \in Nat
  BY OccursType DEF Occurs
<1>2. n \notin A /\ B = IF e = k THEN A \cup {n} ELSE A
  OBVIOUS
<1>3. Cardinality(A \cup {n}) = Cardinality(A) + 1
  <2> HIDE DEF A, n
  <2>1. QED
    BY <1>1, <1>2, FS_AddElement
<1>4. QED
  <2> HIDE DEF A, B, n
  <2>1. Cardinality(B) = Cardinality(A) + (IF e = k THEN 1 ELSE 0)
    BY <1>1, <1>2, <1>3
  <2>2. QED
    BY <2>1 DEF A, B, Occurs

LEMMA OccursTail ==
  ASSUME NEW S, NEW s \in Seq(S), s # <<>>, NEW k
  PROVE  Occurs(k, Tail(s)) = Occurs(k, s) - (IF Head(s) = k THEN 1 ELSE 0)
<1> DEFINE A == {j \in DOMAIN s : s[j] = k}
           B == {j \in DOMAIN Tail(s) : Tail(s)[j] = k}
           f == [j \in B |-> j + 1]
<1>0. /\ Tail(s) \in Seq(S) /\ Len(Tail(s)) = Len(s) - 1 /\ Head(s) = s[1]
      /\ Len(s) \in Nat \ {0}
      /\ \A j \in 1 .. Len(s) - 1 : Tail(s)[j] = s[j + 1]
      /\ DOMAIN s = 1 .. Len(s) /\ DOMAIN Tail(s) = 1 .. Len(s) - 1
  OBVIOUS
<1>1. IsFiniteSet(A) /\ Cardinality(A) \in Nat /\ IsFiniteSet(B)
  BY <1>0, OccursType DEF Occurs
<1>2. f \in Bijection(B, A \ {1})
  <2>1. \A j \in B : j \in Int /\ j + 1 \in A \ {1}
    BY <1>0
  <2>2. \A j \in A \ {1} : j - 1 \in B /\ f[j - 1] = j
    BY <1>0
  <2>3. f \in [B -> A \ {1}]
    BY <2>1
  <2>4. \A j, m \in B : f[j] = f[m] => j = m
    BY <2>1
  <2>5. DOMAIN f = B
    OBVIOUS
  <2> HIDE DEF A, B, f
  <2>6. QED
    BY <2>2, <2>3, <2>4, <2>5 DEF Bijection, Injection, IsInjective, Surjection
<1>3. Cardinality(A \ {1}) = Cardinality(B)
  <2> HIDE DEF A, B, f
  <2>1. ExistsBijection(B, A \ {1})
    BY <1>2 DEF ExistsBijection
  <2>2. QED
    BY <1>1, <2>1, FS_Bijection
<1>4. Cardinality(A \ {1}) = Cardinality(A) - (IF Head(s) = k THEN 1 ELSE 0)
  <2>1. 1 \in A <=> Head(s) = k
    BY <1>0
  <2> HIDE DEF A, B
  <2>2. Cardinality(A \ {1}) = IF 1 \in A THEN Cardinality(A) - 1
                                          ELSE Cardinality(A)
    BY <1>1, FS_RemoveElement
  <2>3. QED
    BY <1>1, <2>1, <2>2
<1>5. QED
  BY <1>3, <1>4 DEF Occurs

(***************************************************************************)
(* How many threads have k in hand, when h says what each one has.         *)
(***************************************************************************)
HeldIn(k, h) == Cardinality({u \in Threads : h[u] = k})

LEMMA HeldType ==
  ASSUME NEW k, NEW h
  PROVE  IsFiniteSet({u \in Threads : h[u] = k}) /\ HeldIn(k, h) \in Nat
BY FS_Subset, FS_CardinalityType DEF HeldIn

DiffersAt(t, g, h) == \A u \in Threads \ {t} : g[u] = h[u]

LEMMA HeldStep ==
  ASSUME NEW t \in Threads, NEW h, NEW g, DiffersAt(t, g, h), NEW k
  PROVE  /\ g[t] = k /\ h[t] # k => HeldIn(k, g) = HeldIn(k, h) + 1
         /\ g[t] # k /\ h[t] = k => HeldIn(k, g) = HeldIn(k, h) - 1
         /\ (g[t] = k <=> h[t] = k) => HeldIn(k, g) = HeldIn(k, h)
<1> DEFINE A == {u \in Threads : h[u] = k}
           B == {u \in Threads : g[u] = k}
<1>0. IsFiniteSet(A) /\ Cardinality(A) \in Nat
  BY HeldType DEF HeldIn
<1>1. /\ g[t] = k => B = A \cup {t}
      /\ g[t] # k => B = A \ {t}
      /\ (g[t] = k <=> h[t] = k) => B = A
  BY DEF DiffersAt
<1>2. t \in A <=> h[t] = k
  OBVIOUS
<1>3. HeldIn(k, h) = Cardinality(A) /\ HeldIn(k, g) = Cardinality(B)
  BY DEF HeldIn
<1> HIDE DEF A, B
<1>4. /\ t \notin A => Cardinality(A \cup {t}) = Cardinality(A) + 1
      /\ t \in A => Cardinality(A \ {t}) = Cardinality(A) - 1
  BY <1>0, FS_AddElement, FS_RemoveElement
<1>5. QED
  BY <1>1, <1>2, <1>3, <1>4

LEMMA PlacesAre ==
  /\ \A k : Places(k) = Occurs(k, queue) + HeldIn(k, task) + Occurs(k, done)
                          + Occurs(k, batch)
  /\ \A k : Places(k)' = Occurs(k, queue') + HeldIn(k, task') + Occurs(k, done')
                          + Occurs(k, batch')
BY DEF Places, Occurs, HeldIn

(***************************************************************************)
(* What keeps a task from being lost on its way: a thread that takes one   *)
(* has none in hand, and the done queue is moved into an empty batch.      *)
(***************************************************************************)
HandsAreFree ==
  /\ \A t \in Threads : tpc[t] \notin {"run", "done"} => task[t] = NoTask
  /\ main # "complete" => batch = <<>>

LEMMA HandsAreFreeStep == TypeOK /\ HandsAreFree /\ [Next]_vars => HandsAreFree'
<1> SUFFICES ASSUME TypeOK, HandsAreFree, [Next]_vars PROVE HandsAreFree'
  OBVIOUS
<1>0. /\ tpc \in [Threads -> ThreadLabels]
      /\ task \in [Threads -> Tasks \cup {Exit, NoTask}]
  BY DEF TypeOK
<1> USE <1>0 DEF HandsAreFree, Goto, pool, completion, workers, loop
<1>1. ASSUME NEW k \in Tasks \cup {Exit}, Enqueue(k), UNCHANGED <<task, batch>>,
             main' # "complete" => batch = <<>>
      PROVE  HandsAreFree'
  BY <1>1 DEF Enqueue, Asleep
<1>2. ASSUME NEW k \in Tasks, Post(k) \/ PostSignalError(k)
      PROVE  HandsAreFree'
  <2>1. CASE Post(k)
    BY <1>1, <2>1 DEF Post
  <2>2. CASE PostSignalError(k)
    BY <2>2 DEF PostSignalError
  <2>3. QED
    BY <1>2, <2>1, <2>2
<1>3. ASSUME NEW t \in Threads, Enter(t) \/ WakeUp(t)
      PROVE  HandsAreFree'
  BY <1>3 DEF Enter, WakeUp, TakeOrSleep
<1>4. ASSUME NEW t \in Threads,
             \/ SpuriousWakeUp(t) \/ Run(t) \/ RunExit(t) \/ Finish(t)
             \/ Notify(t)
      PROVE  HandsAreFree'
  BY <1>4 DEF SpuriousWakeUp, Run, RunExit, Finish, Notify
<1>5. ASSUME NEW t \in Threads, ThreadFault(t)
      PROVE  HandsAreFree'
  BY <1>5 DEF ThreadFault, NotifyError, LockError, CondWaitError
<1>6. CASE Completions
  BY <1>6 DEF Completions, EventReturned, TakeDone, Complete, CompleteEnd
<1>7. CASE \/ Destroy \/ DestroyOverflow \/ DestroyPostError \/ DestroySpin
           \/ DestroyEnd
  BY <1>7 DEF Destroy, DestroyOverflow, DestroyPostError, DestroySpin,
              DestroyEnd
<1>8. CASE DestroyPost
  BY <1>1, <1>8 DEF DestroyPost
<1>9. CASE UNCHANGED vars
  BY <1>9 DEF vars
<1>10. QED
  BY <1>2, <1>3, <1>4, <1>5, <1>6, <1>7, <1>8, <1>9
     DEF Next, Thread, Destroying

(***************************************************************************)
(* A task is never in two places: it is not run twice, and without faults  *)
(* it is active for exactly as long as it is somewhere.                    *)
(***************************************************************************)
THEOREM TasksAreInOnePlace == Spec => []TaskIsInOnePlace
<1>1. Init => HandsAreFree /\ TaskIsInOnePlace
  <2> SUFFICES ASSUME Init, NEW k \in Tasks
               PROVE  Places(k) = 0 /\ active[k] = 0
    BY DEF Init, HandsAreFree, TaskIsInOnePlace
  <2>1. {u \in Threads : task[u] = k} = {}
    BY DEF Init
  <2>2. HeldIn(k, task) = 0
    BY <2>1, FS_EmptySet DEF HeldIn
  <2>3. <<>> \in Seq(Tasks) /\ queue = <<>> /\ done = <<>> /\ batch = <<>>
    BY DEF Init
  <2>4. Occurs(k, <<>>) = 0
    BY <2>3, OccursType
  <2>5. QED
    BY <2>2, <2>3, <2>4, PlacesAre DEF Init
<1>2. TypeOK /\ HandsAreFree /\ TaskIsInOnePlace /\ [Next]_vars
        => TaskIsInOnePlace'
  <2> SUFFICES ASSUME TypeOK, HandsAreFree, TaskIsInOnePlace, [Next]_vars,
                      NEW k \in Tasks
               PROVE  /\ Places(k)' <= active'[k]
                      /\ faults' = 0 => Places(k)' = active'[k]
    BY DEF TaskIsInOnePlace
  <2> DEFINE Good == /\ Places(k)' <= active'[k]
                     /\ faults' = 0 => Places(k)' = active'[k]
  <2>0. /\ active[k] \in {0, 1} /\ faults \in Nat /\ k # Exit /\ k # NoTask
        /\ active \in [Tasks \cup {Exit} -> {0, 1}]
        /\ queue \in Seq(Tasks \cup {Exit}) /\ done \in Seq(Tasks)
        /\ batch \in Seq(Tasks)
        /\ task \in [Threads -> Tasks \cup {Exit, NoTask}]
    BY DEF TypeOK
  <2>00. /\ Occurs(k, queue) \in Nat /\ HeldIn(k, task) \in Nat
         /\ Occurs(k, done) \in Nat /\ Occurs(k, batch) \in Nat
         /\ Occurs(k, <<>>) = 0
    BY <2>0, OccursType, HeldType
  <2>01. /\ Places(k) <= active[k] /\ (faults = 0 => Places(k) = active[k])
         /\ Places(k) \in Nat
    BY <2>0, <2>00, PlacesAre DEF TaskIsInOnePlace
  <2> USE <2>0, <2>00, <2>01 DEF pool, workers, completion, loop
  <2>1. ASSUME UNCHANGED <<queue, task, done, batch, active>>,
               faults' \in {faults, faults + 1}
        PROVE  Good
    <3>1. Places(k)' = Places(k)
      BY <2>1, PlacesAre
    <3>2. QED
      BY <2>1, <3>1
  <2>2. ASSUME NEW j \in Tasks \cup {Exit}, Enqueue(j),
               UNCHANGED <<task, done, batch, faults>>
        PROVE  Good
    <3>1. Occurs(k, queue') = Occurs(k, queue) + (IF j = k THEN 1 ELSE 0)
      BY <2>2, OccursAppend DEF Enqueue
    <3>2. HeldIn(k, task') = HeldIn(k, task)
      BY <2>2 DEF HeldIn
    <3>3. Places(k)' = Places(k) + (IF j = k THEN 1 ELSE 0)
      BY <2>2, <3>1, <3>2, PlacesAre
    <3>4. active'[k] = IF j = k THEN 1 ELSE active[k]
      BY <2>2 DEF Enqueue
    <3>5. j = k => active[k] = 0
      BY <2>2 DEF Enqueue
    <3>6. QED
      BY <2>2, <3>3, <3>4, <3>5
  <2>3. ASSUME NEW j \in Tasks, PostSignalError(j)
        PROVE  Good
    <3>1. Places(k)' = Places(k)
      BY <2>3, PlacesAre DEF PostSignalError
    <3>2. faults' # 0 /\ active'[k] \in {active[k], 1}
      BY <2>3 DEF PostSignalError, Fault
    <3>3. QED
      BY <3>1, <3>2
  <2>4. ASSUME NEW t \in Threads, Enter(t) \/ WakeUp(t)
        PROVE  Good
    <3>1. UNCHANGED <<done, batch, active, faults>>
      BY <2>4 DEF Enter, WakeUp
    <3>2. CASE UNCHANGED <<queue, task>>
      BY <2>1, <3>1, <3>2
    <3>3. CASE /\ queue # <<>> /\ queue' = Tail(queue)
               /\ task' = [task EXCEPT ![t] = Head(queue)]
      <4>1. task[t] = NoTask
        BY <2>4 DEF Enter, WakeUp, HandsAreFree
      <4>2. /\ task'[t] = Head(queue)
            /\ DiffersAt(t, task', task)
        BY <3>3 DEF DiffersAt
      <4>3. /\ Head(queue) = k => HeldIn(k, task') = HeldIn(k, task) + 1
            /\ Head(queue) # k => HeldIn(k, task') = HeldIn(k, task)
        BY <4>1, <4>2, HeldStep
      <4>4. Occurs(k, queue') = Occurs(k, queue)
                                  - (IF Head(queue) = k THEN 1 ELSE 0)
        BY <3>3, OccursTail
      <4>5. Places(k)' = Places(k)
        BY <3>1, <4>3, <4>4, PlacesAre
      <4>6. QED
        BY <3>1, <4>5
    <3>4. QED
      BY <2>4, <3>2, <3>3 DEF Enter, WakeUp, TakeOrSleep
  <2>5. ASSUME NEW t \in Threads, RunExit(t)
        PROVE  Good
    <3>0. /\ task[t] = Exit /\ task'[t] = NoTask
          /\ DiffersAt(t, task', task)
      BY <2>5 DEF RunExit, DiffersAt
    <3>1. HeldIn(k, task') = HeldIn(k, task)
      BY <3>0, HeldStep
    <3>2. UNCHANGED <<queue, done, batch, active, faults>>
      BY <2>5 DEF RunExit
    <3>3. Places(k)' = Places(k)
      BY <3>1, <3>2, PlacesAre
    <3>4. QED
      BY <3>2, <3>3
  <2>6. ASSUME NEW t \in Threads, Finish(t)
        PROVE  Good
    <3>1. task[t] \in Tasks
      BY <2>6 DEF Finish, TypeOK
    <3>0. /\ task'[t] = NoTask
          /\ DiffersAt(t, task', task)
      BY <2>6 DEF Finish, DiffersAt
    <3>2. /\ task[t] = k => HeldIn(k, task') = HeldIn(k, task) - 1
          /\ task[t] # k => HeldIn(k, task') = HeldIn(k, task)
      BY <3>0, HeldStep
    <3>3. Occurs(k, done') = Occurs(k, done) + (IF task[t] = k THEN 1 ELSE 0)
      BY <2>6, <3>1, OccursAppend DEF Finish
    <3>4. UNCHANGED <<queue, batch, active, faults>>
      BY <2>6 DEF Finish
    <3>5. Places(k)' = Places(k)
      BY <3>2, <3>3, <3>4, PlacesAre
    <3>6. QED
      BY <3>4, <3>5
  <2>7. ASSUME NEW t \in Threads,
               SpuriousWakeUp(t) \/ Run(t) \/ Notify(t) \/ ThreadFault(t)
        PROVE  Good
    BY <2>1, <2>7 DEF SpuriousWakeUp, Run, Notify, ThreadFault, NotifyError,
                      LockError, CondWaitError, Fault
  <2>8. CASE EventReturned \/ CompleteEnd
    BY <2>1, <2>8 DEF EventReturned, CompleteEnd
  <2>9. CASE TakeDone
    <3>1. batch = <<>> /\ batch' = done /\ done' = <<>>
          /\ UNCHANGED <<queue, task, active, faults>>
      BY <2>9 DEF TakeDone, HandsAreFree
    <3>2. HeldIn(k, task') = HeldIn(k, task)
      BY <3>1 DEF HeldIn
    <3>3. Places(k)' = Places(k)
      BY <3>1, <3>2, PlacesAre
    <3>4. QED
      BY <3>1, <3>3
  <2>10. CASE Complete
    <3>1. Head(batch) \in Tasks /\ batch # <<>>
      BY <2>10, SeqFacts DEF Complete
    <3>2. Occurs(k, batch') = Occurs(k, batch)
                                - (IF Head(batch) = k THEN 1 ELSE 0)
      BY <2>10, OccursTail DEF Complete
    <3>3. Occurs(k, batch') \in Nat
      BY <2>10, <3>1, SeqFacts, OccursType DEF Complete
    <3>4. HeldIn(k, task') = HeldIn(k, task) /\ UNCHANGED <<queue, done, faults>>
      BY <2>10 DEF Complete
    <3>5. Places(k)' = Places(k) - (IF Head(batch) = k THEN 1 ELSE 0)
          /\ Places(k)' \in Nat
      BY <3>2, <3>3, <3>4, PlacesAre
    <3>6. active'[k] = IF Head(batch) = k THEN 0 ELSE active[k]
      BY <2>10, <3>1 DEF Complete
    <3>7. QED
      BY <3>4, <3>5, <3>6
  <2>11. CASE Destroy \/ DestroyOverflow \/ DestroyEnd
    BY <2>1, <2>11 DEF Destroy, DestroyOverflow, DestroyEnd
  <2>12. CASE DestroyPostError \/ DestroySpin
    <3>1. UNCHANGED <<queue, task, done, batch>> /\ active'[k] = active[k]
          /\ faults' \in {faults, faults + 1}
      BY <2>12 DEF DestroyPostError, DestroySpin, Fault
    <3>2. Places(k)' = Places(k)
      BY <3>1, PlacesAre
    <3>3. QED
      BY <3>1, <3>2
  <2>13. CASE DestroyPost
    BY <2>2, <2>13 DEF DestroyPost
  <2>14. ASSUME NEW j \in Tasks, Post(j)
         PROVE  Good
    BY <2>2, <2>14 DEF Post
  <2>15. CASE UNCHANGED vars
    BY <2>1, <2>15 DEF vars
  <2>16. QED
    BY <2>3, <2>4, <2>5, <2>6, <2>7, <2>8, <2>9, <2>10, <2>11, <2>12, <2>13,
       <2>14, <2>15 DEF Next, Thread, Completions, Destroying
<1>3. QED
  BY <1>1, <1>2, HandsAreFreeStep, TypeCorrect, PTL DEF Spec

(***************************************************************************)
(* The shutdown.  No request posts once it has begun, so the exit task is  *)
(* the last of the queue, and whoever takes it leaves the queue empty.     *)
(***************************************************************************)
ExitIsLast ==
  /\ \A j \in DOMAIN queue :
       queue[j] = Exit => main = "spin" /\ ack = 1 /\ j = Len(queue)
  /\ \A t \in Threads :
       task[t] = Exit =>
         /\ main = "spin" /\ ack = 1 /\ queue = <<>> /\ tpc[t] = "run"
         /\ \A u \in Threads : task[u] = Exit => u = t
  /\ main = "spin" /\ ack = 0 => queue = <<>>
  /\ main \in {"destroy", "stopped"} /\ round > 0 => queue = <<>>
  /\ main = "stopped" => round = Cardinality(Threads)
  /\ main \in {"loop", "notified", "complete"} => round = 0

\* The exit task of this round was taken.
Acks == IF main = "spin" /\ ack = 0 THEN 1 ELSE 0

ExitsAreCounted == Cardinality(At({"exited"})) = round + Acks

LEMMA ExitIsLastStep ==
  TypeOK /\ HandsAreFree /\ ExitIsLast /\ [Next]_vars => ExitIsLast'
<1> SUFFICES ASSUME TypeOK, HandsAreFree, ExitIsLast, [Next]_vars
             PROVE  ExitIsLast'
  OBVIOUS
<1>0. /\ queue \in Seq(Tasks \cup {Exit}) /\ ack \in {0, 1}
      /\ task \in [Threads -> Tasks \cup {Exit, NoTask}]
      /\ tpc \in [Threads -> ThreadLabels] /\ Cardinality(Threads) \in Nat
      /\ round \in Nat
  BY FS_CardinalityType DEF TypeOK
<1> USE <1>0 DEF Goto, pool, completion, workers, loop
<1>1. ASSUME UNCHANGED <<queue, task, main, round, ack>>,
             \A t \in Threads : tpc[t] = "run" /\ task[t] = Exit => tpc'[t] = "run"
      PROVE  ExitIsLast'
  BY <1>1 DEF ExitIsLast
<1>2. ASSUME NEW k \in Tasks, Post(k)
      PROVE  ExitIsLast'
  <2>1. /\ queue' = Append(queue, k) /\ main \in {"loop", "notified", "complete"}
        /\ UNCHANGED <<task, main, round, ack>>
    BY <1>2 DEF Post, Enqueue
  <2>2. \A j \in DOMAIN queue' : queue'[j] # Exit
    BY <2>1 DEF ExitIsLast
  <2>3. \A t \in Threads : task[t] # Exit
    BY <2>1 DEF ExitIsLast
  <2>4. QED
    BY <2>1, <2>2, <2>3 DEF ExitIsLast
<1>3. ASSUME NEW k \in Tasks, PostSignalError(k)
      PROVE  ExitIsLast'
  BY <1>1, <1>3 DEF PostSignalError
<1>4. ASSUME NEW t \in Threads, Enter(t) \/ WakeUp(t)
      PROVE  ExitIsLast'
  <2>1. UNCHANGED <<main, round, ack>> /\ tpc[t] # "run" /\ task[t] = NoTask
    BY <1>4 DEF Enter, WakeUp, HandsAreFree
  <2>2. CASE UNCHANGED <<queue, task>> /\ Goto(t, "sleep")
    BY <1>1, <2>1, <2>2
  <2>3. CASE /\ queue # <<>> /\ queue' = Tail(queue) /\ Goto(t, "run")
             /\ task' = [task EXCEPT ![t] = Head(queue)]
    <3>1. /\ queue' \in Seq(Tasks \cup {Exit}) /\ Len(queue') = Len(queue) - 1
          /\ Head(queue) = queue[1] /\ Len(queue) \in Nat \ {0}
          /\ \A j \in DOMAIN queue' : queue'[j] = queue[j + 1]
                                      /\ j + 1 \in DOMAIN queue
      BY <2>3
    <3>2. \A u \in Threads : task[u] # Exit
      BY <2>3 DEF ExitIsLast
    <3>3. \A j \in DOMAIN queue' :
            queue'[j] = Exit => main = "spin" /\ ack = 1 /\ j = Len(queue')
      BY <3>1 DEF ExitIsLast
    <3>4. Head(queue) = Exit
            => main = "spin" /\ ack = 1 /\ queue' = <<>>
      <4>1. SUFFICES ASSUME Head(queue) = Exit
                     PROVE  main = "spin" /\ ack = 1 /\ queue' = <<>>
        OBVIOUS
      <4>2. main = "spin" /\ ack = 1 /\ Len(queue) = 1
        BY <3>1, <4>1 DEF ExitIsLast
      <4>3. QED
        BY <3>1, <4>2
    <3>5. \A u \in Threads :
            task'[u] = Exit => /\ main = "spin" /\ ack = 1 /\ queue' = <<>>
                               /\ tpc'[u] = "run" /\ u = t
      BY <2>3, <3>2, <3>4
    <3>6. /\ main = "spin" /\ ack = 0 => FALSE
          /\ main \in {"destroy", "stopped"} /\ round > 0 => FALSE
      BY <2>3 DEF ExitIsLast
    <3>7. QED
      BY <2>1, <3>3, <3>5, <3>6 DEF ExitIsLast
  <2>4. QED
    BY <1>4, <2>2, <2>3 DEF Enter, WakeUp, TakeOrSleep
<1>5. ASSUME NEW t \in Threads,
             SpuriousWakeUp(t) \/ Run(t) \/ Notify(t) \/ ThreadFault(t)
      PROVE  ExitIsLast'
  BY <1>1, <1>5 DEF SpuriousWakeUp, Run, Notify, ThreadFault, NotifyError,
                    LockError, CondWaitError
<1>6. ASSUME NEW t \in Threads, RunExit(t)
      PROVE  ExitIsLast'
  <2>1. main = "spin" /\ ack = 1 /\ queue = <<>>
        /\ \A u \in Threads : task[u] = Exit => u = t
    BY <1>6 DEF RunExit, ExitIsLast
  <2>2. /\ task' = [task EXCEPT ![t] = NoTask]
        /\ UNCHANGED <<queue, main, round>>
    BY <1>6 DEF RunExit
  <2>3. \A u \in Threads : task'[u] # Exit
    BY <2>1, <2>2
  <2>4. QED
    BY <2>1, <2>2, <2>3 DEF ExitIsLast
<1>7. ASSUME NEW t \in Threads, Finish(t)
      PROVE  ExitIsLast'
  <2>1. /\ UNCHANGED <<queue, main, round, ack>>
        /\ \A u \in Threads : task'[u] = Exit => task[u] = Exit /\ u # t
        /\ \A u \in Threads \ {t} : tpc'[u] = tpc[u]
    BY <1>7 DEF Finish
  <2>2. QED
    BY <2>1 DEF ExitIsLast
<1>8. CASE Completions
  <2>1. /\ UNCHANGED <<queue, task, tpc, round, ack>>
        /\ main \in {"loop", "notified", "complete"}
        /\ main' \in {"loop", "notified", "complete"}
    BY <1>8 DEF Completions, EventReturned, TakeDone, Complete, CompleteEnd
  <2>2. QED
    BY <2>1 DEF ExitIsLast
<1>9. CASE Destroy \/ DestroyOverflow \/ DestroyPostError \/ DestroyEnd
  <2>1. /\ UNCHANGED <<queue, task, tpc, round>>
        /\ main \in {"loop", "destroy"}
        /\ main' \in {"destroy", "gaveup", "stopped"}
        /\ main = "loop" => main' = "destroy"
        /\ main' = "stopped" => round = Cardinality(Threads)
    BY <1>9 DEF Destroy, DestroyOverflow, DestroyPostError, DestroyEnd
  <2>2. QED
    BY <2>1 DEF ExitIsLast
<1>10. CASE DestroySpin
  <2>1. /\ UNCHANGED <<queue, task, tpc, ack>> /\ main = "spin" /\ ack = 0
        /\ main' = "destroy"
    BY <1>10 DEF DestroySpin
  <2>2. QED
    BY <2>1 DEF ExitIsLast
<1>11. CASE DestroyPost
  <2>1. /\ queue' = Append(queue, Exit) /\ UNCHANGED <<task, round>>
        /\ main = "destroy" /\ main' = "spin" /\ ack' = 1
    BY <1>11 DEF DestroyPost, Enqueue
  <2>2. /\ \A j \in DOMAIN queue : queue[j] # Exit
        /\ \A t \in Threads : task[t] # Exit
    BY <2>1 DEF ExitIsLast
  <2>3. \A j \in DOMAIN queue' : queue'[j] = Exit => j = Len(queue')
    BY <2>1, <2>2
  <2>4. QED
    BY <2>1, <2>2, <2>3 DEF ExitIsLast
<1>12. CASE UNCHANGED vars
  BY <1>1, <1>12 DEF vars
<1>13. QED
  BY <1>2, <1>3, <1>4, <1>5, <1>6, <1>7, <1>8, <1>9, <1>10, <1>11, <1>12
     DEF Next, Thread, Destroying

LEMMA MoveExited ==
  ASSUME TypeOK, NEW t \in Threads, NEW l, Goto(t, l), tpc[t] # "exited"
  PROVE  /\ l = "exited" => Cardinality(At({"exited"})')
                              = Cardinality(At({"exited"})) + 1
         /\ l # "exited" => Cardinality(At({"exited"})')
                              = Cardinality(At({"exited"}))
<1> DEFINE E == {"exited"}
<1> HIDE DEF E
<1>1. Cardinality(At(E)') = Cardinality(At(E))
           + (IF l \in E THEN 1 ELSE 0) - (IF tpc[t] \in E THEN 1 ELSE 0)
  BY Move
<1>2. Cardinality(At(E)) \in Nat
  BY AtIsFinite
<1>3. QED
  BY <1>1, <1>2 DEF E

LEMMA ExitsAreCountedStep ==
  TypeOK /\ ExitIsLast /\ ExitsAreCounted /\ [Next]_vars => ExitsAreCounted'
<1> SUFFICES ASSUME TypeOK, ExitIsLast, ExitsAreCounted, [Next]_vars
             PROVE  ExitsAreCounted'
  OBVIOUS
<1> DEFINE C == Cardinality(At({"exited"}))
           D == Cardinality(At({"exited"})')
<1>0. C \in Nat /\ round \in Nat /\ ack \in {0, 1} /\ C = round + Acks
  BY AtIsFinite DEF TypeOK, ExitsAreCounted
<1>00. ExitsAreCounted' <=> D = round' + Acks'
  BY DEF ExitsAreCounted
<1>000. UNCHANGED tpc => D = C
  BY DEF At
<1>01. ASSUME NEW t \in Threads, NEW l, Goto(t, l), tpc[t] # "exited",
              l # "exited"
       PROVE  D = C
  BY <1>01, MoveExited
<1> HIDE DEF C, D
<1> USE <1>0 DEF Acks, pool, completion, workers, loop
<1>1. ASSUME D = C, UNCHANGED <<main, round, ack>>
      PROVE  ExitsAreCounted'
  BY <1>1, <1>00
<1>2. ASSUME NEW k \in Tasks \cup {Exit}, Enqueue(k)
      PROVE  D = C
  <2>1. CASE UNCHANGED tpc
    BY <2>1, <1>000
  <2>2. ASSUME NEW t \in Asleep, Goto(t, "woken")
        PROVE  D = C
    BY <2>2, <1>01 DEF Asleep
  <2>3. QED
    BY <1>2, <2>1, <2>2 DEF Enqueue
<1>3. ASSUME NEW k \in Tasks, Post(k) \/ PostSignalError(k)
      PROVE  ExitsAreCounted'
  BY <1>000, <1>1, <1>2, <1>3 DEF Post, PostSignalError
<1>4. ASSUME NEW t \in Threads,
             \/ Enter(t) \/ WakeUp(t) \/ SpuriousWakeUp(t) \/ Run(t)
             \/ Finish(t) \/ Notify(t) \/ ThreadFault(t)
      PROVE  ExitsAreCounted'
  <2>1. D = C
    BY <1>01, <1>4 DEF Enter, WakeUp, TakeOrSleep, SpuriousWakeUp, Run, Finish,
       Notify, ThreadFault, NotifyError, LockError, CondWaitError
  <2>2. UNCHANGED <<main, round, ack>>
    BY <1>4 DEF Enter, WakeUp, SpuriousWakeUp, Run, Finish, Notify,
       ThreadFault, NotifyError, LockError, CondWaitError
  <2>3. QED
    BY <1>1, <2>1, <2>2
<1>5. ASSUME NEW t \in Threads, RunExit(t)
      PROVE  ExitsAreCounted'
  <2>1. D = C + 1
    BY <1>5, MoveExited DEF RunExit, C, D
  <2>2. main = "spin" /\ ack = 1 /\ ack' = 0 /\ UNCHANGED <<main, round>>
    BY <1>5 DEF RunExit, ExitIsLast
  <2>3. QED
    BY <2>1, <2>2, <1>00
<1>6. CASE Completions \/ Destroy \/ DestroyOverflow \/ DestroyPostError
           \/ DestroyEnd
  <2>1. /\ UNCHANGED <<tpc, round>> /\ main # "spin" /\ main' # "spin"
    BY <1>6 DEF Completions, EventReturned, TakeDone, Complete, CompleteEnd,
       Destroy, DestroyOverflow, DestroyPostError, DestroyEnd
  <2>2. QED
    BY <2>1, <1>000, <1>00
<1>7. CASE DestroySpin
  <2>1. /\ UNCHANGED tpc /\ main = "spin" /\ ack = 0 /\ main' = "destroy"
        /\ round' = round + 1
    BY <1>7 DEF DestroySpin
  <2>2. QED
    BY <2>1, <1>000, <1>00
<1>8. CASE DestroyPost
  <2>1. /\ D = C /\ UNCHANGED round /\ main = "destroy" /\ ack' = 1
    BY <1>2, <1>8 DEF DestroyPost
  <2>2. QED
    BY <2>1, <1>00
<1>9. CASE UNCHANGED vars
  BY <1>1, <1>9, <1>000 DEF vars
<1>10. QED
  BY <1>3, <1>4, <1>5, <1>6, <1>7, <1>8, <1>9 DEF Next, Thread, Destroying

(***************************************************************************)
(* ngx_thread_pool_destroy() returns normally only when every thread has   *)
(* taken an exit task and nothing is left in the queue.                    *)
(***************************************************************************)
THEOREM DestroyIsComplete == Spec => []DestroyLeavesNothing
<1>1. Init => HandsAreFree /\ ExitIsLast /\ ExitsAreCounted
  <2> SUFFICES ASSUME Init PROVE HandsAreFree /\ ExitIsLast /\ ExitsAreCounted
    OBVIOUS
  <2>1. HandsAreFree
    BY DEF Init, HandsAreFree
  <2>2. ExitIsLast
    BY DEF Init, ExitIsLast
  <2>3. At({"exited"}) = {}
    BY DEF Init, At
  <2>4. ExitsAreCounted
    BY <2>3, FS_EmptySet DEF Init, ExitsAreCounted, Acks
  <2>5. QED
    BY <2>1, <2>2, <2>4
<1>2. TypeOK /\ ExitIsLast /\ ExitsAreCounted => DestroyLeavesNothing
  <2> SUFFICES ASSUME TypeOK, ExitIsLast, ExitsAreCounted, main = "stopped"
               PROVE  (\A t \in Threads : tpc[t] = "exited") /\ queue = <<>>
    BY DEF DestroyLeavesNothing
  <2>1. Cardinality(Threads) \in Nat /\ Cardinality(Threads) # 0
    BY FS_CardinalityType, FS_EmptySet
  <2>2. round = Cardinality(Threads) /\ queue = <<>>
    BY <2>1 DEF ExitIsLast
  <2>3. Cardinality(At({"exited"})) = Cardinality(Threads)
    BY <2>1, <2>2 DEF ExitsAreCounted, Acks
  <2>4. At({"exited"}) = Threads
    BY <2>3, FS_Subset DEF At
  <2>5. QED
    BY <2>2, <2>4 DEF At
<1>3. QED
  BY <1>1, <1>2, HandsAreFreeStep, ExitIsLastStep, ExitsAreCountedStep,
     TypeCorrect, PTL DEF Spec
=============================================================================
