------------------------- MODULE AcceptMutexProofs -------------------------
(***************************************************************************)
(* Proofs about AcceptMutex for any workers, listening sockets, size of    *)
(* the connection pool and number of faults: types, that no path of the    *)
(* worker's loop leaks the mutex, who listens, and that the mutex is used  *)
(* as Mutex says.                                                          *)
(***************************************************************************)
EXTENDS AcceptMutex, TLAPS

USE WorkersAssumption, ListenAssumption, PoolAssumption, BoundsAssumption

(***************************************************************************)
(* The steps of a worker, one disjunct per action.                         *)
(***************************************************************************)
LEMMA NextCases ==
  ASSUME Next
  PROVE  \E w \in Workers :
           \/ SkipMutex(w) \/ TryLockGot(w) \/ TryLockEnableError(w)
           \/ GiveUp(w) \/ TryLockMissed(w) \/ TryLockDisableError(w)
           \/ Wait(w) \/ WaitOther(w) \/ Unlock(w) \/ CloseConnection(w)
           \/ EndIteration(w) \/ Loop(w)
           \/ Quit(w) \/ Exit(w) \/ Die(w) \/ Reap(w) \/ Spawn(w)
           \/ \E i \in Listeners :
                \/ DropEvent(w, i) \/ Resume(w, i) \/ ResumeError(w, i)
                \/ AcceptAgain(w, i) \/ AcceptAborted(w, i)
                \/ AcceptError(w, i) \/ AcceptNoFiles(w, i)
                \/ AcceptNoFilesError(w, i) \/ Accept(w, i) \/ Arrive(w, i)
BY DEF Next, WorkerNext, Mutexes, Iterate, AcceptStep, Failures

(***************************************************************************)
(* Type correctness; in particular ngx_get_connection() never takes a      *)
(* connection from an empty pool.                                          *)
(***************************************************************************)
THEOREM TypeCorrect == Spec => []TypeOK
<1> USE DEF Listeners, Owners, Labels, Branches
<1>1. Init => TypeOK
  BY DEF Init, TypeOK, StartSet
<1>2. TypeOK /\ [Next]_vars => TypeOK'
  <2> SUFFICES ASSUME TypeOK, [Next]_vars PROVE TypeOK'
    OBVIOUS
  <2>0. ConnectionN \div 8 \in Int
    OBVIOUS
  <2> USE DEF TypeOK, Put, Goto, NoFault, Fault, EpollError,
              config, local, kernel, history
  <2>1. CASE UNCHANGED vars
    BY <2>1 DEF vars
  <2>2. ASSUME NEW w \in Workers, NEW i \in Listeners, Dequeue(w, i)
        PROVE  backlog' \in [Listeners \X Owners -> Nat] /\ arrivals' = arrivals
    BY <2>2 DEF Dequeue, Sock
  <2>3. ASSUME NEW w \in Workers, SkipMutex(w) PROVE TypeOK'
    BY <2>3 DEF SkipMutex
  <2>4. ASSUME NEW w \in Workers, TryLockGot(w) PROVE TypeOK'
    BY <2>4 DEF TryLockGot, Trying
  <2>5. ASSUME NEW w \in Workers, TryLockEnableError(w) PROVE TypeOK'
    BY <2>5 DEF TryLockEnableError, Trying
  <2>6. ASSUME NEW w \in Workers, GiveUp(w) PROVE TypeOK'
    BY <2>6 DEF GiveUp
  <2>7. ASSUME NEW w \in Workers, TryLockMissed(w) PROVE TypeOK'
    BY <2>7 DEF TryLockMissed, Trying
  <2>8. ASSUME NEW w \in Workers, TryLockDisableError(w) PROVE TypeOK'
    BY <2>8 DEF TryLockDisableError, Trying, Shared
  <2>9. ASSUME NEW w \in Workers, Wait(w) PROVE TypeOK'
    BY <2>9 DEF Wait, WaitReturns, Pending
  <2>10. ASSUME NEW w \in Workers, WaitOther(w) PROVE TypeOK'
    BY <2>10 DEF WaitOther, WaitReturns
  <2>11. ASSUME NEW w \in Workers, Unlock(w) PROVE TypeOK'
    BY <2>11 DEF Unlock
  <2>12. ASSUME NEW w \in Workers, CloseConnection(w) PROVE TypeOK'
    BY <2>12 DEF CloseConnection
  <2>13. ASSUME NEW w \in Workers, EndIteration(w) PROVE TypeOK'
    BY <2>13 DEF EndIteration
  <2>14. ASSUME NEW w \in Workers, Loop(w) PROVE TypeOK'
    BY <2>14 DEF Loop
  <2>15. ASSUME NEW w \in Workers, Quit(w) PROVE TypeOK'
    BY <2>15 DEF Quit
  <2>16. ASSUME NEW w \in Workers, Exit(w) PROVE TypeOK'
    BY <2>16 DEF Exit
  <2>17. ASSUME NEW w \in Workers, Die(w) PROVE TypeOK'
    BY <2>17 DEF Die
  <2>18. ASSUME NEW w \in Workers, Reap(w) PROVE TypeOK'
    BY <2>18 DEF Reap
  <2>19. ASSUME NEW w \in Workers, Spawn(w) PROVE TypeOK'
    BY <2>19 DEF Spawn, StartSet
  <2>20. ASSUME NEW w \in Workers, NEW i \in Listeners, DropEvent(w, i)
         PROVE  TypeOK'
    BY <2>20 DEF DropEvent
  <2>21. ASSUME NEW w \in Workers, NEW i \in Listeners, Resume(w, i)
         PROVE  TypeOK'
    BY <2>21 DEF Resume, Turn
  <2>22. ASSUME NEW w \in Workers, NEW i \in Listeners, ResumeError(w, i)
         PROVE  TypeOK'
    BY <2>22 DEF ResumeError, Turn
  <2>23. ASSUME NEW w \in Workers, NEW i \in Listeners, AcceptAgain(w, i)
         PROVE  TypeOK'
    BY <2>23 DEF AcceptAgain, Turn
  <2>24. ASSUME NEW w \in Workers, NEW i \in Listeners, AcceptError(w, i)
         PROVE  TypeOK'
    BY <2>24 DEF AcceptError, Turn
  <2>25. ASSUME NEW w \in Workers, NEW i \in Listeners, AcceptNoFiles(w, i)
         PROVE  TypeOK'
    BY <2>25 DEF AcceptNoFiles, Turn
  <2>26. ASSUME NEW w \in Workers, NEW i \in Listeners, AcceptNoFilesError(w, i)
         PROVE  TypeOK'
    BY <2>26 DEF AcceptNoFilesError, Turn
  <2>27. ASSUME NEW w \in Workers, NEW i \in Listeners, AcceptAborted(w, i)
         PROVE  TypeOK'
    BY <2>2, <2>27 DEF AcceptAborted, Turn
  <2>28. ASSUME NEW w \in Workers, NEW i \in Listeners, Accept(w, i)
         PROVE  TypeOK'
    <3>1. backlog' \in [Listeners \X Owners -> Nat] /\ arrivals' = arrivals
      BY <2>2, <2>28 DEF Accept
    <3>2. free' \in [Workers -> 0..FreeN]
      <4> DEFINE Drains == IF free[w] = 0 /\ FreeN > 0 THEN {0, 1} ELSE {0}
      <4>1. PICK drained \in Drains :
              \/ UNCHANGED free
              \/ /\ free[w] + drained > 0
                 /\ \E kept \in {0, 1} :
                      free' = [free EXCEPT ![w] = free[w] + drained - kept]
        <5>1. PICK d \in Drains :
                LET slots == free[w] + d IN
                \/ UNCHANGED free
                \/ slots > 0 /\ \E kept \in {0, 1} : free' = Put(free, w, slots - kept)
                \/ slots > 0 /\ free' = Put(free, w, slots)
          BY <2>28 DEF Accept
        <5>2. free[w] + d - 0 = free[w] + d
          OBVIOUS
        <5>3. QED
          BY <5>1, <5>2
      <4>2. ASSUME NEW kept \in {0, 1}, free[w] + drained > 0
            PROVE  free[w] + drained - kept \in 0..FreeN
        BY <4>2
      <4>3. QED
        BY <4>1, <4>2
    <3>3. disabled' \in [Workers -> Int]
      BY <2>0, <2>28 DEF Accept
    <3>4. ready' \in [Workers -> SUBSET Listeners] /\ cur' \in [Workers -> 0..ListenN]
      BY <2>28 DEF Accept, Turn
    <3>5. QED
      BY <2>28, <3>1, <3>2, <3>3, <3>4 DEF Accept
  <2>29. ASSUME NEW w \in Workers, NEW i \in Listeners, Arrive(w, i)
         PROVE  TypeOK'
    BY <2>29 DEF Arrive, Sock
  <2>30. QED
    BY <2>1, <2>3, <2>4, <2>5, <2>6, <2>7, <2>8, <2>9, <2>10, <2>11, <2>12,
       <2>13, <2>14, <2>15, <2>16, <2>17, <2>18, <2>19, <2>20, <2>21, <2>22,
       <2>23, <2>24, <2>25, <2>26, <2>27, <2>28, <2>29, NextCases
<1>3. QED
  BY <1>1, <1>2, PTL DEF Spec

(***************************************************************************)
(* MutexNotLeaked is not inductive: Unlock and AcceptNoFiles give the      *)
(* mutex back only when ngx_accept_mutex_held is set, and only when the    *)
(* mutex is in use.                                                        *)
(***************************************************************************)
OwnerKnows ==
  \A w \in Workers :
    lock = w => /\ use = 1
                /\ \/ pc[w] \in {"giveup", "dead"}
                   \/ pc[w] \in {"wait", "handle"} /\ branch[w] = "got"
                      /\ held[w] = 1

LEMMA OwnerKnowsStep == TypeOK /\ OwnerKnows /\ [Next]_vars => OwnerKnows'
<1> SUFFICES ASSUME TypeOK, OwnerKnows, [Next]_vars PROVE OwnerKnows'
  OBVIOUS
<1> USE DEF TypeOK, OwnerKnows, Labels, Branches, config, local,
            Put, Goto
<1>1. CASE UNCHANGED vars
  BY <1>1 DEF vars
<1>2. ASSUME NEW w \in Workers, SkipMutex(w) PROVE OwnerKnows'
  BY <1>2 DEF SkipMutex
<1>3. ASSUME NEW w \in Workers, TryLockGot(w) PROVE OwnerKnows'
  BY <1>3 DEF TryLockGot, Trying
<1>4. ASSUME NEW w \in Workers, TryLockEnableError(w) PROVE OwnerKnows'
  BY <1>4 DEF TryLockEnableError, Trying
<1>5. ASSUME NEW w \in Workers, GiveUp(w) PROVE OwnerKnows'
  BY <1>5 DEF GiveUp
<1>6. ASSUME NEW w \in Workers, TryLockMissed(w) PROVE OwnerKnows'
  BY <1>6 DEF TryLockMissed, Trying
<1>7. ASSUME NEW w \in Workers, TryLockDisableError(w) PROVE OwnerKnows'
  BY <1>7 DEF TryLockDisableError, Trying, Shared
<1>8. ASSUME NEW w \in Workers, Wait(w) PROVE OwnerKnows'
  BY <1>8 DEF Wait, WaitReturns
<1>9. ASSUME NEW w \in Workers, WaitOther(w) PROVE OwnerKnows'
  BY <1>9 DEF WaitOther, WaitReturns
<1>10. ASSUME NEW w \in Workers, Unlock(w) PROVE OwnerKnows'
  BY <1>10 DEF Unlock
<1>11. ASSUME NEW w \in Workers, CloseConnection(w) PROVE OwnerKnows'
  BY <1>11 DEF CloseConnection
<1>12. ASSUME NEW w \in Workers, EndIteration(w) PROVE OwnerKnows'
  BY <1>12 DEF EndIteration
<1>13. ASSUME NEW w \in Workers, Loop(w) PROVE OwnerKnows'
  BY <1>13 DEF Loop
<1>14. ASSUME NEW w \in Workers, Quit(w) PROVE OwnerKnows'
  BY <1>14 DEF Quit
<1>15. ASSUME NEW w \in Workers, Exit(w) PROVE OwnerKnows'
  BY <1>15 DEF Exit
<1>16. ASSUME NEW w \in Workers, Die(w) PROVE OwnerKnows'
  BY <1>16 DEF Die
<1>17. ASSUME NEW w \in Workers, Reap(w) PROVE OwnerKnows'
  BY <1>17 DEF Reap
<1>18. ASSUME NEW w \in Workers, Spawn(w) PROVE OwnerKnows'
  BY <1>18 DEF Spawn, StartSet
<1>19. ASSUME NEW w \in Workers, NEW i \in Listeners, DropEvent(w, i)
       PROVE  OwnerKnows'
  BY <1>19 DEF DropEvent
<1>20. ASSUME NEW w \in Workers, NEW i \in Listeners, Resume(w, i)
       PROVE  OwnerKnows'
  BY <1>20 DEF Resume, Resuming, Returned, Turn
<1>21. ASSUME NEW w \in Workers, NEW i \in Listeners, ResumeError(w, i)
       PROVE  OwnerKnows'
  BY <1>21 DEF ResumeError, Resuming, Returned, Turn
<1>22. ASSUME NEW w \in Workers, NEW i \in Listeners, AcceptAgain(w, i)
       PROVE  OwnerKnows'
  BY <1>22 DEF AcceptAgain, Turn
<1>23. ASSUME NEW w \in Workers, NEW i \in Listeners, AcceptError(w, i)
       PROVE  OwnerKnows'
  BY <1>23 DEF AcceptError, Turn
<1>24. ASSUME NEW w \in Workers, NEW i \in Listeners, AcceptNoFiles(w, i)
       PROVE  OwnerKnows'
  BY <1>24 DEF AcceptNoFiles, Turn
<1>25. ASSUME NEW w \in Workers, NEW i \in Listeners, AcceptNoFilesError(w, i)
       PROVE  OwnerKnows'
  BY <1>25 DEF AcceptNoFilesError, Turn
<1>26. ASSUME NEW w \in Workers, NEW i \in Listeners, AcceptAborted(w, i)
       PROVE  OwnerKnows'
  BY <1>26 DEF AcceptAborted, Turn, Dequeue
<1>27. ASSUME NEW w \in Workers, NEW i \in Listeners, Accept(w, i)
       PROVE  OwnerKnows'
  BY <1>27 DEF Accept, Turn, Dequeue
<1>28. ASSUME NEW w \in Workers, NEW i \in Listeners, Arrive(w, i)
       PROVE  OwnerKnows'
  BY <1>28 DEF Arrive
<1>29. QED
  BY <1>1, <1>2, <1>3, <1>4, <1>5, <1>6, <1>7, <1>8, <1>9, <1>10, <1>11,
     <1>12, <1>13, <1>14, <1>15, <1>16, <1>17, <1>18, <1>19, <1>20, <1>21,
     <1>22, <1>23, <1>24, <1>25, <1>26, <1>27, <1>28, NextCases

LEMMA OwnerAlwaysKnows == Spec => []OwnerKnows
<1>1. Init => OwnerKnows
  BY DEF Init, OwnerKnows
<1>2. QED
  BY <1>1, OwnerKnowsStep, TypeCorrect, PTL DEF Spec

(***************************************************************************)
(* No path through ngx_process_events_and_timers() leaks the mutex.        *)
(***************************************************************************)
THEOREM NoLeak == Spec => []MutexNotLeaked
<1>1. OwnerKnows => MutexNotLeaked
  BY DEF OwnerKnows, MutexNotLeaked
<1>2. QED
  BY <1>1, OwnerAlwaysKnows, PTL

(***************************************************************************)
(* What ngx_accept_mutex_held says about the sockets in epoll, what the    *)
(* branch of this iteration says about ngx_accept_mutex_held, and that     *)
(* the timers of listening sockets are for workers without the mutex.      *)
(***************************************************************************)
Listening ==
  \A w \in Workers :
    /\ branch[w] # "none" => use = 1
    /\ use = 1 => timer[w] = {} /\ timedout[w] = {}
    /\ pc[w] = "wait" /\ branch[w] = "got" => lock = w
    /\ pc[w] = "wait" /\ branch[w] = "missed" => held[w] = 0
    /\ use = 1 /\ broken = 0 =>
         /\ held[w] = 1 => active[w] = Listeners
         /\ held[w] = 0 => active[w] \cap Shared = {}

LEMMA ListeningStep ==
  TypeOK /\ OwnerKnows /\ Listening /\ [Next]_vars => Listening'
<1> SUFFICES ASSUME TypeOK, OwnerKnows, Listening, [Next]_vars
             PROVE  Listening'
  OBVIOUS
<1> USE DEF TypeOK, OwnerKnows, Listening, Labels, Branches, config, local,
            history, Put, Goto, NoFault, Fault, EpollError, Shared
<1>1. CASE UNCHANGED vars
  BY <1>1 DEF vars
<1>2. ASSUME NEW w \in Workers, SkipMutex(w) PROVE Listening'
  BY <1>2 DEF SkipMutex
<1>3. ASSUME NEW w \in Workers, TryLockGot(w) PROVE Listening'
  BY <1>3 DEF TryLockGot, Trying
<1>4. ASSUME NEW w \in Workers, TryLockEnableError(w) PROVE Listening'
  BY <1>4 DEF TryLockEnableError, Trying
<1>5. ASSUME NEW w \in Workers, GiveUp(w) PROVE Listening'
  BY <1>5 DEF GiveUp
<1>6. ASSUME NEW w \in Workers, TryLockMissed(w) PROVE Listening'
  BY <1>6 DEF TryLockMissed, Trying
<1>7. ASSUME NEW w \in Workers, TryLockDisableError(w) PROVE Listening'
  BY <1>7 DEF TryLockDisableError, Trying, Shared
<1>8. ASSUME NEW w \in Workers, Wait(w) PROVE Listening'
  BY <1>8 DEF Wait, WaitReturns
<1>9. ASSUME NEW w \in Workers, WaitOther(w) PROVE Listening'
  BY <1>9 DEF WaitOther, WaitReturns
<1>10. ASSUME NEW w \in Workers, Unlock(w) PROVE Listening'
  BY <1>10 DEF Unlock
<1>11. ASSUME NEW w \in Workers, CloseConnection(w) PROVE Listening'
  BY <1>11 DEF CloseConnection
<1>12. ASSUME NEW w \in Workers, EndIteration(w) PROVE Listening'
  BY <1>12 DEF EndIteration
<1>13. ASSUME NEW w \in Workers, Loop(w) PROVE Listening'
  BY <1>13 DEF Loop
<1>14. ASSUME NEW w \in Workers, Quit(w) PROVE Listening'
  BY <1>14 DEF Quit
<1>15. ASSUME NEW w \in Workers, Exit(w) PROVE Listening'
  BY <1>15 DEF Exit
<1>16. ASSUME NEW w \in Workers, Die(w) PROVE Listening'
  BY <1>16 DEF Die
<1>17. ASSUME NEW w \in Workers, Reap(w) PROVE Listening'
  BY <1>17 DEF Reap
<1>18. ASSUME NEW w \in Workers, Spawn(w) PROVE Listening'
  BY <1>18 DEF Spawn, StartSet
<1>19. ASSUME NEW w \in Workers, NEW i \in Listeners, DropEvent(w, i)
       PROVE  Listening'
  BY <1>19 DEF DropEvent
<1>20. ASSUME NEW w \in Workers, NEW i \in Listeners, Resume(w, i)
       PROVE  Listening'
  BY <1>20 DEF Resume, Resuming, Returned, Turn
<1>21. ASSUME NEW w \in Workers, NEW i \in Listeners, ResumeError(w, i)
       PROVE  Listening'
  BY <1>21 DEF ResumeError, Resuming, Returned, Turn
<1>22. ASSUME NEW w \in Workers, NEW i \in Listeners, AcceptAgain(w, i)
       PROVE  Listening'
  BY <1>22 DEF AcceptAgain, Turn
<1>23. ASSUME NEW w \in Workers, NEW i \in Listeners, AcceptError(w, i)
       PROVE  Listening'
  BY <1>23 DEF AcceptError, Turn
<1>24. ASSUME NEW w \in Workers, NEW i \in Listeners, AcceptNoFiles(w, i)
       PROVE  Listening'
  <2>1. CASE use = 1
    BY <1>24, <2>1 DEF AcceptNoFiles, Turn, Accepting, Returned, Fault
  <2>2. CASE use = 0
    BY <1>24, <2>2 DEF AcceptNoFiles, Turn, Accepting, Returned, Fault
  <2>3. QED
    BY <2>1, <2>2
<1>25. ASSUME NEW w \in Workers, NEW i \in Listeners, AcceptNoFilesError(w, i)
       PROVE  Listening'
  BY <1>25 DEF AcceptNoFilesError, Turn
<1>26. ASSUME NEW w \in Workers, NEW i \in Listeners, AcceptAborted(w, i)
       PROVE  Listening'
  BY <1>26 DEF AcceptAborted, Turn, Dequeue
<1>27. ASSUME NEW w \in Workers, NEW i \in Listeners, Accept(w, i)
       PROVE  Listening'
  BY <1>27 DEF Accept, Turn, Dequeue
<1>28. ASSUME NEW w \in Workers, NEW i \in Listeners, Arrive(w, i)
       PROVE  Listening'
  BY <1>28 DEF Arrive
<1>29. QED
  BY <1>1, <1>2, <1>3, <1>4, <1>5, <1>6, <1>7, <1>8, <1>9, <1>10, <1>11,
     <1>12, <1>13, <1>14, <1>15, <1>16, <1>17, <1>18, <1>19, <1>20, <1>21,
     <1>22, <1>23, <1>24, <1>25, <1>26, <1>27, <1>28, NextCases

LEMMA AlwaysListening == Spec => []Listening
<1>1. Init => Listening
  <2> SUFFICES ASSUME Init PROVE Listening
    OBVIOUS
  <2>1. ASSUME NEW w \in Workers
        PROVE  /\ held[w] = 0 /\ branch[w] = "none" /\ pc[w] = "top"
               /\ timer[w] = {} /\ timedout[w] = {}
    BY DEF Init
  <2>2. ASSUME NEW w \in Workers, use = 1 PROVE active[w] \cap Shared = {}
    <3>1. active[w] = Reuseport
      BY <2>2 DEF Init, StartSet
    <3>2. QED
      BY <3>1 DEF Shared
  <2>3. ASSUME NEW w \in Workers
        PROVE  /\ ~ held[w] = 1 /\ ~ pc[w] = "wait" /\ ~ branch[w] # "none"
               /\ timer[w] = {} /\ timedout[w] = {}
    BY <2>1
  <2>4. QED
    BY <2>2, <2>3, Zenon DEF Listening
<1>2. QED
  BY <1>1, ListeningStep, OwnerAlwaysKnows, TypeCorrect, PTL DEF Spec

(***************************************************************************)
(* A worker that tried the mutex waits on shared sockets only as its       *)
(* owner.                                                                  *)
(***************************************************************************)
THEOREM OneListener == Spec => []OnlyOwnerListens
<1>1. TypeOK /\ Listening => OnlyOwnerListens
  BY DEF TypeOK, Listening, OnlyOwnerListens
<1>2. QED
  BY <1>1, AlwaysListening, TypeCorrect, PTL

(***************************************************************************)
(* The owner waits on all sockets: ngx_trylock_accept_mutex() may trust    *)
(* ngx_accept_mutex_held and return early.                                 *)
(***************************************************************************)
THEOREM OwnerListens == Spec => []OwnerListensOnAll
<1>1. OwnerKnows /\ Listening => OwnerListensOnAll
  BY DEF OwnerKnows, Listening, OwnerListensOnAll
<1>2. QED
  BY <1>1, AlwaysListening, OwnerAlwaysKnows, PTL

(***************************************************************************)
(* Without the mutex, a worker that ran out of descriptors has a timer.    *)
(***************************************************************************)
THEOREM PausesEnd == Spec => []PauseHasTimer
<1>1. Init => PauseHasTimer
  BY DEF Init, PauseHasTimer, StartSet
<1>2. TypeOK /\ PauseHasTimer /\ [Next]_vars => PauseHasTimer'
  <2> SUFFICES ASSUME TypeOK, PauseHasTimer, [Next]_vars PROVE PauseHasTimer'
    OBVIOUS
  <2> USE DEF TypeOK, PauseHasTimer, Alive, Labels, config, local, history,
              Put, Goto, NoFault, Fault, EpollError
  <2>1. CASE UNCHANGED vars
    BY <2>1 DEF vars
  <2>2. ASSUME NEW w \in Workers, SkipMutex(w) PROVE PauseHasTimer'
    BY <2>2 DEF SkipMutex
  <2>3. ASSUME NEW w \in Workers, TryLockGot(w) PROVE PauseHasTimer'
    BY <2>3 DEF TryLockGot, Trying
  <2>4. ASSUME NEW w \in Workers, TryLockEnableError(w) PROVE PauseHasTimer'
    BY <2>4 DEF TryLockEnableError, Trying
  <2>5. ASSUME NEW w \in Workers, GiveUp(w) PROVE PauseHasTimer'
    BY <2>5 DEF GiveUp
  <2>6. ASSUME NEW w \in Workers, TryLockMissed(w) PROVE PauseHasTimer'
    BY <2>6 DEF TryLockMissed, Trying
  <2>7. ASSUME NEW w \in Workers, TryLockDisableError(w) PROVE PauseHasTimer'
    BY <2>7 DEF TryLockDisableError, Trying, Shared
  <2>8. ASSUME NEW w \in Workers, Wait(w) PROVE PauseHasTimer'
    BY <2>8 DEF Wait, WaitReturns
  <2>9. ASSUME NEW w \in Workers, WaitOther(w) PROVE PauseHasTimer'
    BY <2>9 DEF WaitOther, WaitReturns
  <2>10. ASSUME NEW w \in Workers, Unlock(w) PROVE PauseHasTimer'
    BY <2>10 DEF Unlock
  <2>11. ASSUME NEW w \in Workers, CloseConnection(w) PROVE PauseHasTimer'
    BY <2>11 DEF CloseConnection
  <2>12. ASSUME NEW w \in Workers, EndIteration(w) PROVE PauseHasTimer'
    BY <2>12 DEF EndIteration
  <2>13. ASSUME NEW w \in Workers, Loop(w) PROVE PauseHasTimer'
    BY <2>13 DEF Loop
  <2>14. ASSUME NEW w \in Workers, Quit(w) PROVE PauseHasTimer'
    BY <2>14 DEF Quit
  <2>15. ASSUME NEW w \in Workers, Exit(w) PROVE PauseHasTimer'
    BY <2>15 DEF Exit
  <2>16. ASSUME NEW w \in Workers, Die(w) PROVE PauseHasTimer'
    BY <2>16 DEF Die
  <2>17. ASSUME NEW w \in Workers, Reap(w) PROVE PauseHasTimer'
    BY <2>17 DEF Reap
  <2>18. ASSUME NEW w \in Workers, Spawn(w) PROVE PauseHasTimer'
    BY <2>18 DEF Spawn, StartSet
  <2>19. ASSUME NEW w \in Workers, NEW i \in Listeners, DropEvent(w, i)
         PROVE  PauseHasTimer'
    BY <2>19 DEF DropEvent
  <2>20. ASSUME NEW w \in Workers, NEW i \in Listeners, Resume(w, i)
         PROVE  PauseHasTimer'
    BY <2>20 DEF Resume, Resuming, Returned, Turn
  <2>21. ASSUME NEW w \in Workers, NEW i \in Listeners, ResumeError(w, i)
         PROVE  PauseHasTimer'
    BY <2>21 DEF ResumeError, Resuming, Returned, Turn
  <2>22. ASSUME NEW w \in Workers, NEW i \in Listeners, AcceptAgain(w, i)
         PROVE  PauseHasTimer'
    BY <2>22 DEF AcceptAgain, Turn
  <2>23. ASSUME NEW w \in Workers, NEW i \in Listeners, AcceptError(w, i)
         PROVE  PauseHasTimer'
    BY <2>23 DEF AcceptError, Turn
  <2>24. ASSUME NEW w \in Workers, NEW i \in Listeners, AcceptNoFiles(w, i)
         PROVE  PauseHasTimer'
    <3>1. CASE use = 1
      BY <2>24, <3>1 DEF AcceptNoFiles, Turn
    <3>2. CASE use = 0
      <4>1. \A v \in Workers : pc'[v] = pc[v] /\ active'[v] \subseteq Listeners
        BY <2>24 DEF AcceptNoFiles
      <4>2. i \in timer'[w]
        BY <2>24, <3>2 DEF AcceptNoFiles
      <4>3. \A v \in Workers \ {w} :
              timer'[v] = timer[v] /\ active'[v] = active[v]
        BY <2>24, <3>2 DEF AcceptNoFiles
      <4>4. use' = use /\ broken' = broken
        BY <2>24 DEF AcceptNoFiles
      <4>5. QED
        BY <4>1, <4>2, <4>3, <4>4 DEF Alive
    <3>3. QED
      BY <3>1, <3>2
  <2>25. ASSUME NEW w \in Workers, NEW i \in Listeners, AcceptNoFilesError(w, i)
         PROVE  PauseHasTimer'
    BY <2>25 DEF AcceptNoFilesError, Turn
  <2>26. ASSUME NEW w \in Workers, NEW i \in Listeners, AcceptAborted(w, i)
         PROVE  PauseHasTimer'
    BY <2>26 DEF AcceptAborted, Turn, Dequeue
  <2>27. ASSUME NEW w \in Workers, NEW i \in Listeners, Accept(w, i)
         PROVE  PauseHasTimer'
    BY <2>27 DEF Accept, Turn, Dequeue
  <2>28. ASSUME NEW w \in Workers, NEW i \in Listeners, Arrive(w, i)
         PROVE  PauseHasTimer'
    BY <2>28 DEF Arrive
  <2>29. QED
    BY <2>1, <2>2, <2>3, <2>4, <2>5, <2>6, <2>7, <2>8, <2>9, <2>10, <2>11,
       <2>12, <2>13, <2>14, <2>15, <2>16, <2>17, <2>18, <2>19, <2>20, <2>21,
       <2>22, <2>23, <2>24, <2>25, <2>26, <2>27, <2>28, NextCases
<1>3. QED
  BY <1>1, <1>2, TypeCorrect, PTL DEF Spec

(***************************************************************************)
(* The workers and the master use the mutex as Mutex says.                 *)
(***************************************************************************)
THEOREM Refinement == Spec => ImplementsMutex
<1>1. Init => Abstract!Init
  BY DEF Init, Abstract!Init
<1>2. TypeOK /\ OwnerKnows /\ [Next]_vars => [Abstract!Next]_(Abstract!vars)
  <2> SUFFICES ASSUME TypeOK, OwnerKnows, [Next]_vars
               PROVE  [Abstract!Next]_(Abstract!vars)
    OBVIOUS
  <2> DEFINE dd == {v \in Workers : pc[v] = "dead"}
  <2> USE DEF TypeOK, OwnerKnows, Labels, config, local, Put, Goto,
              Abstract!vars
  <2>1. CASE UNCHANGED vars
    BY <2>1 DEF vars
  <2>2. ASSUME NEW w \in Workers, TryLockGot(w) \/ TryLockEnableError(w)
        PROVE  Abstract!Acquire(w)
    BY <2>2 DEF TryLockGot, TryLockEnableError, Trying, Abstract!Acquire
  <2>3. ASSUME NEW w \in Workers, GiveUp(w) \/ Unlock(w)
        PROVE  Abstract!Release(w) \/ (lock' = lock /\ dd' = dd)
    BY <2>3 DEF GiveUp, Unlock, Abstract!Release
  <2>4. ASSUME NEW w \in Workers, NEW i \in Listeners, AcceptNoFiles(w, i)
        PROVE  Abstract!Release(w) \/ (lock' = lock /\ dd' = dd)
    <3>1. CASE use = 1
      BY <2>4, <3>1 DEF AcceptNoFiles, Accepting, Abstract!Release
    <3>2. CASE use = 0
      BY <2>4, <3>2 DEF AcceptNoFiles, Turn, Abstract!Release
    <3>3. QED
      BY <3>1, <3>2
  <2>5. ASSUME NEW w \in Workers, Exit(w) \/ Die(w)
        PROVE  Abstract!Die(w)
    BY <2>5 DEF Exit, Die, Abstract!Die
  <2>6. ASSUME NEW w \in Workers, Reap(w)
        PROVE  Abstract!Reap(w)
    BY <2>6 DEF Reap, Abstract!Reap
  <2>7. ASSUME NEW w \in Workers,
               \/ SkipMutex(w) \/ TryLockMissed(w) \/ TryLockDisableError(w)
               \/ Wait(w) \/ WaitOther(w) \/ CloseConnection(w)
        PROVE  lock' = lock /\ dd' = dd
    BY <2>7 DEF SkipMutex, TryLockMissed, TryLockDisableError, Trying, Wait,
       WaitOther, WaitReturns, CloseConnection
  <2>8. ASSUME NEW w \in Workers,
               EndIteration(w) \/ Loop(w) \/ Quit(w) \/ Spawn(w)
        PROVE  lock' = lock /\ dd' = dd
    BY <2>8 DEF EndIteration, Loop, Quit, Spawn
  <2>9. ASSUME NEW w \in Workers, NEW i \in Listeners,
               \/ DropEvent(w, i) \/ Resume(w, i) \/ ResumeError(w, i)
               \/ AcceptAgain(w, i) \/ AcceptAborted(w, i)
               \/ AcceptError(w, i) \/ AcceptNoFilesError(w, i)
               \/ Accept(w, i) \/ Arrive(w, i)
        PROVE  lock' = lock /\ dd' = dd
    BY <2>9 DEF DropEvent, Resume, ResumeError, AcceptAgain, AcceptAborted,
       AcceptError, AcceptNoFilesError, Accept, Arrive
  <2>10. QED
    BY <2>1, <2>2, <2>3, <2>4, <2>5, <2>6, <2>7, <2>8, <2>9, NextCases
       DEF Abstract!Next
<1>3. QED
  BY <1>1, <1>2, TypeCorrect, OwnerAlwaysKnows, PTL
     DEF Spec, ImplementsMutex, Abstract!Spec
=============================================================================
