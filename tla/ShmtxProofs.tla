---------------------------- MODULE ShmtxProofs ----------------------------
(***************************************************************************)
(* Proofs about Shmtx for any finite set of processes and any number of    *)
(* faults: types, mutual exclusion, the accounting of wake-ups, the        *)
(* absence of lost wake-ups, the bound of the semaphore, and that the      *)
(* mutex implements Mutex.                                                 *)
(***************************************************************************)
EXTENDS Shmtx, FiniteSetTheorems, TLAPS

USE ProcsAssumption, NamesAssumption, MaxFaultsAssumption

(***************************************************************************)
(* The steps of the mutex: what Next allows, one disjunct per action.      *)
(***************************************************************************)
LEMMA NextCases ==
  ASSUME Next
  PROVE  \/ \E p \in Procs :
              \/ TryLock(p) \/ Lock(p) \/ LockTake(p) \/ LockSpinOut(p)
              \/ LockCountIn(p) \/ LockRecheck(p) \/ LockCountOut(p)
              \/ SemWait(p) \/ SemWaitError(p) \/ Unlock(p)
              \/ Die(p) \/ Reap(p) \/ Spawn(p)
         \/ \E t \in Threads :
              WakeRead(t) \/ WakeCas(t) \/ WakePost(t) \/ WakePostError(t)
  BY DEF Next, WorkerNext, LockStep, Wakeup

(***************************************************************************)
(* Type correctness of ngx_shmtx_t and of the program counters.            *)
(***************************************************************************)
THEOREM TypeCorrect == Spec => []TypeOK
<1>1. Init => TypeOK
  BY DEF Init, TypeOK, Threads, Labels, Holding, Waking, Wanting
<1>2. TypeOK /\ [Next]_vars => TypeOK'
  <2> SUFFICES ASSUME TypeOK, [Next]_vars PROVE TypeOK'
    OBVIOUS
  <2> USE DEF TypeOK, Threads, Labels, Holding, Waking, Wanting, Goto, shared
  <2>1. CASE UNCHANGED vars
    BY <2>1 DEF vars
  <2>2. ASSUME NEW p \in Procs,
               \/ TryLock(p) \/ Lock(p) \/ LockTake(p) \/ LockSpinOut(p)
        PROVE  TypeOK'
    BY <2>2 DEF TryLock, Lock, LockTake, LockSpinOut
  <2>3. ASSUME NEW p \in Procs,
               LockCountIn(p) \/ LockRecheck(p) \/ LockCountOut(p)
        PROVE  TypeOK'
    BY <2>3 DEF LockCountIn, LockRecheck, LockCountOut
  <2>4. ASSUME NEW p \in Procs, SemWait(p) \/ SemWaitError(p) \/ Unlock(p)
        PROVE  TypeOK'
    BY <2>4 DEF SemWait, SemWaitError, Unlock
  <2>5. ASSUME NEW p \in Procs, Die(p) \/ Reap(p) \/ Spawn(p)
        PROVE  TypeOK'
    BY <2>5 DEF Die, Reap, Spawn
  <2>6. ASSUME NEW t \in Threads,
               WakeRead(t) \/ WakeCas(t) \/ WakePost(t) \/ WakePostError(t)
        PROVE  TypeOK'
    BY <2>6 DEF WakeRead, WakeCas, WakePost, WakePostError
  <2>7. QED
    BY <2>1, <2>2, <2>3, <2>4, <2>5, <2>6, NextCases
<1>3. QED
  BY <1>1, <1>2, PTL DEF Spec

(***************************************************************************)
(* Mutual exclusion of ngx_shmtx_lock() and ngx_shmtx_trylock(), with      *)
(* deaths and ngx_shmtx_force_unlock() at any point.                       *)
(***************************************************************************)
THEOREM MutualExclusion == Spec => []OwnerIsInside
<1>1. Init => OwnerIsInside
  BY DEF Init, OwnerIsInside, Threads, Holding
<1>2. TypeOK /\ OwnerIsInside /\ [Next]_vars => OwnerIsInside'
  <2> SUFFICES ASSUME TypeOK, OwnerIsInside, [Next]_vars PROVE OwnerIsInside'
    OBVIOUS
  <2> USE DEF TypeOK, OwnerIsInside, Threads, Labels, Holding, Waking, Wanting,
              Goto, shared
  <2>1. CASE UNCHANGED vars
    BY <2>1 DEF vars
  <2>2. ASSUME NEW p \in Procs,
               \/ TryLock(p) \/ Lock(p) \/ LockTake(p) \/ LockSpinOut(p)
        PROVE  OwnerIsInside'
    BY <2>2 DEF TryLock, Lock, LockTake, LockSpinOut
  <2>3. ASSUME NEW p \in Procs,
               LockCountIn(p) \/ LockRecheck(p) \/ LockCountOut(p)
        PROVE  OwnerIsInside'
    BY <2>3 DEF LockCountIn, LockRecheck, LockCountOut
  <2>4. ASSUME NEW p \in Procs, SemWait(p) \/ SemWaitError(p) \/ Unlock(p)
        PROVE  OwnerIsInside'
    BY <2>4 DEF SemWait, SemWaitError, Unlock
  <2>5. ASSUME NEW p \in Procs, Die(p) \/ Reap(p) \/ Spawn(p)
        PROVE  OwnerIsInside'
    BY <2>5 DEF Die, Reap, Spawn
  <2>6. ASSUME NEW t \in Threads,
               WakeRead(t) \/ WakeCas(t) \/ WakePost(t) \/ WakePostError(t)
        PROVE  OwnerIsInside'
    BY <2>6 DEF WakeRead, WakeCas, WakePost, WakePostError
  <2>7. QED
    BY <2>1, <2>2, <2>3, <2>4, <2>5, <2>6, NextCases
<1>3. QED
  BY <1>1, <1>2, TypeCorrect, PTL DEF Spec

(***************************************************************************)
(* How a step that moves one thread changes the two sets that the          *)
(* accounting of wake-ups counts.                                          *)
(***************************************************************************)
LEMMA CountsAreNaturals ==
  /\ IsFiniteSet(Procs) /\ IsFiniteSet(Threads)
  /\ IsFiniteSet(Counted) /\ Cardinality(Counted) \in Nat
  /\ IsFiniteSet(Posting) /\ Cardinality(Posting) \in Nat
  /\ Cardinality(Counted) <= Cardinality(Procs) /\ Cardinality(Procs) \in Nat
<1>1. IsFiniteSet(Threads)
  BY FS_AddElement DEF Threads
<1>2. Counted \in SUBSET Procs /\ Posting \in SUBSET Threads
  BY DEF Counted, Posting
<1>3. QED
  BY <1>1, <1>2, FS_Subset, FS_CardinalityType

LEMMA MoveCounted ==
  ASSUME TypeOK, NEW t \in Threads, NEW l \in Labels, Goto(t, l),
         t = Handler => l \notin CountedAt
  PROVE  Cardinality(Counted') = Cardinality(Counted)
           + (IF l \in CountedAt THEN 1 ELSE 0)
           - (IF pc[t] \in CountedAt THEN 1 ELSE 0)
<1>1. pc[Handler] \notin CountedAt
  BY DEF CountedAt, Waking, TypeOK
<1>2. CASE l \in CountedAt /\ pc[t] \notin CountedAt
  <2>1. Counted' = Counted \cup {t} /\ t \notin Counted
    BY <1>2, <1>1 DEF Counted, Goto, TypeOK, Threads
  <2>2. Cardinality(Counted \cup {t}) = Cardinality(Counted) + 1
    BY <2>1, CountsAreNaturals, FS_AddElement
  <2>3. QED
    BY <1>2, <2>1, <2>2, CountsAreNaturals
<1>3. CASE l \notin CountedAt /\ pc[t] \in CountedAt
  <2>1. Counted' = Counted \ {t} /\ t \in Counted
    BY <1>3, <1>1 DEF Counted, Goto, TypeOK, Threads
  <2>2. Cardinality(Counted \ {t}) = Cardinality(Counted) - 1
    BY <2>1, CountsAreNaturals, FS_RemoveElement
  <2>3. QED
    BY <1>3, <2>1, <2>2, CountsAreNaturals
<1>4. CASE l \in CountedAt <=> pc[t] \in CountedAt
  <2>1. Counted' = Counted
    BY <1>4, <1>1 DEF Counted, Goto, TypeOK, Threads
  <2>2. QED
    BY <1>4, <2>1, CountsAreNaturals
<1>5. QED
  BY <1>2, <1>3, <1>4

LEMMA MovePosting ==
  ASSUME TypeOK, NEW t \in Threads, NEW l \in Labels, Goto(t, l)
  PROVE  Cardinality(Posting') = Cardinality(Posting)
           + (IF l = "post" THEN 1 ELSE 0)
           - (IF pc[t] = "post" THEN 1 ELSE 0)
<1>2. CASE l = "post" /\ pc[t] # "post"
  <2>1. Posting' = Posting \cup {t} /\ t \notin Posting
    BY <1>2 DEF Posting, Goto, TypeOK
  <2>2. Cardinality(Posting \cup {t}) = Cardinality(Posting) + 1
    BY <2>1, CountsAreNaturals, FS_AddElement
  <2>3. QED
    BY <1>2, <2>1, <2>2, CountsAreNaturals
<1>3. CASE l # "post" /\ pc[t] = "post"
  <2>1. Posting' = Posting \ {t} /\ t \in Posting
    BY <1>3 DEF Posting, Goto, TypeOK
  <2>2. Cardinality(Posting \ {t}) = Cardinality(Posting) - 1
    BY <2>1, CountsAreNaturals, FS_RemoveElement
  <2>3. QED
    BY <1>3, <2>1, <2>2, CountsAreNaturals
<1>4. CASE l = "post" <=> pc[t] = "post"
  <2>1. Posting' = Posting
    BY <1>4 DEF Posting, Goto, TypeOK
  <2>2. QED
    BY <1>4, <2>1, CountsAreNaturals
<1>5. QED
  BY <1>2, <1>3, <1>4

(***************************************************************************)
(* The accounting of wake-ups, with the bound that keeps the semaphore     *)
(* and the posts on their way below the number of processes.               *)
(***************************************************************************)
Bounded == faults = 0 => sem + Cardinality(Posting) <= Cardinality(Procs)

Accounts == WakeupAccounting /\ Bounded

LEMMA AccountsInit == Init => Accounts
<1> SUFFICES ASSUME Init PROVE Accounts
  OBVIOUS
<1>1. Counted = {} /\ Posting = {}
  BY DEF Init, Counted, Posting, CountedAt, Threads
<1>2. QED
  BY <1>1, FS_EmptySet, CountsAreNaturals
     DEF Init, Accounts, WakeupAccounting, Bounded

LEMMA AccountsStep == TypeOK /\ Accounts /\ [Next]_vars => Accounts'
<1> SUFFICES ASSUME TypeOK, Accounts, [Next]_vars PROVE Accounts'
  OBVIOUS
<1> USE CountsAreNaturals DEF Accounts, WakeupAccounting, Bounded
<1>1. /\ wait \in Int /\ sem \in Nat /\ faults \in Nat /\ orphaned \in Nat
      /\ \A t \in Threads : pc[t] \in Labels
  BY DEF TypeOK
<1>2. ASSUME NEW p \in Procs
      PROVE  p \in Threads /\ p # Handler
  BY DEF Threads
<1>3. CASE UNCHANGED vars
  <2>1. Counted' = Counted /\ Posting' = Posting
    BY <1>3 DEF vars, Counted, Posting
  <2>2. QED
    BY <1>3, <2>1 DEF vars
<1>4. ASSUME NEW p \in Procs, NEW l \in Labels \ (CountedAt \cup {"post"}),
             Goto(p, l), pc[p] \notin CountedAt \cup {"post"},
             UNCHANGED <<wait, sem>>, faults' >= faults, orphaned' >= orphaned,
             faults' \in Nat, orphaned' \in Nat
      PROVE  Accounts'
  <2>1. /\ Cardinality(Counted') = Cardinality(Counted)
        /\ Cardinality(Posting') = Cardinality(Posting)
    BY <1>2, <1>4, MoveCounted, MovePosting
  <2>2. QED
    BY <1>1, <1>4, <2>1
<1>5. ASSUME NEW p \in Procs,
             TryLock(p) \/ Lock(p) \/ LockTake(p) \/ LockSpinOut(p) \/ Unlock(p)
      PROVE  Accounts'
  BY <1>1, <1>4, <1>5
     DEF TryLock, Lock, LockTake, LockSpinOut, Unlock, Labels, Holding, Waking,
         Wanting, CountedAt, shared
<1>6. ASSUME NEW p \in Procs, Spawn(p)
      PROVE  Accounts'
  BY <1>1, <1>4, <1>6 DEF Spawn, Labels, CountedAt, shared
<1>7. ASSUME NEW p \in Procs, LockCountIn(p)
      PROVE  Accounts'
  <2>1. /\ Cardinality(Counted') = Cardinality(Counted) + 1
        /\ Cardinality(Posting') = Cardinality(Posting)
    BY <1>2, <1>7, MoveCounted, MovePosting
       DEF LockCountIn, Labels, Wanting, CountedAt
  <2>2. QED
    BY <1>1, <1>7, <2>1 DEF LockCountIn
<1>8. ASSUME NEW p \in Procs, LockRecheck(p)
      PROVE  Accounts'
  <2>1. /\ Cardinality(Counted') = Cardinality(Counted)
        /\ Cardinality(Posting') = Cardinality(Posting)
    BY <1>2, <1>8, MoveCounted, MovePosting
       DEF LockRecheck, Labels, Wanting, Holding, CountedAt
  <2>2. QED
    BY <1>1, <1>8, <2>1 DEF LockRecheck
<1>9. ASSUME NEW p \in Procs, LockCountOut(p) \/ SemWait(p) \/ SemWaitError(p)
      PROVE  Accounts'
  <2>1. /\ Cardinality(Counted') = Cardinality(Counted) - 1
        /\ Cardinality(Posting') = Cardinality(Posting)
    BY <1>2, <1>9, MoveCounted, MovePosting
       DEF LockCountOut, SemWait, SemWaitError, Labels, Wanting, Holding,
           CountedAt
  <2>2. QED
    BY <1>1, <1>9, <2>1 DEF LockCountOut, SemWait, SemWaitError, shared
<1>10. ASSUME NEW p \in Procs, Die(p)
       PROVE  Accounts'
  <2>1. /\ Cardinality(Counted') = Cardinality(Counted)
               - (IF pc[p] \in CountedAt THEN 1 ELSE 0)
        /\ Cardinality(Posting') = Cardinality(Posting)
               - (IF pc[p] = "post" THEN 1 ELSE 0)
    BY <1>2, <1>10, MoveCounted, MovePosting DEF Die, Labels, CountedAt
  <2>2. orphaned' >= orphaned + (IF pc[p] = "post" THEN 1 ELSE 0)
    BY <1>1, <1>10 DEF Die, Waking
  <2>3. QED
    BY <1>1, <1>10, <2>1, <2>2 DEF Die, shared
<1>11. ASSUME NEW p \in Procs, Reap(p)
       PROVE  Accounts'
  <2>1. Counted' = Counted /\ Posting' = Posting
    BY <1>11 DEF Reap, Goto, TypeOK, Counted, Posting, CountedAt, Threads
  <2>2. QED
    BY <1>11, <2>1 DEF Reap
<1>12. ASSUME NEW t \in Threads, WakeRead(t)
       PROVE  Accounts'
  <2>1. /\ Cardinality(Counted') = Cardinality(Counted)
        /\ Cardinality(Posting') = Cardinality(Posting)
    BY <1>12, MoveCounted, MovePosting DEF WakeRead, Labels, Waking, CountedAt
  <2>2. QED
    BY <1>12, <2>1 DEF WakeRead, shared
<1>13. ASSUME NEW t \in Threads, WakeCas(t)
       PROVE  Accounts'
  <2>1. CASE wait = seen[t] /\ wait' = seen[t] - 1 /\ Goto(t, "post")
    <3>1. /\ Cardinality(Counted') = Cardinality(Counted)
          /\ Cardinality(Posting') = Cardinality(Posting) + 1
      BY <1>13, <2>1, MoveCounted, MovePosting
         DEF WakeCas, Labels, Waking, CountedAt
    <3>2. wait > 0
      BY <1>13, <2>1 DEF WakeCas, TypeOK
    <3>3. QED
      BY <1>1, <1>13, <2>1, <3>1, <3>2 DEF WakeCas
  <2>2. CASE UNCHANGED wait /\ Goto(t, "wake")
    <3>1. /\ Cardinality(Counted') = Cardinality(Counted)
          /\ Cardinality(Posting') = Cardinality(Posting)
      BY <1>13, <2>2, MoveCounted, MovePosting
         DEF WakeCas, Labels, Waking, CountedAt
    <3>2. QED
      BY <1>1, <1>13, <2>2, <3>1 DEF WakeCas
  <2>3. QED
    BY <1>13, <2>1, <2>2 DEF WakeCas
<1>14. ASSUME NEW t \in Threads, WakePost(t) \/ WakePostError(t)
       PROVE  Accounts'
  <2>1. /\ Cardinality(Counted') = Cardinality(Counted)
        /\ Cardinality(Posting') = Cardinality(Posting) - 1
    BY <1>14, MoveCounted, MovePosting
       DEF WakePost, WakePostError, Labels, CountedAt
  <2>2. CASE WakePost(t)
    BY <1>1, <2>1, <2>2 DEF WakePost
  <2>3. CASE WakePostError(t)
    BY <1>1, <2>1, <2>3 DEF WakePostError, shared
  <2>4. QED
    BY <1>14, <2>2, <2>3
<1>15. QED
  BY <1>3, <1>5, <1>6, <1>7, <1>8, <1>9, <1>10, <1>11, <1>12, <1>13, <1>14,
     NextCases

(***************************************************************************)
(* wait, the semaphore and the posts on their way cover every process that *)
(* is counted: exactly without faults, and otherwise all but one for each  *)
(* fault that took a wake-up with it.                                      *)
(***************************************************************************)
THEOREM Accounting == Spec => []WakeupAccounting
<1>1. Accounts => WakeupAccounting
  BY DEF Accounts
<1>2. QED
  BY <1>1, AccountsInit, AccountsStep, TypeCorrect, PTL DEF Spec

(***************************************************************************)
(* Without faults sem_post() never overflows the semaphore.                *)
(***************************************************************************)
THEOREM SemaphoreBound == Spec => []SemaphoreBounded
<1>1. TypeOK /\ Accounts => SemaphoreBounded
  BY CountsAreNaturals DEF TypeOK, Accounts, Bounded, SemaphoreBounded
<1>2. QED
  BY <1>1, AccountsInit, AccountsStep, TypeCorrect, PTL DEF Spec

(***************************************************************************)
(* A process that sleeps on a free mutex is never forgotten: the step that *)
(* ends a wake-up either posted or saw wait <= 0, and then the accounting  *)
(* puts every sleeper's post on the semaphore or on its way.               *)
(***************************************************************************)
THEOREM WakeupsAreNotLost == Spec => []NoLostWakeup
<1>1. Init => NoLostWakeup
  BY DEF Init, NoLostWakeup, Threads
<1>2. TypeOK /\ WakeupAccounting /\ NoLostWakeup /\ [Next]_vars
        => NoLostWakeup'
  <2> SUFFICES ASSUME TypeOK, WakeupAccounting, NoLostWakeup, [Next]_vars
               PROVE  NoLostWakeup'
    OBVIOUS
  <2> DEFINE Busy == Waking \cup (Wanting \ {"sleep"})
  <2> USE DEF NoLostWakeup, TypeOK, Threads, Labels, Holding, Waking, Wanting,
              Goto, shared
  <2>1. CASE UNCHANGED vars
    BY <2>1 DEF vars
  <2>2. ASSUME NEW p \in Procs,
               TryLock(p) \/ Lock(p) \/ LockTake(p) \/ LockSpinOut(p)
        PROVE  NoLostWakeup'
    BY <2>2 DEF TryLock, Lock, LockTake, LockSpinOut
  <2>3. ASSUME NEW p \in Procs,
               LockCountIn(p) \/ LockRecheck(p) \/ LockCountOut(p)
        PROVE  NoLostWakeup'
    BY <2>3 DEF LockCountIn, LockRecheck, LockCountOut
  <2>4. ASSUME NEW p \in Procs, SemWait(p) \/ SemWaitError(p) \/ Unlock(p)
        PROVE  NoLostWakeup'
    BY <2>4 DEF SemWait, SemWaitError, Unlock
  <2>5. ASSUME NEW p \in Procs, Die(p) \/ Reap(p) \/ Spawn(p)
        PROVE  NoLostWakeup'
    BY <2>5 DEF Die, Reap, Spawn
  <2>6. ASSUME NEW t \in Threads, WakeCas(t) \/ WakePost(t) \/ WakePostError(t)
        PROVE  NoLostWakeup'
    BY <2>6 DEF WakeCas, WakePost, WakePostError
  <2>7. ASSUME NEW t \in Threads, WakeRead(t)
        PROVE  NoLostWakeup'
    <3>1. CASE semaphore = 1 /\ wait > 0
      BY <2>7, <3>1 DEF WakeRead
    <3>2. CASE semaphore = 0
      BY <2>7, <3>2 DEF WakeRead
    <3>3. ASSUME semaphore = 1, wait <= 0, orphaned = 0, sem = 0,
                 NEW p \in Procs, pc[p] = "sleep"
          PROVE  Posting # {}
      <4>1. Counted # {} /\ Cardinality(Counted) # 0
        <5>1. p \in Counted
          BY <3>3 DEF Counted, CountedAt
        <5>2. QED
          BY <5>1, CountsAreNaturals, FS_EmptySet
      <4>2. Cardinality(Posting) # 0
        BY <3>3, <4>1, CountsAreNaturals DEF WakeupAccounting
      <4>3. QED
        BY <4>2, FS_EmptySet
    <3>4. CASE semaphore = 1 /\ wait <= 0
      BY <2>7, <3>3, <3>4 DEF WakeRead, Posting
    <3>5. QED
      BY <3>1, <3>2, <3>4
  <2>8. QED
    BY <2>1, <2>2, <2>3, <2>4, <2>5, <2>6, <2>7, NextCases
<1>3. QED
  BY <1>1, <1>2, TypeCorrect, Accounting, PTL DEF Spec

(***************************************************************************)
(* The shared-memory mutex implements the abstract one.                    *)
(***************************************************************************)
THEOREM Refinement == Spec => ImplementsMutex
<1>1. Init => Abstract!Init
  BY DEF Init, Abstract!Init, Threads
<1>2. TypeOK /\ OwnerIsInside /\ [Next]_vars => [Abstract!Next]_(Abstract!vars)
  <2> SUFFICES ASSUME TypeOK, OwnerIsInside, [Next]_vars
               PROVE  [Abstract!Next]_(Abstract!vars)
    OBVIOUS
  <2> DEFINE dd == {q \in Procs : pc[q] = "dead"}
  <2> USE DEF TypeOK, OwnerIsInside, Threads, Labels, Holding, Waking, Wanting,
              Goto, shared, Abstract!vars
  <2>1. CASE UNCHANGED vars
    BY <2>1 DEF vars
  <2>2. ASSUME NEW p \in Procs, TryLock(p) \/ LockTake(p) \/ LockRecheck(p)
        PROVE  dd' = dd /\ (Abstract!Acquire(p) \/ lock' = lock)
    BY <2>2 DEF TryLock, LockTake, LockRecheck, Abstract!Acquire
  <2>3. ASSUME NEW p \in Procs, Unlock(p)
        PROVE  Abstract!Release(p)
    BY <2>3 DEF Unlock, Abstract!Release
  <2>4. ASSUME NEW p \in Procs, Die(p)
        PROVE  Abstract!Die(p)
    BY <2>4 DEF Die, Abstract!Die
  <2>5. ASSUME NEW p \in Procs, Reap(p)
        PROVE  Abstract!Reap(p)
    BY <2>5 DEF Reap, Abstract!Reap
  <2>6. ASSUME NEW p \in Procs,
               \/ Lock(p) \/ LockSpinOut(p) \/ LockCountIn(p)
               \/ LockCountOut(p) \/ SemWait(p) \/ SemWaitError(p) \/ Spawn(p)
        PROVE  lock' = lock /\ dd' = dd
    BY <2>6 DEF Lock, LockSpinOut, LockCountIn, LockCountOut, SemWait,
                SemWaitError, Spawn
  <2>7. ASSUME NEW t \in Threads,
               WakeRead(t) \/ WakeCas(t) \/ WakePost(t) \/ WakePostError(t)
        PROVE  lock' = lock /\ dd' = dd
    BY <2>7 DEF WakeRead, WakeCas, WakePost, WakePostError
  <2>8. QED
    BY <2>1, <2>2, <2>3, <2>4, <2>5, <2>6, <2>7, NextCases DEF Abstract!Next
<1>3. QED
  BY <1>1, <1>2, TypeCorrect, MutualExclusion, PTL
     DEF Spec, ImplementsMutex, Abstract!Spec
=============================================================================
