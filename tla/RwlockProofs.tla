---------------------------- MODULE RwlockProofs ----------------------------
(***************************************************************************)
(* Proofs about Rwlock, for any finite set of processes and any locks.     *)
(***************************************************************************)
EXTENDS Rwlock, FiniteSetTheorems, TLAPS

(***************************************************************************)
(* WordIsExact is inductive only with what a process on its way in or out  *)
(* knows: whether it has the lock, and in which way.                       *)
(***************************************************************************)
Leaving ==
  \A p \in Proc :
    /\ step[p] = "unlock" => p \in readers[arg[p]] \cup writers[arg[p]]
    /\ step[p] = "wfree" => p \in writers[arg[p]]
    /\ step[p] = "rfree" => p \in readers[arg[p]]

Entering ==
  \A p \in Proc :
    /\ step[p] \in {"wlock", "rlock", "rcas"}
         => p \notin readers[arg[p]] \cup writers[arg[p]]
    /\ step[p] = "rcas" => seen[p] # WLOCK

IInv == TypeOK /\ WordIsExact /\ Leaving /\ Entering

\* The number of readers, as arithmetic needs it.
LEMMA Counting ==
  ASSUME IsFiniteSet(Proc), TypeOK, NEW l \in Lock
  PROVE  /\ IsFiniteSet(readers[l])
         /\ Cardinality(readers[l]) \in Nat
         /\ Cardinality(readers[l]) = 0 <=> readers[l] = {}
         /\ \A p \in Proc \ readers[l] :
              Cardinality(readers[l] \cup {p}) = Cardinality(readers[l]) + 1
         /\ \A p \in readers[l] :
              Cardinality(readers[l] \ {p}) = Cardinality(readers[l]) - 1
  <1>1. readers[l] \subseteq Proc
    BY DEF TypeOK
  <1>2. IsFiniteSet(readers[l])
    BY <1>1, FS_Subset
  <1>. QED BY <1>2, FS_CardinalityType, FS_EmptySet, FS_AddElement,
             FS_RemoveElement

\* The two ways a word can be, as facts to cite.
LEMMA WordCases ==
  ASSUME IsFiniteSet(Proc), TypeOK, WordIsExact, NEW l \in Lock
  PROVE  /\ word[l] = WLOCK =>
              readers[l] = {} /\ \E p \in Proc : writers[l] = {p}
         /\ word[l] # WLOCK =>
              word[l] = Cardinality(readers[l]) /\ writers[l] = {}
         /\ readers[l] # {} => word[l] # WLOCK
         /\ writers[l] # {} => word[l] = WLOCK
  <1>1. Cardinality(readers[l]) \in Nat
    BY Counting
  <1>2. Cardinality(readers[l]) # WLOCK
    BY <1>1 DEF WLOCK
  <1>. QED BY <1>2 DEF WordIsExact

LEMMA InitHolds == Init => IInv
  <1>. SUFFICES ASSUME Init PROVE IInv
    OBVIOUS
  <1>1. TypeOK /\ Leaving /\ Entering
    BY DEF Init, TypeOK, Leaving, Entering, Steps
  <1>2. WordIsExact
    BY FS_EmptySet DEF Init, WordIsExact
  <1>. QED BY <1>1, <1>2 DEF IInv

\* What is left alone by a step that does not touch the words.
LEMMA SameWords ==
  ASSUME WordIsExact, UNCHANGED <<word, readers, writers>>
  PROVE  WordIsExact'
  BY DEF WordIsExact

LEMMA StepHolds ==
  ASSUME IsFiniteSet(Proc), IInv, [Next]_vars
  PROVE  IInv'
  <1>. USE DEF At, Goto, Steps
  <1>0. TypeOK /\ WordIsExact /\ Leaving /\ Entering
    BY DEF IInv
  <1>1. CASE UNCHANGED vars
    BY <1>0, <1>1 DEF IInv, TypeOK, WordIsExact, Leaving, Entering, vars
  <1>2. ASSUME NEW p \in Proc, NEW l \in Lock,
               NEW s \in {"wlock", "rlock", "unlock"}, Call(p, s, l)
        PROVE  IInv'
    <2>1. TypeOK'
      BY <1>0, <1>2 DEF TypeOK, Call
    <2>2. WordIsExact'
      BY <1>0, <1>2, SameWords DEF Call
    <2>3. Leaving' /\ Entering'
      BY <1>0, <1>2 DEF TypeOK, Call, Leaving, Entering
    <2>. QED BY <2>1, <2>2, <2>3 DEF IInv
  <1>3. ASSUME NEW p \in Proc, Wlock(p) PROVE IInv'
    <2>. DEFINE l == arg[p]
    <2>0. l \in Lock /\ readers[l] = {} /\ writers[l] = {}
      BY <1>0, <1>3, WordCases, Counting DEF Wlock, TypeOK, WLOCK
    <2>1. TypeOK'
      BY <1>0, <1>3 DEF TypeOK, Wlock, WLOCK
    <2>2. WordIsExact'
      BY <1>0, <1>3, <2>0 DEF Wlock, WordIsExact, TypeOK
    <2>3. Leaving' /\ Entering'
      BY <1>0, <1>3, <2>0 DEF TypeOK, Wlock, Leaving, Entering
    <2>. QED BY <2>1, <2>2, <2>3 DEF IInv
  <1>4. ASSUME NEW p \in Proc, RlockRead(p) PROVE IInv'
    <2>1. TypeOK'
      BY <1>0, <1>4 DEF TypeOK, RlockRead
    <2>2. WordIsExact'
      BY <1>0, <1>4, SameWords DEF RlockRead
    <2>3. Leaving' /\ Entering'
      BY <1>0, <1>4 DEF TypeOK, RlockRead, Leaving, Entering
    <2>. QED BY <2>1, <2>2, <2>3 DEF IInv
  <1>5. ASSUME NEW p \in Proc, RlockCas(p) PROVE IInv'
    <2>. DEFINE l == arg[p]
    <2>0. /\ l \in Lock
          /\ writers[l] = {}
          /\ word[l] = Cardinality(readers[l])
          /\ p \notin readers[l]
      BY <1>0, <1>5, WordCases DEF RlockCas, TypeOK, Entering
    <2>1. TypeOK'
      BY <1>0, <1>5 DEF TypeOK, RlockCas
    <2>2. Cardinality(readers[l] \cup {p}) = word[l] + 1
      BY <1>0, <2>0, Counting
    <2>3. WordIsExact'
      BY <1>0, <1>5, <2>0, <2>2 DEF RlockCas, WordIsExact, TypeOK
    <2>4. Leaving' /\ Entering'
      BY <1>0, <1>5, <2>0 DEF TypeOK, RlockCas, Leaving, Entering
    <2>. QED BY <2>1, <2>3, <2>4 DEF IInv
  <1>6. ASSUME NEW p \in Proc, RlockRetry(p) PROVE IInv'
    <2>1. TypeOK'
      BY <1>0, <1>6 DEF TypeOK, RlockRetry
    <2>2. WordIsExact'
      BY <1>0, <1>6, SameWords DEF RlockRetry
    <2>3. Leaving' /\ Entering'
      BY <1>0, <1>6 DEF TypeOK, RlockRetry, Leaving, Entering
    <2>. QED BY <2>1, <2>2, <2>3 DEF IInv
  <1>7. ASSUME NEW p \in Proc, UnlockRead(p) PROVE IInv'
    <2>. DEFINE l == arg[p]
    <2>0. /\ l \in Lock
          /\ p \in readers[l] \cup writers[l]
          /\ word[l] = WLOCK => readers[l] = {}
          /\ word[l] # WLOCK => writers[l] = {}
      BY <1>0, <1>7, WordCases DEF UnlockRead, TypeOK, Leaving
    <2>1. TypeOK'
      BY <1>0, <1>7 DEF TypeOK, UnlockRead
    <2>2. WordIsExact'
      BY <1>0, <1>7, SameWords DEF UnlockRead
    <2>3. Leaving'
      BY <1>0, <1>7, <2>0 DEF TypeOK, UnlockRead, Leaving
    <2>4. Entering'
      BY <1>0, <1>7 DEF TypeOK, UnlockRead, Entering
    <2>. QED BY <2>1, <2>2, <2>3, <2>4 DEF IInv
  <1>8. ASSUME NEW p \in Proc, UnlockWriter(p) PROVE IInv'
    <2>. DEFINE l == arg[p]
    <2>0. l \in Lock /\ writers[l] = {p} /\ readers[l] = {}
      BY <1>0, <1>8, WordCases DEF UnlockWriter, TypeOK, Leaving
    <2>1. TypeOK'
      BY <1>0, <1>8 DEF TypeOK, UnlockWriter
    <2>2. WordIsExact'
      BY <1>0, <1>8, <2>0, FS_EmptySet DEF UnlockWriter, WordIsExact, TypeOK
    <2>3. Leaving' /\ Entering'
      BY <1>0, <1>8, <2>0 DEF TypeOK, UnlockWriter, Leaving, Entering
    <2>. QED BY <2>1, <2>2, <2>3 DEF IInv
  <1>9. ASSUME NEW p \in Proc, UnlockReader(p) PROVE IInv'
    <2>. DEFINE l == arg[p]
    <2>0. /\ l \in Lock
          /\ p \in readers[l]
          /\ writers[l] = {}
          /\ word[l] = Cardinality(readers[l])
      BY <1>0, <1>9, WordCases DEF UnlockReader, TypeOK, Leaving
    <2>1. TypeOK'
      BY <1>0, <1>9 DEF TypeOK, UnlockReader
    <2>2. Cardinality(readers[l] \ {p}) = word[l] - 1
      BY <1>0, <2>0, Counting
    <2>3. WordIsExact'
      BY <1>0, <1>9, <2>0, <2>2 DEF UnlockReader, WordIsExact, TypeOK
    <2>4. Leaving' /\ Entering'
      BY <1>0, <1>9, <2>0 DEF TypeOK, UnlockReader, Leaving, Entering
    <2>. QED BY <2>1, <2>3, <2>4 DEF IInv
  <1>10. ASSUME NEW p \in Proc, UnlockRetry(p) PROVE IInv'
    <2>1. TypeOK'
      BY <1>0, <1>10 DEF TypeOK, UnlockRetry
    <2>2. WordIsExact'
      BY <1>0, <1>10, SameWords DEF UnlockRetry
    <2>3. Leaving' /\ Entering'
      BY <1>0, <1>10 DEF TypeOK, UnlockRetry, Leaving, Entering
    <2>. QED BY <2>1, <2>2, <2>3 DEF IInv
  <1>. QED
    BY <1>1, <1>2, <1>3, <1>4, <1>5, <1>6, <1>7, <1>8, <1>9, <1>10
       DEF Next, Inside

\* Who has a lock for writing has it alone.
LEMMA Exclusion ==
  ASSUME IsFiniteSet(Proc), IInv, NEW l \in Lock, NEW p \in writers[l]
  PROVE  writers[l] = {p} /\ readers[l] = {}
  BY WordCases DEF IInv

\* What a step inside the functions does to the process that takes it, to the
\* others and to the locks it was not called with.
LEMMA InsideFrame ==
  ASSUME IsFiniteSet(Proc), IInv, NEW p \in Proc, Inside(p)
  PROVE  /\ arg' = arg
         /\ step[p] # "out"
         /\ \A q \in Proc \ {p} :
              /\ step'[q] = step[q]
              /\ \A l \in Lock : /\ q \in readers'[l] <=> q \in readers[l]
                                 /\ q \in writers'[l] <=> q \in writers[l]
         /\ \A l \in Lock : l # arg[p] => /\ readers'[l] = readers[l]
                                          /\ writers'[l] = writers[l]
         /\ step[p] = "wlock" => step'[p] = "out" /\ p \in writers'[arg[p]]
         /\ step[p] \in {"rlock", "rcas"} =>
              \/ step'[p] \in {"rlock", "rcas"}
              \/ step'[p] = "out" /\ p \in readers'[arg[p]]
         /\ step[p] \in {"unlock", "wfree", "rfree"} =>
              step'[p] \in {"unlock", "wfree", "rfree", "out"}
  <1>. USE DEF At, Goto, Steps
  <1>0. TypeOK /\ WordIsExact /\ Leaving /\ Entering
    BY DEF IInv
  <1>1. CASE Wlock(p)
    <2>1. readers[arg[p]] = {} /\ writers[arg[p]] = {}
      BY <1>0, <1>1, WordCases, Counting DEF Wlock, TypeOK, WLOCK
    <2>. QED BY <1>0, <1>1, <2>1 DEF Wlock, TypeOK
  <1>2. CASE UnlockWriter(p)
    <2>1. writers[arg[p]] = {p}
      BY <1>0, <1>2, Exclusion DEF UnlockWriter, Leaving, TypeOK
    <2>. QED BY <1>0, <1>2, <2>1 DEF UnlockWriter, TypeOK
  <1>3. CASE RlockRead(p) \/ RlockCas(p) \/ RlockRetry(p)
    BY <1>0, <1>3 DEF RlockRead, RlockCas, RlockRetry, TypeOK
  <1>4. CASE UnlockRead(p) \/ UnlockReader(p) \/ UnlockRetry(p)
    BY <1>0, <1>4 DEF UnlockRead, UnlockReader, UnlockRetry, TypeOK
  <1>. QED BY <1>1, <1>2, <1>3, <1>4 DEF Inside

\* The words of the locks always tell who is inside.
THEOREM WordCorrect ==
  ASSUME IsFiniteSet(Proc)
  PROVE  Spec => []WordIsExact
  <1>1. Init => IInv
    BY InitHolds
  <1>2. IInv /\ [Next]_vars => IInv'
    BY StepHolds
  <1>3. IInv => WordIsExact
    BY DEF IInv
  <1>. QED BY <1>1, <1>2, <1>3, PTL DEF Spec

\* Every step is a step of the abstract lock, or leaves it alone.
LEMMA StepRefines ==
  ASSUME IsFiniteSet(Proc), IInv, [Next]_vars
  PROVE  [Promise!Next]_(Promise!vars)
  <1>. USE DEF At, Goto, Promise!vars
  <1>0. TypeOK /\ WordIsExact /\ Leaving /\ Entering
    BY DEF IInv
  <1>1. CASE UNCHANGED vars
    BY <1>1 DEF vars
  <1>2. ASSUME NEW p \in Proc, NEW l \in Lock,
               NEW s \in {"wlock", "rlock", "unlock"}, Call(p, s, l)
        PROVE  UNCHANGED Promise!vars
    BY <1>2 DEF Call
  <1>3. ASSUME NEW p \in Proc, Wlock(p)
        PROVE  Promise!AcquireWrite(p, arg[p]) /\ arg[p] \in Lock
    BY <1>0, <1>3, WordCases, Counting
       DEF Wlock, Promise!AcquireWrite, TypeOK, WLOCK
  <1>4. ASSUME NEW p \in Proc, RlockRead(p) \/ RlockRetry(p)
        PROVE  UNCHANGED Promise!vars
    BY <1>4 DEF RlockRead, RlockRetry
  <1>5. ASSUME NEW p \in Proc, RlockCas(p)
        PROVE  Promise!AcquireRead(p, arg[p]) /\ arg[p] \in Lock
    BY <1>0, <1>5, WordCases DEF RlockCas, Promise!AcquireRead, TypeOK,
       Entering
  <1>6. ASSUME NEW p \in Proc, UnlockRead(p) \/ UnlockRetry(p)
        PROVE  UNCHANGED Promise!vars
    BY <1>6 DEF UnlockRead, UnlockRetry
  <1>7. ASSUME NEW p \in Proc, UnlockWriter(p)
        PROVE  Promise!ReleaseWrite(p, arg[p]) /\ arg[p] \in Lock
    BY <1>0, <1>7 DEF UnlockWriter, Promise!ReleaseWrite, TypeOK, Leaving
  <1>8. ASSUME NEW p \in Proc, UnlockReader(p)
        PROVE  Promise!ReleaseRead(p, arg[p]) /\ arg[p] \in Lock
    BY <1>0, <1>8 DEF UnlockReader, Promise!ReleaseRead, TypeOK, Leaving
  <1>. QED
    BY <1>1, <1>2, <1>3, <1>4, <1>5, <1>6, <1>7, <1>8
       DEF Next, Inside, Promise!Next

\* ngx_rwlock.c implements the abstract reader-writer lock.
THEOREM Refinement ==
  ASSUME IsFiniteSet(Proc)
  PROVE  Spec => ImplementsReadWrite
  <1>1. Init => IInv
    BY InitHolds
  <1>2. IInv /\ [Next]_vars => IInv'
    BY StepHolds
  <1>3. Init => Promise!Init
    BY DEF Init, Promise!Init
  <1>4. IInv /\ [Next]_vars => [Promise!Next]_(Promise!vars)
    BY StepRefines
  <1>. QED BY <1>1, <1>2, <1>3, <1>4, PTL
          DEF Spec, ImplementsReadWrite, Promise!Spec
=============================================================================
