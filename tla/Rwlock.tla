------------------------------- MODULE Rwlock -------------------------------
(***************************************************************************)
(* The reader-writer spin locks of ngx_rwlock.c, in the build with atomic  *)
(* operations.  A lock is one word of shared memory: the number of its     *)
(* readers, or NGX_RWLOCK_WLOCK, which is -1, when there is a writer.      *)
(*                                                                         *)
(* Every access to the word is a step of its own.  An attempt to lock that *)
(* fails changes nothing, the process spins.  The readers of a lock are    *)
(* far fewer than the 2^32 that would make their number -1.                *)
(***************************************************************************)
EXTENDS Integers, FiniteSets

CONSTANTS
  Proc,     \* the processes that share the locks
  Lock      \* the locks

VARIABLES
  word,     \* *lock
  step,     \* where a process is in the functions of this file
  arg,      \* the lock it called them with
  seen,     \* the local variable readers of ngx_rwlock_rlock() and unlock(),
            \* 0 when it is not in use
  readers,  \* for each lock, the processes that returned from rlock()
  writers   \* for each lock, the processes that returned from wlock()

vars == <<word, step, arg, seen, readers, writers>>

WLOCK == -1

(***************************************************************************)
(* out     not in this file          unlock  the first read of unlock()    *)
(* wlock   in ngx_rwlock_wlock()     wfree   about to store 0              *)
(* rlock   about to read the word    rfree   about to count a reader out   *)
(* rcas    about to count a reader in                                      *)
(***************************************************************************)
Steps == {"out", "wlock", "rlock", "rcas", "unlock", "wfree", "rfree"}

Init ==
  /\ word = [l \in Lock |-> 0]
  /\ step = [p \in Proc |-> "out"]
  /\ arg \in [Proc -> Lock]
  /\ seen = [p \in Proc |-> 0]
  /\ readers = [l \in Lock |-> {}]
  /\ writers = [l \in Lock |-> {}]

At(p, s) == step[p] = s
Goto(p, s) == step' = [step EXCEPT ![p] = s]

\* A process calls one of the functions.  It locks what it does not have and
\* unlocks what it has.
Call(p, s, l) ==
  /\ At(p, "out")
  /\ IF p \in readers[l] \cup writers[l]
     THEN s = "unlock"
     ELSE s \in {"wlock", "rlock"}
  /\ Goto(p, s)
  /\ arg' = [arg EXCEPT ![p] = l]
  /\ UNCHANGED <<word, seen, readers, writers>>

\* Mutant: a writer does not wait for readers.
Wlock_Readers(p) ==
  LET l == arg[p] IN
  /\ At(p, "wlock")
  /\ word[l] # WLOCK
  /\ word' = [word EXCEPT ![l] = WLOCK]
  /\ writers' = [writers EXCEPT ![l] = {p}]
  /\ Goto(p, "out")
  /\ UNCHANGED <<arg, seen, readers>>

\* ngx_rwlock_wlock(): the attempt that succeeds.
Wlock(p) ==
  LET l == arg[p] IN
  /\ At(p, "wlock")
  /\ word[l] = 0
  /\ word' = [word EXCEPT ![l] = WLOCK]
  /\ writers' = [writers EXCEPT ![l] = {p}]
  /\ Goto(p, "out")
  /\ UNCHANGED <<arg, seen, readers>>

\* ngx_rwlock_rlock(): a read that does not find a writer.
RlockRead(p) ==
  /\ At(p, "rlock")
  /\ word[arg[p]] # WLOCK
  /\ seen' = [seen EXCEPT ![p] = word[arg[p]]]
  /\ Goto(p, "rcas")
  /\ UNCHANGED <<word, arg, readers, writers>>

\* The word is still the one that was read.
RlockCas(p) ==
  LET l == arg[p] IN
  /\ At(p, "rcas")
  /\ word[l] = seen[p]
  /\ word' = [word EXCEPT ![l] = seen[p] + 1]
  /\ readers' = [readers EXCEPT ![l] = @ \cup {p}]
  /\ seen' = [seen EXCEPT ![p] = 0]
  /\ Goto(p, "out")
  /\ UNCHANGED <<arg, writers>>

\* It is not: once more.
RlockRetry(p) ==
  /\ At(p, "rcas")
  /\ word[arg[p]] # seen[p]
  /\ seen' = [seen EXCEPT ![p] = 0]
  /\ Goto(p, "rlock")
  /\ UNCHANGED <<word, arg, readers, writers>>

\* ngx_rwlock_unlock() serves readers and writers; the word says which.
UnlockRead(p) ==
  /\ At(p, "unlock")
  /\ seen' = [seen EXCEPT ![p] = word[arg[p]]]
  /\ Goto(p, IF word[arg[p]] = WLOCK THEN "wfree" ELSE "rfree")
  /\ UNCHANGED <<word, arg, readers, writers>>

\* A plain store: nobody else writes the word of a writer.
UnlockWriter(p) ==
  LET l == arg[p] IN
  /\ At(p, "wfree")
  /\ word' = [word EXCEPT ![l] = 0]
  /\ writers' = [writers EXCEPT ![l] = {}]
  /\ seen' = [seen EXCEPT ![p] = 0]
  /\ Goto(p, "out")
  /\ UNCHANGED <<arg, readers>>

UnlockReader(p) ==
  LET l == arg[p] IN
  /\ At(p, "rfree")
  /\ word[l] = seen[p]
  /\ word' = [word EXCEPT ![l] = seen[p] - 1]
  /\ readers' = [readers EXCEPT ![l] = @ \ {p}]
  /\ seen' = [seen EXCEPT ![p] = 0]
  /\ Goto(p, "out")
  /\ UNCHANGED <<arg, writers>>

\* Another reader came or went: the word is read again.
UnlockRetry(p) ==
  /\ At(p, "rfree")
  /\ word[arg[p]] # seen[p]
  /\ seen' = [seen EXCEPT ![p] = word[arg[p]]]
  /\ UNCHANGED <<word, step, arg, readers, writers>>

Inside(p) ==
  \/ Wlock(p)
  \/ RlockRead(p)
  \/ RlockCas(p)
  \/ RlockRetry(p)
  \/ UnlockRead(p)
  \/ UnlockWriter(p)
  \/ UnlockReader(p)
  \/ UnlockRetry(p)

Next ==
  \E p \in Proc :
    \/ Inside(p)
    \/ \E l \in Lock, s \in {"wlock", "rlock", "unlock"} : Call(p, s, l)

Spec == Init /\ [][Next]_vars

-----------------------------------------------------------------------------
(* Properties *)

\* Type invariant.
TypeOK ==
  /\ word \in [Lock -> Int]
  /\ step \in [Proc -> Steps]
  /\ arg \in [Proc -> Lock]
  /\ seen \in [Proc -> Int]
  /\ readers \in [Lock -> SUBSET Proc]
  /\ writers \in [Lock -> SUBSET Proc]

\* The word tells exactly who is inside: -1 for one writer and nobody else, or
\* the number of readers, whatever the interleaving of reads and exchanges.
WordIsExact ==
  \A l \in Lock :
    \/ /\ word[l] = WLOCK
       /\ \E p \in Proc : writers[l] = {p}
       /\ readers[l] = {}
    \/ word[l] = Cardinality(readers[l]) /\ writers[l] = {}

\* What it implements.
Promise == INSTANCE ReadWrite
ImplementsReadWrite == Promise!Spec
=============================================================================
