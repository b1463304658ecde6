----------------------------- MODULE ReadWrite -----------------------------
(***************************************************************************)
(* What the locks of ngx_rwlock.c promise to the worker processes: a lock  *)
(* has any number of readers, or one writer, and a process stops being     *)
(* either only by its own unlock.  Nothing is promised about the order in  *)
(* which they get it.                                                      *)
(***************************************************************************)
CONSTANTS
  Proc,     \* the processes
  Lock      \* the locks

VARIABLES
  readers,  \* for each lock, the processes that have it for reading
  writers   \* for each lock, the processes that have it for writing

vars == <<readers, writers>>

Init ==
  /\ readers = [l \in Lock |-> {}]
  /\ writers = [l \in Lock |-> {}]

AcquireRead(p, l) ==
  /\ writers[l] = {}
  /\ readers' = [readers EXCEPT ![l] = @ \cup {p}]
  /\ UNCHANGED writers

AcquireWrite(p, l) ==
  /\ readers[l] = {}
  /\ writers[l] = {}
  /\ writers' = [writers EXCEPT ![l] = {p}]
  /\ UNCHANGED readers

ReleaseRead(p, l) ==
  /\ p \in readers[l]
  /\ readers' = [readers EXCEPT ![l] = @ \ {p}]
  /\ UNCHANGED writers

ReleaseWrite(p, l) ==
  /\ p \in writers[l]
  /\ writers' = [writers EXCEPT ![l] = {}]
  /\ UNCHANGED readers

Next ==
  \E p \in Proc, l \in Lock :
    \/ AcquireRead(p, l)
    \/ AcquireWrite(p, l)
    \/ ReleaseRead(p, l)
    \/ ReleaseWrite(p, l)

Spec == Init /\ [][Next]_vars
=============================================================================
