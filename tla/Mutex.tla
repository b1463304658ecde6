------------------------------- MODULE Mutex -------------------------------
(***************************************************************************)
(* What a shared-memory mutex promises to the worker processes that use it *)
(* and to the master that cleans up after them (ngx_shmtx.h).              *)
(*                                                                         *)
(* The mutex has at most one owner.  A process becomes the owner only when *)
(* there is none, and it stops being the owner either by releasing the     *)
(* mutex itself or, when it died as the owner, by the clean-up the master  *)
(* runs when it reaps the process.  Nobody else can take the mutex away.   *)
(***************************************************************************)
CONSTANTS
  Procs,   \* the worker processes
  Nobody   \* the owner of a free mutex, not a process

VARIABLES
  owner,   \* the process that owns the mutex, or Nobody
  dead     \* the processes that died and were not reaped yet

vars == <<owner, dead>>

TypeOK ==
  /\ owner \in Procs \cup {Nobody}
  /\ dead \subseteq Procs

Init ==
  /\ owner = Nobody
  /\ dead = {}

Acquire(p) ==
  /\ p \notin dead
  /\ owner = Nobody
  /\ owner' = p
  /\ UNCHANGED dead

Release(p) ==
  /\ p \notin dead
  /\ owner = p
  /\ owner' = Nobody
  /\ UNCHANGED dead

Die(p) ==
  /\ p \notin dead
  /\ dead' = dead \cup {p}
  /\ UNCHANGED owner

Reap(p) ==
  /\ p \in dead
  /\ dead' = dead \ {p}
  /\ owner' = IF owner = p THEN Nobody ELSE owner

Next == \E p \in Procs : Acquire(p) \/ Release(p) \/ Die(p) \/ Reap(p)

Spec == Init /\ [][Next]_vars
=============================================================================
