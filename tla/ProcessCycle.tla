---------------------------- MODULE ProcessCycle ----------------------------
(***************************************************************************)
(* ngx_process_cycle.c and ngx_process.c: the master process, its table    *)
(* ngx_processes[], the processes it forks and the signals that drive it.  *)
(*                                                                         *)
(* The master blocks every signal it handles and opens them only inside    *)
(* sigsuspend(), where the kernel runs the handlers of all the pending     *)
(* ones before it returns.  Between two sigsuspend() calls the handlers'   *)
(* variables therefore change by the master's own hand only, while the     *)
(* processes go on, exit and leave new signals pending.                    *)
(*                                                                         *)
(* A command reaches a process over its channel or, when the channel does  *)
(* not take it, as a signal with the same meaning (lines 579-611), so that *)
(* both are one inbox.  The messages OPEN_CHANNEL and CLOSE_CHANNEL and    *)
(* the descriptors they carry are left out: a worker stores them and       *)
(* nothing in it reads them.                                               *)
(***************************************************************************)
EXTENDS Integers, Sequences, FiniteSets

CONSTANTS
  Pids,        \* process ids the kernel can give out, positive numbers
  Crew,        \* the processes of one configuration, in the order of start
  MaxSlots,    \* NGX_MAX_PROCESSES
  FirstDelay,  \* 50 ms, the first wait for processes to terminate
  KillDelay,   \* 1000 ms, a longer wait sends SIGKILL
  Signals,     \* signals sent to the master
  MaxSignals,  \* bound on them in a behaviour
  FaultKinds,  \* faults that may happen
  MaxFaults    \* bound on them in a behaviour

Roles == {"worker", "manager", "loader"}

ASSUME PidsAssumption == Pids \subseteq Nat \ {0} /\ IsFiniteSet(Pids)
ASSUME CrewAssumption == Crew \in Seq(Roles)
ASSUME SlotsAssumption == MaxSlots \in Nat \ {0}
ASSUME DelayAssumption == /\ FirstDelay \in Nat \ {0}
                          /\ KillDelay \in Nat
ASSUME SignalsAssumption ==
  /\ Signals \subseteq {"QUIT", "TERM", "HUP", "USR1", "USR2", "WINCH", "IO"}
  /\ MaxSignals \in Nat
ASSUME FaultsAssumption ==
  /\ FaultKinds \subseteq {"spawn", "config", "exec", "crash", "fatal", "hang"}
  /\ MaxFaults \in Nat

Slots == 0 .. MaxSlots - 1

\* The variables that ngx_signal_handler() and the master's own code set.
Flags == {"reap", "terminate", "quit", "reconfigure", "restart", "reopen",
          "changebin", "noaccept", "sigalrm"}

VARIABLES
  \* ngx_processes[] and ngx_last_process; a pid of -1 is 0
  pid, exited, exiting, respawn, just, detached, proc, last,
  \* the processes
  st,           \* what the kernel and the process itself know of its state
  role,         \* what it runs
  gen,          \* the configuration it was forked with
  inbox,        \* commands and signals it has not looked at
  told,         \* processes that were asked to leave
  \* the master
  mpc,          \* where it is
  flag,         \* the flags above
  pend,         \* its pending signals
  live, delay, sigio,   \* locals of ngx_master_process_cycle()
  timer,        \* ITIMER_REAL is running
  newbin,       \* ngx_new_binary: 0, -1 (NGX_INVALID_PID) or a pid
  noaccepting,  \* ngx_noaccepting
  cfg,          \* the configuration of the current cycle
  i, found,     \* index of the loop it is in, and live in ngx_reap_children()
  job,          \* who called ngx_start_worker_processes()
  nsig, faults  \* signals and faults so far

marks == <<exited, exiting, respawn, just, detached, proc>>
table == <<pid, marks, last>>
children == <<st, role, gen, inbox, told>>
upgrade == <<newbin, noaccepting>>
clock == <<delay, sigio, timer>>
cursor == <<i, found, job>>
bounds == <<nsig, faults>>
vars == <<table, children, mpc, flag, pend, live, clock, upgrade, cfg, cursor,
          bounds>>

(***************************************************************************)
(* free     no process        run      in its event loop                   *)
(* hung     never looks at anything again                                  *)
(* leaving  a worker with ngx_exiting that waits for its connections       *)
(* zombie   has exited and was not waited for                              *)
(* fatal    the same, with the code 2 that forbids another start           *)
(***************************************************************************)
States == {"free", "run", "hung", "leaving", "zombie", "fatal"}
Gone == {"free", "zombie", "fatal"}

(***************************************************************************)
(* start    forks the crew             check   decides on exit and reload  *)
(* top      top of the loop            restart, reopen, changebin and      *)
(* suspend  in sigsuspend()            noaccept: the rest of the body      *)
(* wake     after sigsuspend()         exited                              *)
(* reap     in ngx_reap_children()                                         *)
(***************************************************************************)
Labels == {"start", "top", "suspend", "wake", "reap", "check", "restart",
           "reopen", "changebin", "noaccept", "exited"}

Init ==
  /\ pid = [s \in Slots |-> 0]
  /\ exited = [s \in Slots |-> 0]
  /\ exiting = [s \in Slots |-> 0]
  /\ respawn = [s \in Slots |-> 0]
  /\ just = [s \in Slots |-> 0]
  /\ detached = [s \in Slots |-> 0]
  /\ proc = [s \in Slots |-> "worker"]
  /\ last = 0
  /\ st = [p \in Pids |-> "free"]
  /\ role = [p \in Pids |-> "worker"]
  /\ gen = [p \in Pids |-> 0]
  /\ inbox = [p \in Pids |-> {}]
  /\ told = {}
  /\ mpc = "start"
  /\ flag = [f \in Flags |-> 0]
  /\ pend = {}
  /\ live = 1
  /\ delay = 0
  /\ sigio = 0
  /\ timer = 0
  /\ newbin = 0
  /\ noaccepting = 0
  /\ cfg = 0
  /\ i = 1
  /\ found = 0
  /\ job = "boot"
  /\ nsig = 0
  /\ faults = 0

Fault(k) == k \in FaultKinds /\ faults < MaxFaults /\ faults' = faults + 1

Clear(f) == [flag EXCEPT ![f] = 0]
Leaving == flag["terminate"] = 1 \/ flag["quit"] = 1

-----------------------------------------------------------------------------
(* ngx_spawn_process *)

\* The entries in use.
Used == {s \in Slots : s < last}

\* s is the first entry without a process, or the one behind the last.
IsFreeSlot(s) ==
  /\ s \in Used => pid[s] = 0
  /\ \A t \in Used : pid[t] = 0 => s <= t

TableIsFull == \A s \in Slots : s < last /\ pid[s] # 0

\* A pid is not given out again while the table still names it.
FreePids == {p \in Pids : st[p] = "free" /\ \A s \in Used : pid[s] # p}

\* fork() gives the lowest one: which one it is makes no difference.
Fork(p, r) ==
  /\ p \in FreePids
  /\ \A q \in FreePids : p <= q
  /\ st' = [st EXCEPT ![p] = "run"]
  /\ role' = [role EXCEPT ![p] = r]
  /\ gen' = [gen EXCEPT ![p] = cfg]
  /\ inbox' = [inbox EXCEPT ![p] = {}]
  /\ told' = told \ {p}

\* Mutant: the entry keeps the flag of the process that was in it before.
OpenSlot_KeepsExiting(s, p, r, j) ==
  /\ s < MaxSlots
  /\ pid' = [pid EXCEPT ![s] = p]
  /\ exited' = [exited EXCEPT ![s] = 0]
  /\ UNCHANGED exiting
  /\ respawn' = [respawn EXCEPT ![s] = IF r \in {"worker", "manager"} THEN 1
                                                                      ELSE 0]
  /\ just' = [just EXCEPT ![s] = j]
  /\ detached' = [detached EXCEPT ![s] = IF r = "binary" THEN 1 ELSE 0]
  /\ proc' = [proc EXCEPT ![s] = r]
  /\ last' = IF s = last THEN last + 1 ELSE last

\* Mutant: the entry behind the last one is not counted in.
OpenSlot_NotCounted(s, p, r, j) ==
  /\ s < MaxSlots
  /\ pid' = [pid EXCEPT ![s] = p]
  /\ exited' = [exited EXCEPT ![s] = 0]
  /\ exiting' = [exiting EXCEPT ![s] = 0]
  /\ respawn' = [respawn EXCEPT ![s] = IF r \in {"worker", "manager"} THEN 1
                                                                      ELSE 0]
  /\ just' = [just EXCEPT ![s] = j]
  /\ detached' = [detached EXCEPT ![s] = IF r = "binary" THEN 1 ELSE 0]
  /\ proc' = [proc EXCEPT ![s] = r]
  /\ last' = IF s = last /\ last = 0 THEN last + 1 ELSE last

\* Mutant: the size of the table is not looked at.
OpenSlot_NoLimit(s, p, r, j) ==
  /\ pid' = [pid EXCEPT ![s] = p]
  /\ exited' = [exited EXCEPT ![s] = 0]
  /\ exiting' = [exiting EXCEPT ![s] = 0]
  /\ respawn' = [respawn EXCEPT ![s] = IF r \in {"worker", "manager"} THEN 1
                                                                      ELSE 0]
  /\ just' = [just EXCEPT ![s] = j]
  /\ detached' = [detached EXCEPT ![s] = IF r = "binary" THEN 1 ELSE 0]
  /\ proc' = [proc EXCEPT ![s] = r]
  /\ last' = IF s = last THEN last + 1 ELSE last

\* What is written to the entry of a new process.  The workers and the cache
\* manager are respawned, the cache loader and a new binary are not; just is 1
\* for NGX_PROCESS_JUST_SPAWN and NGX_PROCESS_JUST_RESPAWN.
OpenSlot(s, p, r, j) ==
  /\ s < MaxSlots
  /\ pid' = [pid EXCEPT ![s] = p]
  /\ exited' = [exited EXCEPT ![s] = 0]
  /\ exiting' = [exiting EXCEPT ![s] = 0]
  /\ respawn' = [respawn EXCEPT ![s] = IF r \in {"worker", "manager"} THEN 1
                                                                      ELSE 0]
  /\ just' = [just EXCEPT ![s] = j]
  /\ detached' = [detached EXCEPT ![s] = IF r = "binary" THEN 1 ELSE 0]
  /\ proc' = [proc EXCEPT ![s] = r]
  /\ last' = IF s = last THEN last + 1 ELSE last

\* A new process in a new entry.
Spawn(p, s, r, j) == Fork(p, r) /\ IsFreeSlot(s) /\ OpenSlot(s, p, r, j)

\* The table or the process ids are used up, or socketpair(), fcntl() or fork()
\* fails: nothing is recorded.
SpawnError(kind) ==
  \/ (FreePids = {} \/ TableIsFull) /\ UNCHANGED faults
  \/ Fault(kind)

-----------------------------------------------------------------------------
(* ngx_signal_worker_processes *)

\* Entries the loop does not skip for what they are.
Reachable == {s \in Used : detached[s] = 0 /\ pid[s] # 0}

\* Mutant: SIGQUIT reaches the processes that were just started, too.
Targets_Just(sig) ==
  {s \in Reachable : ~ (exiting[s] = 1 /\ sig = "QUIT")}

\* Entries whose process is sent something.
Targets(sig) ==
  {s \in Reachable : just[s] = 0 /\ ~ (exiting[s] = 1 /\ sig = "QUIT")}

\* Mutant: just_spawn stays set, so that the next reload skips the process.
AfterSignal_Just == just

\* just_spawn protects a process from one call.
AfterSignal == [s \in Slots |-> IF s \in Reachable THEN 0 ELSE just[s]]

\* The entry of a process that could not be respawned names a process that is
\* no more: kill() fails with ESRCH and the entry is to be reaped again.
SignalWorkers(sig, fl) ==
  LET lost == {s \in Targets(sig) : exited[s] = 1}
      sent == Targets(sig) \ lost
      hit == {pid[s] : s \in sent}
      dies == IF sig = "KILL" THEN {p \in hit : st[p] \notin Gone} ELSE {}
  IN  /\ just' = AfterSignal
      /\ exiting' = [s \in Slots |->
                       IF s \in sent /\ sig # "USR1" THEN 1
                       ELSE IF s \in lost THEN 0 ELSE exiting[s]]
      /\ inbox' = [p \in Pids |->
                     IF p \in hit /\ sig # "KILL" THEN inbox[p] \cup {sig}
                                                  ELSE inbox[p]]
      /\ told' = IF sig = "USR1" THEN told ELSE told \cup hit
      /\ st' = [p \in Pids |-> IF p \in dies THEN "zombie" ELSE st[p]]
      /\ pend' = IF dies = {} THEN pend ELSE pend \cup {"CHLD"}
      /\ flag' = IF lost = {} THEN fl ELSE [fl EXCEPT !["reap"] = 1]
      /\ UNCHANGED <<pid, exited, respawn, detached, proc, last, role, gen>>

-----------------------------------------------------------------------------
(* ngx_start_worker_processes and ngx_start_cache_manager_processes *)

BeginStart(who) ==
  /\ mpc' = "start"
  /\ job' = who
  /\ i' = 1

\* NGX_PROCESS_JUST_RESPAWN and NGX_PROCESS_JUST_SPAWN are for a reload.
JustSpawn == IF job = "reload" THEN 1 ELSE 0

\* One round of the loops.
StartNext(p, s) ==
  /\ mpc = "start"
  /\ i <= Len(Crew)
  /\ i' = i + 1
  /\ Spawn(p, s, Crew[i], JustSpawn)
  /\ UNCHANGED <<mpc, flag, pend, live, clock, upgrade, cfg, found, job,
                 bounds>>

\* One that fails: the loops go on as if nothing had happened.
StartError ==
  /\ mpc = "start"
  /\ i <= Len(Crew)
  /\ i' = i + 1
  /\ SpawnError("spawn")
  /\ UNCHANGED <<table, children, mpc, flag, pend, live, clock, upgrade, cfg,
                 found, job, nsig>>

Started == mpc = "start" /\ i > Len(Crew)

\* After the first start, and after the one of the branch for a running new
\* binary, which ends with "continue".
StartedOrBackup ==
  /\ Started
  /\ job \in {"boot", "newbinary"}
  /\ mpc' = "top"
  /\ noaccepting' = IF job = "newbinary" THEN 0 ELSE noaccepting
  /\ UNCHANGED <<table, children, flag, pend, live, clock, newbin, cfg, cursor,
                 bounds>>

\* A reload: the processes of the old configuration are told to quit.
StartedReload ==
  /\ Started
  /\ job = "reload"
  /\ live' = 1
  /\ SignalWorkers("QUIT", flag)
  /\ mpc' = "restart"
  /\ UNCHANGED <<clock, upgrade, cfg, cursor, bounds>>

\* Mutant: ends with "continue", as the branch for a running new binary does.
StartedRestart_Continues ==
  /\ Started
  /\ job = "restart"
  /\ live' = 1
  /\ mpc' = "top"
  /\ UNCHANGED <<table, children, flag, pend, clock, upgrade, cfg, cursor,
                 bounds>>

\* The crew is back after a new binary has exited.
StartedRestart ==
  /\ Started
  /\ job = "restart"
  /\ live' = 1
  /\ mpc' = "reopen"
  /\ UNCHANGED <<table, children, flag, pend, clock, upgrade, cfg, cursor,
                 bounds>>

-----------------------------------------------------------------------------
(* ngx_signal_handler, ngx_process_get_status and sigsuspend() *)

\* Top of the loop.  The delay doubles when the alarm went off; it is not
\* followed any further once it is long enough for SIGKILL.
Top ==
  /\ mpc = "top"
  /\ \/ /\ delay > 0
        /\ flag["sigalrm"] = 1
        /\ sigio' = 0
        /\ delay' = IF delay > KillDelay THEN delay ELSE 2 * delay
        /\ flag' = Clear("sigalrm")
        /\ timer' = 1
     \/ /\ delay > 0
        /\ flag["sigalrm"] = 0
        /\ timer' = 1
        /\ UNCHANGED <<sigio, delay, flag>>
     \/ /\ delay = 0
        /\ UNCHANGED <<clock, flag>>
  /\ mpc' = "suspend"
  /\ UNCHANGED <<table, children, pend, live, upgrade, cfg, cursor, bounds>>

\* The flag that the handler of a signal sets.  SIGUSR2 is ignored while a new
\* binary is running, SIGIO sets a flag nobody reads.
Raises(sig) ==
  CASE sig = "CHLD"  -> {"reap"}
    [] sig = "QUIT"  -> {"quit"}
    [] sig = "TERM"  -> {"terminate"}
    [] sig = "HUP"   -> {"reconfigure"}
    [] sig = "USR1"  -> {"reopen"}
    [] sig = "WINCH" -> {"noaccept"}
    [] sig = "ALRM"  -> {"sigalrm"}
    [] sig = "USR2"  -> IF newbin > 0 THEN {} ELSE {"changebin"}
    [] sig = "IO"    -> {}

Raised == UNION {Raises(sig) : sig \in pend}

\* Mutant: waitpid() is called once for a signal that stands for many.
Waited_One ==
  LET z == {p \in Pids : st[p] \in {"zombie", "fatal"}}
  IN  IF z = {} THEN {} ELSE {CHOOSE p \in z : \A q \in z : p <= q}

\* The processes that waitpid() returns, until there are no more.
Waited == {p \in Pids : st[p] \in {"zombie", "fatal"}}

\* ngx_process_get_status() is called by the handler of SIGCHLD only.
GetStatus ==
  LET w == IF "CHLD" \in pend THEN Waited ELSE {}
  IN  /\ st' = [p \in Pids |-> IF p \in w THEN "free" ELSE st[p]]
      /\ inbox' = [p \in Pids |-> IF p \in w THEN {} ELSE inbox[p]]
      /\ told' = told \ w
      /\ exited' = [s \in Slots |-> IF s \in Used /\ pid[s] \in w THEN 1
                                                          ELSE exited[s]]
      /\ respawn' = [s \in Slots |->
                       IF s \in Used /\ pid[s] \in w /\ st[pid[s]] = "fatal"
                       THEN 0 ELSE respawn[s]]

\* sigsuspend() returns: the handlers of all pending signals have run.
Wakeup ==
  /\ mpc = "suspend"
  /\ pend # {}
  /\ pend' = {}
  /\ flag' = [f \in Flags |-> IF f \in Raised THEN 1 ELSE flag[f]]
  /\ GetStatus
  /\ mpc' = "wake"
  /\ UNCHANGED <<pid, exiting, just, detached, proc, last, role, gen, live,
                 clock, upgrade, cfg, cursor, bounds>>

\* setitimer() runs out.
Alarm ==
  /\ timer = 1
  /\ mpc # "exited"
  /\ timer' = 0
  /\ pend' = pend \cup {"ALRM"}
  /\ UNCHANGED <<table, children, mpc, flag, live, delay, sigio, upgrade, cfg,
                 cursor, bounds>>

\* Somebody signals the master.
Send(sig) ==
  /\ mpc # "exited"
  /\ nsig < MaxSignals
  /\ nsig' = nsig + 1
  /\ pend' = pend \cup {sig}
  /\ UNCHANGED <<table, children, mpc, flag, live, clock, upgrade, cfg, cursor,
                 faults>>

-----------------------------------------------------------------------------
(* ngx_reap_children *)

ReapBegin ==
  /\ mpc = "wake"
  /\ \/ /\ flag["reap"] = 1
        /\ flag' = Clear("reap")
        /\ i' = 0
        /\ found' = 0
        /\ mpc' = "reap"
     \/ /\ flag["reap"] = 0
        /\ mpc' = "check"
        /\ UNCHANGED <<flag, i, found>>
  /\ UNCHANGED <<table, children, pend, live, clock, upgrade, cfg, job,
                 bounds>>

Reaping == mpc = "reap" /\ i < last

\* An entry without a process, or with one that has not exited.
ReapSkip ==
  /\ Reaping
  /\ pid[i] = 0 \/ exited[i] = 0
  /\ found' = IF pid[i] # 0 /\ (exiting[i] = 1 \/ detached[i] = 0) THEN 1
                                                                 ELSE found
  /\ i' = i + 1
  /\ UNCHANGED <<table, children, mpc, flag, pend, live, clock, upgrade, cfg,
                 job, bounds>>

\* The condition for a new process in the place of one that has exited.
MayRespawn(s) == respawn[s] = 1 /\ exiting[s] = 0 /\ ~ Leaving

\* The entry keeps its flags when its process is started again.
ReapRespawn(p) ==
  /\ Reaping
  /\ pid[i] # 0
  /\ exited[i] = 1
  /\ MayRespawn(i)
  /\ Fork(p, proc[i])
  /\ pid' = [pid EXCEPT ![i] = p]
  /\ exited' = [exited EXCEPT ![i] = 0]
  /\ found' = 1
  /\ i' = i + 1
  /\ UNCHANGED <<exiting, respawn, just, detached, proc, last, mpc, flag, pend,
                 live, clock, upgrade, cfg, job, bounds>>

\* When that fails the entry stays as it is, with a pid that is no more, and
\* live is not set.
ReapRespawnError ==
  /\ Reaping
  /\ pid[i] # 0
  /\ exited[i] = 1
  /\ MayRespawn(i)
  /\ \/ FreePids = {} /\ UNCHANGED faults
     \/ Fault("spawn")
  /\ i' = i + 1
  /\ UNCHANGED <<table, children, mpc, flag, pend, live, clock, upgrade, cfg,
                 found, job, nsig>>

\* The entry is free again; what it holds stays when it was the last one.
DropSlot(s) ==
  IF s = last - 1 THEN last' = last - 1 /\ UNCHANGED pid
                  ELSE pid' = [pid EXCEPT ![s] = 0] /\ UNCHANGED last

\* A process that is not started again.  If it was the new binary, and the
\* workers had been told to quit for it, they are to be started again.
ReapForget ==
  /\ Reaping
  /\ pid[i] # 0
  /\ exited[i] = 1
  /\ ~ MayRespawn(i)
  /\ \/ /\ pid[i] = newbin
        /\ newbin' = 0
        /\ noaccepting' = 0
        /\ flag' = IF noaccepting = 1 THEN [flag EXCEPT !["restart"] = 1]
                                      ELSE flag
     \/ /\ pid[i] # newbin
        /\ UNCHANGED <<upgrade, flag>>
  /\ DropSlot(i)
  /\ i' = i + 1
  /\ UNCHANGED <<marks, children, mpc, pend, live, clock, cfg, found, job,
                 bounds>>

\* Mutant: forgets that processes are left.
ReapEnd_Dead ==
  /\ mpc = "reap"
  /\ i >= last
  /\ live' = 0
  /\ mpc' = "check"
  /\ UNCHANGED <<table, children, flag, pend, clock, upgrade, cfg, cursor,
                 bounds>>

ReapEnd ==
  /\ mpc = "reap"
  /\ i >= last
  /\ live' = found
  /\ mpc' = "check"
  /\ UNCHANGED <<table, children, flag, pend, clock, upgrade, cfg, cursor,
                 bounds>>

-----------------------------------------------------------------------------
(* ngx_master_process_cycle, after the reaping *)

\* ngx_master_process_exit()
MasterExit ==
  /\ mpc = "check"
  /\ live = 0
  /\ Leaving
  /\ mpc' = "exited"
  /\ UNCHANGED <<table, children, flag, pend, live, clock, upgrade, cfg,
                 cursor, bounds>>

Stays == mpc = "check" /\ (live = 1 \/ ~ Leaving)

Workers == Cardinality({k \in 1 .. Len(Crew) : Crew[k] = "worker"})

\* Mutant: never gets to SIGKILL.
LastResort_Never(d) == "TERM"

LastResort(d) == IF d > KillDelay THEN "KILL" ELSE "TERM"

\* SIGTERM, and SIGKILL when the delay has grown.  The wake-ups that exits
\* cause are counted off before the processes are signalled again.
Terminate ==
  /\ Stays
  /\ flag["terminate"] = 1
  /\ delay' = IF delay = 0 THEN FirstDelay ELSE delay
  /\ \/ /\ sigio > 0
        /\ sigio' = sigio - 1
        /\ UNCHANGED <<table, children, pend, flag>>
     \/ /\ sigio = 0
        /\ sigio' = Workers + 2
        /\ SignalWorkers(LastResort(delay'), flag)
  /\ mpc' = "top"
  /\ UNCHANGED <<timer, live, upgrade, cfg, cursor, bounds>>

\* SIGQUIT; the listening sockets are closed, too.
Quit ==
  /\ Stays
  /\ flag["terminate"] = 0
  /\ flag["quit"] = 1
  /\ SignalWorkers("QUIT", flag)
  /\ mpc' = "top"
  /\ UNCHANGED <<live, clock, upgrade, cfg, cursor, bounds>>

\* SIGHUP.  With a new binary the old crew is started again as it is, otherwise
\* the configuration is read and its crew started.
Reconfigure ==
  /\ Stays
  /\ ~ Leaving
  /\ flag["reconfigure"] = 1
  /\ flag' = Clear("reconfigure")
  /\ \/ newbin # 0 /\ BeginStart("newbinary") /\ UNCHANGED cfg
     \/ newbin = 0 /\ BeginStart("reload") /\ cfg' = cfg + 1
  /\ UNCHANGED <<table, children, pend, live, clock, upgrade, found, bounds>>

\* ngx_init_cycle() fails: the old cycle stays, and the loop starts over.
ReconfigureError ==
  /\ Stays
  /\ ~ Leaving
  /\ flag["reconfigure"] = 1
  /\ newbin = 0
  /\ Fault("config")
  /\ flag' = Clear("reconfigure")
  /\ mpc' = "top"
  /\ UNCHANGED <<table, children, pend, live, clock, upgrade, cfg, cursor,
                 nsig>>

NothingToReload ==
  /\ Stays
  /\ ~ Leaving
  /\ flag["reconfigure"] = 0
  /\ mpc' = "restart"
  /\ UNCHANGED <<table, children, flag, pend, live, clock, upgrade, cfg,
                 cursor, bounds>>

\* The workers are started again after a new binary has exited.
Restart ==
  /\ mpc = "restart"
  /\ \/ /\ flag["restart"] = 1
        /\ flag' = Clear("restart")
        /\ BeginStart("restart")
     \/ /\ flag["restart"] = 0
        /\ mpc' = "reopen"
        /\ UNCHANGED <<flag, i, job>>
  /\ UNCHANGED <<table, children, pend, live, clock, upgrade, cfg, found,
                 bounds>>

\* Mutant: the request is carried out and not forgotten.
Reopen_NotCleared ==
  /\ mpc = "reopen"
  /\ \/ /\ flag["reopen"] = 1
        /\ SignalWorkers("USR1", flag)
     \/ /\ flag["reopen"] = 0
        /\ UNCHANGED <<table, children, pend, flag>>
  /\ mpc' = "changebin"
  /\ UNCHANGED <<live, clock, upgrade, cfg, cursor, bounds>>

\* SIGUSR1
Reopen ==
  /\ mpc = "reopen"
  /\ \/ /\ flag["reopen"] = 1
        /\ SignalWorkers("USR1", Clear("reopen"))
     \/ /\ flag["reopen"] = 0
        /\ UNCHANGED <<table, children, pend, flag>>
  /\ mpc' = "changebin"
  /\ UNCHANGED <<live, clock, upgrade, cfg, cursor, bounds>>

\* SIGUSR2: ngx_exec_new_binary()
ChangeBinary(p, s) ==
  /\ mpc = "changebin"
  /\ flag["changebin"] = 1
  /\ flag' = Clear("changebin")
  /\ Spawn(p, s, "binary", 0)
  /\ newbin' = p
  /\ mpc' = "noaccept"
  /\ UNCHANGED <<pend, live, clock, noaccepting, cfg, cursor, bounds>>

\* It fails and returns NGX_INVALID_PID.
ChangeBinaryError ==
  /\ mpc = "changebin"
  /\ flag["changebin"] = 1
  /\ flag' = Clear("changebin")
  /\ SpawnError("exec")
  /\ newbin' = -1
  /\ mpc' = "noaccept"
  /\ UNCHANGED <<table, children, pend, live, clock, noaccepting, cfg, cursor,
                 nsig>>

NoNewBinary ==
  /\ mpc = "changebin"
  /\ flag["changebin"] = 0
  /\ mpc' = "noaccept"
  /\ UNCHANGED <<table, children, flag, pend, live, clock, upgrade, cfg,
                 cursor, bounds>>

\* SIGWINCH
NoAccept ==
  /\ mpc = "noaccept"
  /\ \/ /\ flag["noaccept"] = 1
        /\ noaccepting' = 1
        /\ SignalWorkers("QUIT", Clear("noaccept"))
     \/ /\ flag["noaccept"] = 0
        /\ UNCHANGED <<table, children, pend, flag, noaccepting>>
  /\ mpc' = "top"
  /\ UNCHANGED <<live, clock, newbin, cfg, cursor, bounds>>

-----------------------------------------------------------------------------
(* The processes *)

\* p leaves the state it is in; if it exits the master gets SIGCHLD.
Becomes(p, s) ==
  /\ st' = [st EXCEPT ![p] = s]
  /\ pend' = IF s \in Gone /\ mpc # "exited" THEN pend \cup {"CHLD"} ELSE pend

\* ngx_worker_process_cycle(): a worker that quits waits for its connections.
WorkerLoop(p) ==
  IF "TERM" \in inbox[p] THEN "zombie"
  ELSE IF "QUIT" \in inbox[p] THEN "leaving" ELSE st[p]

\* ngx_cache_manager_process_cycle(): the helpers do not wait for anything.
HelperLoop(p) ==
  IF "TERM" \in inbox[p] \/ "QUIT" \in inbox[p] THEN "zombie" ELSE st[p]

\* ngx_channel_handler() or ngx_signal_handler() sets the flags of the process,
\* and the next round of its loop looks at them.
Obey(p) ==
  /\ st[p] \in {"run", "leaving"}
  /\ inbox[p] # {}
  /\ inbox' = [inbox EXCEPT ![p] = {}]
  /\ Becomes(p, IF role[p] = "worker" THEN WorkerLoop(p) ELSE HelperLoop(p))
  /\ UNCHANGED <<table, role, gen, told, mpc, flag, live, clock, upgrade, cfg,
                 cursor, bounds>>

\* The last connection of a worker that is leaving is closed.
Drained(p) ==
  /\ st[p] = "leaving"
  /\ Becomes(p, "zombie")
  /\ UNCHANGED <<table, role, gen, inbox, told, mpc, flag, live, clock,
                 upgrade, cfg, cursor, bounds>>

\* The cache loader has read everything.
Loaded(p) ==
  /\ st[p] = "run"
  /\ role[p] = "loader"
  /\ Becomes(p, "zombie")
  /\ UNCHANGED <<table, role, gen, inbox, told, mpc, flag, live, clock,
                 upgrade, cfg, cursor, bounds>>

\* execve() fails, or the new binary exits.
BinaryExits(p) ==
  /\ st[p] = "run"
  /\ role[p] = "binary"
  /\ Becomes(p, "zombie")
  /\ UNCHANGED <<table, role, gen, inbox, told, mpc, flag, live, clock,
                 upgrade, cfg, cursor, bounds>>

\* ngx_worker_process_init() fails and calls exit(2).
InitFails(p) ==
  /\ st[p] = "run"
  /\ role[p] # "binary"
  /\ Fault("fatal")
  /\ Becomes(p, "fatal")
  /\ UNCHANGED <<table, role, gen, inbox, told, mpc, flag, live, clock,
                 upgrade, cfg, cursor, nsig>>

\* A process is killed by a signal.
Crash(p) ==
  /\ st[p] \in {"run", "leaving", "hung"}
  /\ role[p] # "binary"
  /\ Fault("crash")
  /\ Becomes(p, "zombie")
  /\ UNCHANGED <<table, role, gen, inbox, told, mpc, flag, live, clock,
                 upgrade, cfg, cursor, nsig>>

\* A process never gets back to its event loop.
Hang(p) ==
  /\ st[p] \in {"run", "leaving"}
  /\ role[p] # "binary"
  /\ Fault("hang")
  /\ Becomes(p, "hung")
  /\ UNCHANGED <<table, role, gen, inbox, told, mpc, flag, live, clock,
                 upgrade, cfg, cursor, nsig>>

-----------------------------------------------------------------------------
Forks(p) ==
  \/ ReapRespawn(p)
  \/ \E s \in 0 .. last : StartNext(p, s) \/ ChangeBinary(p, s)

Master ==
  \/ \E p \in Pids : Forks(p)
  \/ StartError \/ StartedOrBackup \/ StartedReload \/ StartedRestart
  \/ Top \/ Wakeup
  \/ ReapBegin \/ ReapSkip \/ ReapRespawnError \/ ReapForget \/ ReapEnd
  \/ MasterExit \/ Terminate \/ Quit
  \/ Reconfigure \/ ReconfigureError \/ NothingToReload
  \/ Restart \/ Reopen \/ ChangeBinaryError \/ NoNewBinary \/ NoAccept

Process(p) ==
  \/ Obey(p) \/ Drained(p) \/ Loaded(p) \/ BinaryExits(p)
  \/ InitFails(p) \/ Crash(p) \/ Hang(p)

Next ==
  \/ Master
  \/ Alarm
  \/ \E sig \in Signals : Send(sig)
  \/ \E p \in Pids : Process(p)

Spec == Init /\ [][Next]_vars

\* The master and the timer are never stopped for good, a process that is not
\* hung gets to its inbox, and clients finish or run into a timeout.
Fairness ==
  /\ WF_vars(Master)
  /\ WF_vars(Alarm)
  /\ \A p \in Pids : WF_vars(Obey(p)) /\ WF_vars(Drained(p))

LiveSpec == Spec /\ Fairness

-----------------------------------------------------------------------------
Bits == {0, 1}

TableType ==
  /\ pid \in [Slots -> Pids \cup {0}]
  /\ exited \in [Slots -> Bits]
  /\ exiting \in [Slots -> Bits]
  /\ respawn \in [Slots -> Bits]
  /\ just \in [Slots -> Bits]
  /\ detached \in [Slots -> Bits]
  /\ proc \in [Slots -> Roles \cup {"binary"}]
  /\ last \in 0 .. MaxSlots

ChildrenType ==
  /\ st \in [Pids -> States]
  /\ role \in [Pids -> Roles \cup {"binary"}]
  /\ gen \in [Pids -> Nat]
  /\ inbox \in [Pids -> SUBSET {"QUIT", "TERM", "USR1"}]
  /\ told \subseteq Pids

MasterType ==
  /\ mpc \in Labels
  /\ flag \in [Flags -> Bits]
  /\ pend \subseteq Signals \cup {"CHLD", "ALRM"}
  /\ live \in Bits
  /\ delay \in Nat
  /\ sigio \in Nat
  /\ timer \in Bits
  /\ newbin \in Pids \cup {0, -1}
  /\ noaccepting \in Bits
  /\ cfg \in Nat
  /\ i \in Nat /\ (mpc = "start" => i > 0)
  /\ found \in Bits
  /\ job \in {"boot", "newbinary", "reload", "restart"}
  /\ nsig \in 0 .. MaxSignals
  /\ faults \in 0 .. MaxFaults

\* Every variable has its type; the table never grows beyond its size.
TypeOK == TableType /\ ChildrenType /\ MasterType

Exists(p) == st[p] # "free"

IsEntryOf(s, p) ==
  /\ pid[s] = p
  /\ exited[s] = 0
  /\ \A t \in Used : pid[t] = p => t = s

\* Every process that was forked and not waited for has one entry of the table,
\* which says that it has not exited: the loop of ngx_process_get_status() that
\* looks for a pid never runs past the end.
ChildrenAreKnown ==
  \A p \in Pids : Exists(p) => \E s \in Used : IsEntryOf(s, p)

\* An entry is marked as exiting, and is then passed over by SIGQUIT, only if
\* the process that is in it now was told to leave (lines 574-578 and 675-679).
ExitingIsTold ==
  \A s \in Used : pid[s] # 0 /\ exited[s] = 0 /\ exiting[s] = 1
                    => pid[s] \in told

\* When the master sleeps, every process of an older configuration was told to
\* leave: a reload passes nobody over, whatever happened to the table before.
OldConfigRetires ==
  mpc = "suspend" =>
    \A p \in Pids :
      Exists(p) /\ role[p] # "binary" /\ gen[p] < cfg => p \in told

\* When the master sleeps and is not shutting down, it means to keep exactly
\* one crew: as many entries are to be respawned as the configuration has
\* workers and cache managers.
CrewIsWhole ==
  mpc = "suspend" /\ ~ Leaving =>
    Cardinality({s \in Used : pid[s] # 0 /\ respawn[s] = 1 /\ exiting[s] = 0})
      = Cardinality({k \in 1 .. Len(Crew) : Crew[k] # "loader"})

\* A shutdown does not leave a process behind that nobody can signal.
MasterLeavesNobody ==
  mpc = "exited" => \A p \in Pids : role[p] # "binary" => st[p] \in Gone

\* A process that exited and was not replaced is noticed: the master does not
\* sleep with a zombie and no SIGCHLD to come.
ZombieIsPending ==
  mpc # "exited" =>
    \A p \in Pids : st[p] \in {"zombie", "fatal"} => "CHLD" \in pend

\* What the branches of the loop behind the shutdown look at, in their order.
Requests == {"reconfigure", "restart", "reopen", "changebin", "noaccept"}

\* The master does not sleep on a request it has taken from its signals and not
\* carried out.
NothingPostponed ==
  mpc = "suspend" /\ ~ Leaving => \A f \in Requests : flag[f] = 0

\* Of the signals that one sigsuspend() delivers together, only SIGHUP makes the
\* master go back to sleep on the others, and only with a configuration that
\* cannot be read (line 271) or after a SIGUSR2 (line 263): however upgrades,
\* exits of the new binary, SIGWINCH and failures come together, every other
\* round of the loop carries out all that it has taken.
PostponedByHupOnly ==
  [][mpc # "top" /\ mpc' = "top" /\ ~ Leaving /\ (\E f \in Requests : flag'[f] = 1)
       => \/ mpc = "check" /\ flag["reconfigure"] = 1 /\ newbin = 0
          \/ mpc = "start" /\ job = "newbinary"]_vars

\* SIGHUP reads the configuration unless a new binary is running, which is when
\* it starts the old crew again.
HupReloads ==
  [][mpc = "check" /\ mpc' = "start" /\ newbin \notin Pids
       => job' = "reload"]_vars

\* SIGTERM ends the master, even if processes hang.
TerminateCompletes == flag["terminate"] = 1 ~> mpc = "exited"

\* SIGQUIT ends the master unless a process hangs.
QuitCompletes ==
  flag["quit"] = 1 ~> (mpc = "exited" \/ \E p \in Pids : st[p] = "hung")
=============================================================================
