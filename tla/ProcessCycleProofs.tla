------------------------- MODULE ProcessCycleProofs -------------------------
(***************************************************************************)
(* Proofs about ProcessCycle for any crew, any size of the table, any      *)
(* signals and any number of faults.                                       *)
(***************************************************************************)
EXTENDS ProcessCycle, FiniteSetTheorems, TLAPS

USE PidsAssumption, CrewAssumption, SlotsAssumption, DelayAssumption,
    SignalsAssumption, FaultsAssumption

Kills == {"QUIT", "TERM", "USR1", "KILL"}

(***************************************************************************)
(* Types.                                                                  *)
(***************************************************************************)
LEMMA ForkType ==
  ASSUME TypeOK, NEW p \in Pids, NEW r \in Roles \cup {"binary"}, Fork(p, r)
  PROVE  ChildrenType'
BY DEF TypeOK, ChildrenType, MasterType, Fork, States

LEMMA SpawnType ==
  ASSUME TypeOK, NEW p \in Pids, NEW s \in 0 .. last, NEW j \in Bits,
         NEW r \in Roles \cup {"binary"}, Spawn(p, s, r, j)
  PROVE  TableType' /\ ChildrenType'
<1>1. ChildrenType'
  BY ForkType DEF Spawn
<1>2. TableType'
  BY DEF Spawn, OpenSlot, TypeOK, TableType, Slots, Bits
<1>3. QED
  BY <1>1, <1>2

LEMMA SignalType ==
  ASSUME TypeOK, NEW sig \in Kills, NEW fl \in [Flags -> Bits],
         SignalWorkers(sig, fl)
  PROVE  /\ TableType'
         /\ ChildrenType'
         /\ flag' \in [Flags -> Bits]
         /\ pend' \subseteq Signals \cup {"CHLD", "ALRM"}
<1> DEFINE lost == {s \in Targets(sig) : exited[s] = 1}
           sent == Targets(sig) \ lost
           hit == {pid[s] : s \in sent}
           dies == IF sig = "KILL" THEN {p \in hit : st[p] \notin Gone} ELSE {}
<1>1. /\ just' = AfterSignal
      /\ exiting' = [s \in Slots |->
                       IF s \in sent /\ sig # "USR1" THEN 1
                       ELSE IF s \in lost THEN 0 ELSE exiting[s]]
      /\ inbox' = [p \in Pids |->
                     IF p \in hit /\ sig # "KILL" THEN inbox[p] \cup {sig}
                                                  ELSE inbox[p]]
      /\ told' = IF sig = "USR1" THEN told ELSE told \cup hit
      /\ st' = [p \in Pids |-> IF p \in dies THEN "zombie" ELSE st[p]]
      /\ pend' = IF dies = {} THEN pend ELSE pend \cup {"CHLD"}
      /\ flag' = IF lost = {} THEN fl ELSE [fl EXCEPT !["reap"] = 1]
      /\ UNCHANGED <<pid, exited, respawn, detached, proc, last, role, gen>>
  BY DEF SignalWorkers
<1>2. hit \subseteq Pids
  BY DEF Targets, Reachable, Used, TypeOK, TableType
<1> HIDE DEF lost, sent, hit, dies
<1>3. TableType'
  <2>1. just' \in [Slots -> Bits]
    BY <1>1 DEF AfterSignal, TypeOK, TableType, Bits
  <2>2. exiting' \in [Slots -> Bits]
    BY <1>1 DEF TypeOK, TableType, Bits
  <2>3. QED
    BY <1>1, <2>1, <2>2 DEF TypeOK, TableType
<1>4. ChildrenType'
  <2>1. inbox' \in [Pids -> SUBSET {"QUIT", "TERM", "USR1"}]
    BY <1>1 DEF TypeOK, ChildrenType, Kills
  <2>2. st' \in [Pids -> States]
    BY <1>1 DEF TypeOK, ChildrenType, States
  <2>3. QED
    BY <1>1, <1>2, <2>1, <2>2 DEF TypeOK, ChildrenType
<1>5. flag' \in [Flags -> Bits]
  BY <1>1 DEF Flags, Bits
<1>6. pend' \subseteq Signals \cup {"CHLD", "ALRM"}
  BY <1>1 DEF TypeOK, MasterType
<1>7. QED
  BY <1>3, <1>4, <1>5, <1>6

(***************************************************************************)
(* Type correctness: in particular ngx_last_process stays within           *)
(* NGX_MAX_PROCESSES.                                                      *)
(***************************************************************************)
THEOREM TypeCorrect == Spec => []TypeOK
<1>1. Init => TypeOK
  BY DEF Init, TypeOK, TableType, ChildrenType, MasterType, Slots, Bits, Roles,
         States, Labels, Flags
<1>2. TypeOK /\ [Next]_vars => TypeOK'
  <2> SUFFICES ASSUME TypeOK, [Next]_vars PROVE TypeOK'
    OBVIOUS
  <2> USE DEF table, marks, children, upgrade, clock, cursor, bounds
  <2>1. CASE UNCHANGED vars
    BY <2>1 DEF vars, TypeOK, TableType, ChildrenType, MasterType
  <2>2. ASSUME NEW p \in Pids, NEW s \in 0 .. last, StartNext(p, s)
        PROVE  TypeOK'
    <3>1. Crew[i] \in Roles /\ JustSpawn \in Bits
      BY <2>2 DEF StartNext, JustSpawn, Bits, TypeOK, MasterType
    <3>2. TableType' /\ ChildrenType'
      BY <2>2, <3>1, SpawnType DEF StartNext
    <3>3. QED
      BY <2>2, <3>2 DEF StartNext, TypeOK, MasterType
  <2>28. CASE StartError
    BY <2>28 DEF StartError, SpawnError, Fault, TypeOK, TableType,
                 ChildrenType, MasterType
  <2>3. CASE StartedOrBackup
    BY <2>3 DEF StartedOrBackup, TypeOK, TableType, ChildrenType, MasterType,
                Labels, Bits
  <2>4. CASE StartedReload
    BY <2>4, SignalType DEF StartedReload, TypeOK, MasterType, Labels, Bits,
                            Kills
  <2>5. CASE StartedRestart
    BY <2>5 DEF StartedRestart, TypeOK, TableType, ChildrenType, MasterType,
                Labels, Bits
  <2>6. CASE Top
    <3>1. /\ TableType' /\ ChildrenType'
          /\ UNCHANGED <<pend, live, upgrade, cfg, cursor, bounds>>
          /\ mpc' = "suspend"
      BY <2>6 DEF Top, TypeOK, TableType, ChildrenType
    <3>2. flag' \in [Flags -> Bits]
      BY <2>6 DEF Top, Clear, TypeOK, MasterType, Flags, Bits
    <3>3. delay' \in Nat /\ sigio' \in Nat /\ timer' \in Bits
      BY <2>6 DEF Top, TypeOK, MasterType, Bits
    <3>4. QED
      BY <3>1, <3>2, <3>3 DEF TypeOK, MasterType, Labels
  <2>7. CASE Wakeup
    <3>1. flag' \in [Flags -> Bits]
      BY <2>7 DEF Wakeup, TypeOK, MasterType, Bits
    <3>2. /\ st' \in [Pids -> States]
          /\ inbox' \in [Pids -> SUBSET {"QUIT", "TERM", "USR1"}]
          /\ told' \subseteq Pids
      BY <2>7 DEF Wakeup, GetStatus, TypeOK, ChildrenType, States
    <3>3. exited' \in [Slots -> Bits] /\ respawn' \in [Slots -> Bits]
      BY <2>7 DEF Wakeup, GetStatus, TypeOK, TableType, Bits
    <3>4. QED
      BY <2>7, <3>1, <3>2, <3>3
      DEF Wakeup, TypeOK, TableType, ChildrenType, MasterType, Labels
  <2>8. CASE Alarm
    BY <2>8 DEF Alarm, TypeOK, TableType, ChildrenType, MasterType, Bits
  <2>9. ASSUME NEW sig \in Signals, Send(sig) PROVE TypeOK'
    BY <2>9 DEF Send, TypeOK, TableType, ChildrenType, MasterType
  <2>10. CASE ReapBegin
    <3>1. flag' \in [Flags -> Bits]
      BY <2>10 DEF ReapBegin, Clear, TypeOK, MasterType, Flags, Bits
    <3>2. QED
      BY <2>10, <3>1 DEF ReapBegin, TypeOK, TableType, ChildrenType,
                         MasterType, Labels, Bits
  <2>11. CASE ReapSkip
    BY <2>11 DEF ReapSkip, Reaping, TypeOK, TableType, ChildrenType,
                 MasterType, Labels, Bits
  <2>12. ASSUME NEW p \in Pids, ReapRespawn(p) PROVE TypeOK'
    <3>1. i \in Slots
      BY <2>12 DEF ReapRespawn, Reaping, TypeOK, TableType, MasterType, Slots
    <3>2. ChildrenType'
      BY <2>12, <3>1, ForkType DEF ReapRespawn, TypeOK, TableType
    <3>3. TableType'
      BY <2>12, <3>1 DEF ReapRespawn, TypeOK, TableType, Bits
    <3>4. QED
      BY <2>12, <3>2, <3>3 DEF ReapRespawn, TypeOK, MasterType, Bits
  <2>29. CASE ReapRespawnError
    BY <2>29 DEF ReapRespawnError, Fault, TypeOK, TableType, ChildrenType,
                 MasterType
  <2>13. CASE ReapForget
    <3>1. i \in Slots /\ last - 1 \in 0 .. MaxSlots
      BY <2>13 DEF ReapForget, Reaping, TypeOK, TableType, MasterType, Slots
    <3>2. TableType'
      BY <2>13, <3>1 DEF ReapForget, DropSlot, TypeOK, TableType
    <3>3. flag' \in [Flags -> Bits]
      BY <2>13 DEF ReapForget, TypeOK, MasterType, Flags, Bits
    <3>4. newbin' \in Pids \cup {0, -1} /\ noaccepting' \in Bits
      BY <2>13 DEF ReapForget, TypeOK, MasterType, Bits
    <3>5. QED
      BY <2>13, <3>2, <3>3, <3>4
      DEF ReapForget, TypeOK, ChildrenType, MasterType
  <2>14. CASE ReapEnd
    BY <2>14 DEF ReapEnd, TypeOK, TableType, ChildrenType, MasterType, Labels
  <2>15. CASE MasterExit
    BY <2>15 DEF MasterExit, TypeOK, TableType, ChildrenType, MasterType,
                 Labels
  <2>16. CASE Terminate
    <3>1. Workers \in Nat
      <4> DEFINE W == {k \in 1 .. Len(Crew) : Crew[k] = "worker"}
      <4>1. IsFiniteSet(1 .. Len(Crew))
        BY FS_Interval
      <4>2. IsFiniteSet(W)
        BY <4>1, FS_Subset
      <4>3. QED
        BY <4>2, FS_CardinalityType DEF Workers
    <3>2. delay' \in Nat /\ sigio' \in Nat
      BY <2>16, <3>1 DEF Terminate, TypeOK, MasterType
    <3>3. /\ TableType' /\ ChildrenType' /\ flag' \in [Flags -> Bits]
          /\ pend' \subseteq Signals \cup {"CHLD", "ALRM"}
      <4>1. CASE sigio > 0
        <5>1. UNCHANGED <<table, children, pend, flag>>
          BY <2>16, <4>1 DEF Terminate
        <5>2. QED
          BY <5>1 DEF TypeOK, TableType, ChildrenType, MasterType
      <4>2. CASE sigio = 0
        <5>1. SignalWorkers(LastResort(delay'), flag)
          BY <2>16, <4>2 DEF Terminate
        <5>2. LastResort(delay') \in Kills
          BY DEF LastResort, Kills
        <5>3. flag \in [Flags -> Bits]
          BY DEF TypeOK, MasterType
        <5>4. QED
          BY <5>1, <5>2, <5>3, SignalType
      <4>3. QED
        BY <4>1, <4>2 DEF TypeOK, MasterType
    <3>4. QED
      BY <2>16, <3>2, <3>3 DEF Terminate, TypeOK, MasterType, Labels
  <2>17. CASE Quit
    BY <2>17, SignalType DEF Quit, TypeOK, MasterType, Labels, Kills
  <2>18. CASE Reconfigure
    <3>1. flag' \in [Flags -> Bits]
      BY <2>18 DEF Reconfigure, Clear, TypeOK, MasterType, Flags, Bits
    <3>2. QED
      BY <2>18, <3>1 DEF Reconfigure, BeginStart, TypeOK, TableType,
                         ChildrenType, MasterType, Labels
  <2>19. CASE ReconfigureError
    <3>1. flag' \in [Flags -> Bits]
      BY <2>19 DEF ReconfigureError, Clear, TypeOK, MasterType, Flags, Bits
    <3>2. QED
      BY <2>19, <3>1 DEF ReconfigureError, Fault, TypeOK, TableType,
                         ChildrenType, MasterType, Labels
  <2>20. CASE NothingToReload
    BY <2>20 DEF NothingToReload, TypeOK, TableType, ChildrenType, MasterType,
                 Labels
  <2>21. CASE Restart
    <3>1. flag' \in [Flags -> Bits]
      BY <2>21 DEF Restart, Clear, TypeOK, MasterType, Flags, Bits
    <3>2. QED
      BY <2>21, <3>1 DEF Restart, BeginStart, TypeOK, TableType, ChildrenType,
                         MasterType, Labels
  <2>22. CASE Reopen
    <3>1. Clear("reopen") \in [Flags -> Bits]
      BY DEF Clear, TypeOK, MasterType, Flags, Bits
    <3>2. CASE flag["reopen"] = 1
      BY <2>22, <3>1, <3>2, SignalType DEF Reopen, TypeOK, MasterType, Labels,
                                           Kills
    <3>3. CASE flag["reopen"] = 0
      <4>1. UNCHANGED <<table, children, pend, flag>>
        BY <2>22, <3>3 DEF Reopen
      <4>2. QED
        BY <2>22, <4>1 DEF Reopen, TypeOK, TableType, ChildrenType,
                           MasterType, Labels
    <3>4. QED
      BY <2>22, <3>2, <3>3 DEF Reopen
  <2>23. ASSUME NEW p \in Pids, NEW s \in 0 .. last, ChangeBinary(p, s)
         PROVE  TypeOK'
    <3>1. flag' \in [Flags -> Bits]
      BY <2>23 DEF ChangeBinary, Clear, TypeOK, MasterType, Flags, Bits
    <3>2. TableType' /\ ChildrenType'
      BY <2>23, SpawnType DEF ChangeBinary, Bits
    <3>3. QED
      BY <2>23, <3>1, <3>2 DEF ChangeBinary, TypeOK, MasterType, Labels
  <2>30. CASE ChangeBinaryError
    <3>1. flag' \in [Flags -> Bits]
      BY <2>30 DEF ChangeBinaryError, Clear, TypeOK, MasterType, Flags, Bits
    <3>2. QED
      BY <2>30, <3>1 DEF ChangeBinaryError, SpawnError, Fault, TypeOK,
                         TableType, ChildrenType, MasterType, Labels
  <2>24. CASE NoNewBinary
    BY <2>24 DEF NoNewBinary, TypeOK, TableType, ChildrenType, MasterType,
                 Labels
  <2>25. CASE NoAccept
    <3>1. Clear("noaccept") \in [Flags -> Bits]
      BY DEF Clear, TypeOK, MasterType, Flags, Bits
    <3>2. CASE flag["noaccept"] = 1
      BY <2>25, <3>1, <3>2, SignalType DEF NoAccept, TypeOK, MasterType,
                                           Labels, Kills, Bits
    <3>3. CASE flag["noaccept"] = 0
      <4>1. UNCHANGED <<table, children, pend, flag, noaccepting>>
        BY <2>25, <3>3 DEF NoAccept
      <4>2. QED
        BY <2>25, <4>1 DEF NoAccept, TypeOK, TableType, ChildrenType,
                           MasterType, Labels
    <3>4. QED
      BY <2>25, <3>2, <3>3 DEF NoAccept
  <2>26. ASSUME NEW p \in Pids, Process(p) PROVE TypeOK'
    <3> USE DEF Becomes, Fault, WorkerLoop, HelperLoop
    <3>1. /\ TableType'
          /\ UNCHANGED <<mpc, flag, live, clock, upgrade, cfg, cursor, nsig>>
      BY <2>26 DEF Process, Obey, Drained, Loaded, BinaryExits, InitFails,
                   Crash, Hang, TypeOK, TableType
    <3>2. pend' \subseteq Signals \cup {"CHLD", "ALRM"}
      BY <2>26 DEF Process, Obey, Drained, Loaded, BinaryExits, InitFails,
                   Crash, Hang, TypeOK, MasterType
    <3>3. faults' \in 0 .. MaxFaults
      BY <2>26 DEF Process, Obey, Drained, Loaded, BinaryExits, InitFails,
                   Crash, Hang, TypeOK, MasterType
    <3>4. ChildrenType'
      <4>1. CASE Obey(p)
        BY <4>1 DEF Obey, TypeOK, ChildrenType, States
      <4>2. CASE ~ Obey(p)
        BY <2>26, <4>2 DEF Process, Drained, Loaded, BinaryExits, InitFails,
                           Crash, Hang, TypeOK, ChildrenType, States
      <4>3. QED
        BY <4>1, <4>2
    <3>5. QED
      BY <3>1, <3>2, <3>3, <3>4 DEF TypeOK, MasterType
  <2>27. QED
    BY <2>1, <2>2, <2>3, <2>4, <2>5, <2>6, <2>7, <2>8, <2>9, <2>10, <2>11,
       <2>12, <2>13, <2>14, <2>15, <2>16, <2>17, <2>18, <2>19, <2>20, <2>21,
       <2>22, <2>23, <2>24, <2>25, <2>26, <2>28, <2>29, <2>30
    DEF Next, Master, Forks
<1>3. QED
  BY <1>1, <1>2, PTL DEF Spec

(***************************************************************************)
(* What the steps do to the table and the processes.  Calm steps leave the *)
(* entries and the identity of the processes alone; only sigsuspend(), the *)
(* end of an entry and a fork() are not calm.                              *)
(***************************************************************************)
Calm ==
  /\ UNCHANGED <<pid, exited, detached, proc, last, role, gen>>
  /\ \A p \in Pids : st'[p] # "free" => st[p] # "free"
  /\ told \subseteq told'
  /\ \A s \in Slots : exiting'[s] = 1 => exiting[s] = 1 \/ pid[s] \in told'

LEMMA SignalFacts ==
  ASSUME TypeOK, NEW sig \in Kills, NEW fl, SignalWorkers(sig, fl)
  PROVE  /\ Calm
         /\ just' = AfterSignal
         /\ sig # "USR1" =>
              \A s \in Targets(sig) : exited[s] = 0 => pid[s] \in told'
<1> DEFINE lost == {s \in Targets(sig) : exited[s] = 1}
           sent == Targets(sig) \ lost
           hit == {pid[s] : s \in sent}
           dies == IF sig = "KILL" THEN {p \in hit : st[p] \notin Gone} ELSE {}
<1>1. /\ just' = AfterSignal
      /\ exiting' = [s \in Slots |->
                       IF s \in sent /\ sig # "USR1" THEN 1
                       ELSE IF s \in lost THEN 0 ELSE exiting[s]]
      /\ told' = IF sig = "USR1" THEN told ELSE told \cup hit
      /\ st' = [p \in Pids |-> IF p \in dies THEN "zombie" ELSE st[p]]
      /\ UNCHANGED <<pid, exited, respawn, detached, proc, last, role, gen>>
  BY DEF SignalWorkers
<1>2. \A p \in Pids : st'[p] # "free" => st[p] # "free"
  BY <1>1 DEF Gone
<1>3. \A s \in sent : pid[s] \in hit
  OBVIOUS
<1>4. \A s \in Targets(sig) : exited[s] = 0 => s \in sent
  OBVIOUS
<1> HIDE DEF lost, sent, hit, dies
<1>5. \A s \in Slots : exiting'[s] = 1 => exiting[s] = 1 \/ pid[s] \in told'
  BY <1>1, <1>3
<1>6. sig # "USR1" =>
        \A s \in Targets(sig) : exited[s] = 0 => pid[s] \in told'
  BY <1>1, <1>3, <1>4
<1>7. QED
  BY <1>1, <1>2, <1>5, <1>6 DEF Calm

LEMMA ProcessIsCalm ==
  ASSUME TypeOK, NEW p \in Pids, Process(p)
  PROVE  Calm /\ UNCHANGED <<just, mpc, job, cfg, told>>
<1> USE DEF table, marks, cursor, TypeOK, TableType, ChildrenType
<1>1. /\ UNCHANGED <<table, role, gen, told, mpc, job, cfg>>
      /\ st[p] # "free" /\ \E x : Becomes(p, x)
  BY DEF Process, Obey, Drained, Loaded, BinaryExits, InitFails, Crash, Hang
<1>2. \A q \in Pids : st'[q] # "free" => st[q] # "free"
  BY <1>1 DEF Becomes
<1>3. QED
  BY <1>1, <1>2 DEF Calm

\* The steps of the master other than the ones that are not calm.
Plain ==
  \/ StartError \/ StartedOrBackup \/ StartedReload \/ StartedRestart
  \/ Top \/ ReapBegin \/ ReapSkip \/ ReapRespawnError \/ ReapEnd
  \/ MasterExit \/ Terminate \/ Quit
  \/ Reconfigure \/ ReconfigureError \/ NothingToReload
  \/ Restart \/ Reopen \/ ChangeBinaryError \/ NoNewBinary \/ NoAccept
  \/ Alarm \/ \E sig \in Signals : Send(sig)

LEMMA Steps ==
  ASSUME [Next]_vars
  PROVE  \/ UNCHANGED vars
         \/ Plain
         \/ Wakeup
         \/ ReapForget
         \/ \E p \in Pids : Forks(p)
         \/ \E p \in Pids : Process(p)
BY DEF Next, Master, Plain

LEMMA SameIsCalm ==
  ASSUME UNCHANGED <<table, children>>
  PROVE  Calm
BY DEF Calm, table, marks, children

LEMMA PlainIsCalm ==
  ASSUME TypeOK, Plain
  PROVE  Calm
<1>1. CASE StartedReload
  BY <1>1, SignalFacts DEF StartedReload, Kills
<1>2. CASE Terminate
  <2>1. LastResort(delay') \in Kills
    BY DEF LastResort, Kills
  <2>2. CASE SignalWorkers(LastResort(delay'), flag)
    BY <2>1, <2>2, SignalFacts
  <2>3. CASE UNCHANGED <<table, children>>
    BY <2>3, SameIsCalm
  <2>4. QED
    BY <1>2, <2>2, <2>3 DEF Terminate
<1>3. CASE Quit
  BY <1>3, SignalFacts DEF Quit, Kills
<1>4. CASE Reopen
  <2>1. CASE SignalWorkers("USR1", Clear("reopen"))
    BY <2>1, SignalFacts DEF Kills
  <2>2. CASE UNCHANGED <<table, children>>
    BY <2>2, SameIsCalm
  <2>3. QED
    BY <1>4, <2>1, <2>2 DEF Reopen
<1>5. CASE NoAccept
  <2>1. CASE SignalWorkers("QUIT", Clear("noaccept"))
    BY <2>1, SignalFacts DEF Kills
  <2>2. CASE UNCHANGED <<table, children>>
    BY <2>2, SameIsCalm
  <2>3. QED
    BY <1>5, <2>1, <2>2 DEF NoAccept
<1>6. CASE ~ (StartedReload \/ Terminate \/ Quit \/ Reopen \/ NoAccept)
  <2>1. UNCHANGED <<table, children>>
    BY <1>6 DEF Plain, StartError, StartedOrBackup, StartedRestart, Top,
                ReapBegin, ReapSkip, ReapRespawnError, ReapEnd, MasterExit,
                Reconfigure, ReconfigureError, NothingToReload, Restart,
                ChangeBinaryError, NoNewBinary, Alarm, Send
  <2>2. QED
    BY <2>1, SameIsCalm
<1>7. QED
  BY <1>1, <1>2, <1>3, <1>4, <1>5, <1>6

(***************************************************************************)
(* Every child has its entry, for any crew and any number of faults: the   *)
(* loop of ngx_process_get_status() always finds the pid.  Inductive with  *)
(* the types.                                                              *)
(***************************************************************************)
THEOREM EveryChildIsKnown == Spec => []ChildrenAreKnown
<1>1. Init => ChildrenAreKnown
  BY DEF Init, ChildrenAreKnown, Exists
<1>2. TypeOK /\ TypeOK' /\ ChildrenAreKnown /\ [Next]_vars => ChildrenAreKnown'
  <2> SUFFICES ASSUME TypeOK, TypeOK', ChildrenAreKnown, [Next]_vars,
                      NEW q \in Pids, Exists(q)'
               PROVE  \E s \in Used' : IsEntryOf(s, q)'
    BY DEF ChildrenAreKnown
  <2> USE DEF TypeOK
  <2>1. CASE Calm \/ UNCHANGED vars
    <3>1. Exists(q) /\ UNCHANGED <<pid, exited, last>>
      BY <2>1 DEF Calm, Exists, vars, table, marks, children
    <3>2. \A s : IsEntryOf(s, q)' <=> IsEntryOf(s, q)
      BY <3>1 DEF IsEntryOf, Used
    <3>3. Used' = Used
      BY <3>1 DEF Used
    <3>4. QED
      BY <3>1, <3>2, <3>3 DEF ChildrenAreKnown
  <2>2. CASE Wakeup
    <3>1. /\ Exists(q) /\ UNCHANGED <<pid, last>>
          /\ \A s \in Used : pid[s] = q => exited'[s] = exited[s]
      BY <2>2 DEF Wakeup, GetStatus, Waited, Exists, Used, ChildrenType
    <3>2. Used' = Used
      BY <3>1 DEF Used
    <3>3. PICK s \in Used : IsEntryOf(s, q)
      BY <3>1 DEF ChildrenAreKnown
    <3>4. IsEntryOf(s, q)'
      BY <3>1, <3>2, <3>3 DEF IsEntryOf
    <3>5. QED
      BY <3>2, <3>4
  <2>3. CASE ReapForget
    <3>1. Exists(q)
      BY <2>3 DEF ReapForget, Exists, children
    <3>2. PICK s \in Used : IsEntryOf(s, q)
      BY <3>1 DEF ChildrenAreKnown
    <3>3. s # i /\ i \in Used /\ UNCHANGED exited
      BY <2>3, <3>2 DEF ReapForget, Reaping, marks, IsEntryOf, Used, Slots,
                        MasterType, TableType
    <3>4. /\ s \in Used' /\ Used' \subseteq Used
          /\ pid'[s] = pid[s]
          /\ \A t \in Used : pid'[t] = pid[t] \/ pid'[t] = 0
      <4>1. CASE i = last - 1
        <5>1. last' = last - 1 /\ UNCHANGED pid
          BY <2>3, <4>1 DEF ReapForget, DropSlot
        <5>2. QED
          BY <3>3, <4>1, <5>1 DEF Used, Slots, TableType
      <4>2. CASE i # last - 1
        <5>1. pid' = [pid EXCEPT ![i] = 0] /\ UNCHANGED last
          BY <2>3, <4>2 DEF ReapForget, DropSlot
        <5>2. Used' = Used
          BY <5>1 DEF Used
        <5>3. QED
          BY <3>3, <5>1, <5>2 DEF Used, TableType
      <4>3. QED
        BY <4>1, <4>2
    <3>5. q # 0
      OBVIOUS
    <3>6. IsEntryOf(s, q)'
      BY <3>2, <3>3, <3>4, <3>5 DEF IsEntryOf
    <3>7. QED
      BY <3>4, <3>6
  <2>4. ASSUME NEW p \in Pids, NEW n, NEW r, Fork(p, r),
               Used' = Used \cup {n},
               n \in Used => pid[n] = 0 \/ exited[n] = 1,
               \A s \in Used : s # n => pid'[s] = pid[s] /\ exited'[s] = exited[s],
               pid'[n] = p, exited'[n] = 0
        PROVE  \E s \in Used' : IsEntryOf(s, q)'
    <3>1. st[p] = "free" /\ \A s \in Used : pid[s] # p
      BY <2>4 DEF Fork, FreePids
    <3>2. CASE q = p
      <4>1. IsEntryOf(n, q)'
        BY <2>4, <3>1, <3>2 DEF IsEntryOf
      <4>2. QED
        BY <2>4, <4>1
    <3>3. CASE q # p
      <4>1. Exists(q)
        BY <2>4, <3>3 DEF Fork, Exists, ChildrenType
      <4>2. PICK s \in Used : IsEntryOf(s, q)
        BY <4>1 DEF ChildrenAreKnown
      <4>3. s # n
        BY <2>4, <4>2 DEF IsEntryOf
      <4>4. IsEntryOf(s, q)'
        BY <2>4, <3>3, <4>2, <4>3 DEF IsEntryOf
      <4>5. QED
        BY <2>4, <4>2, <4>4
    <3>4. QED
      BY <3>2, <3>3
  <2>5. ASSUME NEW p \in Pids, NEW n \in 0 .. last, NEW r, NEW j,
               Spawn(p, n, r, j)
        PROVE  \E s \in Used' : IsEntryOf(s, q)'
    <3>1. /\ Fork(p, r)
          /\ Used' = Used \cup {n}
          /\ n \in Used => pid[n] = 0
          /\ pid'[n] = p /\ exited'[n] = 0
      BY <2>5 DEF Spawn, OpenSlot, IsFreeSlot, Used, Slots, TableType
    <3>2. \A s \in Used : s # n => pid'[s] = pid[s] /\ exited'[s] = exited[s]
      BY <2>5 DEF Spawn, OpenSlot, Used, TableType
    <3>3. QED
      BY <3>1, <3>2, <2>4
  <2>6. ASSUME NEW p \in Pids, ReapRespawn(p)
        PROVE  \E s \in Used' : IsEntryOf(s, q)'
    <3>1. /\ Fork(p, proc[i])
          /\ i \in Used /\ Used' = Used
          /\ exited[i] = 1
          /\ pid'[i] = p /\ exited'[i] = 0
      BY <2>6 DEF ReapRespawn, Reaping, Used, Slots, MasterType, TableType
    <3>2. \A s \in Used : s # i => pid'[s] = pid[s] /\ exited'[s] = exited[s]
      BY <2>6 DEF ReapRespawn, Used, TableType
    <3>3. Used' = Used \cup {i}
      BY <3>1
    <3>4. QED
      BY <3>1, <3>2, <3>3, <2>4
  <2>7. CASE \E p \in Pids : Forks(p)
    BY <2>5, <2>6, <2>7 DEF Forks, StartNext, ChangeBinary
  <2>8. QED
    BY <2>1, <2>2, <2>3, <2>7, Steps, PlainIsCalm, ProcessIsCalm
<1>3. QED
  BY <1>1, <1>2, TypeCorrect, PTL DEF Spec

(***************************************************************************)
(* An entry is passed over by SIGQUIT only if the process in it now was    *)
(* told to leave.  Inductive with the types.                               *)
(***************************************************************************)
THEOREM ExitingWasTold == Spec => []ExitingIsTold
<1>1. Init => ExitingIsTold
  BY DEF Init, ExitingIsTold, Used
<1>2. TypeOK /\ TypeOK' /\ ExitingIsTold /\ [Next]_vars => ExitingIsTold'
  <2> SUFFICES ASSUME TypeOK, TypeOK', ExitingIsTold, [Next]_vars,
                      NEW s \in Used', pid'[s] # 0, exited'[s] = 0,
                      exiting'[s] = 1
               PROVE  pid'[s] \in told'
    BY DEF ExitingIsTold
  <2> USE DEF TypeOK
  <2>0. s \in Slots
    BY DEF Used
  <2>1. CASE Calm \/ UNCHANGED vars
    <3>1. UNCHANGED <<pid, exited, last>> /\ told \subseteq told'
          /\ (exiting[s] = 1 \/ pid[s] \in told')
      BY <2>0, <2>1 DEF Calm, vars, table, marks, children
    <3>2. s \in Used
      BY <3>1 DEF Used
    <3>3. QED
      BY <3>1, <3>2 DEF ExitingIsTold
  <2>2. CASE Wakeup
    <3>1. UNCHANGED <<pid, last, exiting>> /\ s \in Used
      BY <2>2 DEF Wakeup, Used
    <3> DEFINE w == IF "CHLD" \in pend THEN Waited ELSE {}
    <3>2. /\ told' = told \ w
          /\ exited' = [x \in Slots |->
               IF x \in Used /\ pid[x] \in w THEN 1 ELSE exited[x]]
      BY <2>2 DEF Wakeup, GetStatus
    <3> HIDE DEF w
    <3>3. pid[s] \notin w /\ exited[s] = 0
      BY <2>0, <3>1, <3>2
    <3>4. QED
      BY <3>1, <3>2, <3>3 DEF ExitingIsTold
  <2>3. CASE ReapForget
    <3>1. UNCHANGED <<exited, exiting, told>>
      BY <2>3 DEF ReapForget, marks, children
    <3>2. s \in Used /\ pid'[s] = pid[s]
      <4>1. CASE last' = last - 1 /\ UNCHANGED pid
        BY <4>1 DEF Used, Slots, TableType
      <4>2. CASE pid' = [pid EXCEPT ![i] = 0] /\ UNCHANGED last
        BY <2>0, <4>2 DEF Used, TableType
      <4>3. QED
        BY <2>3, <4>1, <4>2 DEF ReapForget, DropSlot
    <3>3. QED
      BY <3>1, <3>2 DEF ExitingIsTold
  <2>4. ASSUME NEW p \in Pids, NEW n \in 0 .. last, NEW r, NEW j,
               Spawn(p, n, r, j)
        PROVE  pid'[s] \in told'
    <3>1. n \in Slots /\ exiting'[n] = 0
      BY <2>4 DEF Spawn, OpenSlot, Slots, TableType
    <3>2. s # n
      BY <3>1
    <3>3. /\ s \in Used /\ pid'[s] = pid[s] /\ exited'[s] = exited[s]
          /\ exiting'[s] = exiting[s]
      BY <2>0, <2>4, <3>2 DEF Spawn, OpenSlot, Used, Slots, TableType
    <3>4. pid[s] # p /\ told' = told \ {p}
      BY <2>4, <3>3 DEF Spawn, Fork, FreePids
    <3>5. QED
      BY <3>3, <3>4 DEF ExitingIsTold
  <2>5. ASSUME NEW p \in Pids, ReapRespawn(p)
        PROVE  pid'[s] \in told'
    <3>1. exiting[i] = 0 /\ UNCHANGED <<exiting, last>>
      BY <2>5 DEF ReapRespawn, MayRespawn
    <3>2. s # i /\ s \in Used
      BY <3>1 DEF Used
    <3>3. pid'[s] = pid[s] /\ exited'[s] = exited[s]
      BY <2>0, <2>5, <3>2 DEF ReapRespawn, TableType
    <3>4. pid[s] # p /\ told' = told \ {p}
      BY <2>5, <3>2 DEF ReapRespawn, Fork, FreePids
    <3>5. QED
      BY <3>1, <3>2, <3>3, <3>4 DEF ExitingIsTold
  <2>6. CASE \E p \in Pids : Forks(p)
    BY <2>4, <2>5, <2>6 DEF Forks, StartNext, ChangeBinary
  <2>7. QED
    BY <2>1, <2>2, <2>3, <2>6, Steps, PlainIsCalm, ProcessIsCalm
<1>3. QED
  BY <1>1, <1>2, TypeCorrect, PTL DEF Spec

(***************************************************************************)
(* A reload tells every process of an older configuration to leave.  The   *)
(* inductive invariant says where just_spawn may be set (only while a      *)
(* reload starts its crew, and only for processes of the new               *)
(* configuration), that an entry describes the process in it, and that     *)
(* outside that start every older process was told.                        *)
(***************************************************************************)
Reloading == mpc = "start" /\ job = "reload"

JustIsNew ==
  \A s \in Used : just[s] = 1 =>
    /\ Reloading
    /\ pid[s] # 0
    /\ detached[s] = 0
    /\ gen[pid[s]] = cfg

KindsMatch ==
  \A s \in Used : pid[s] # 0 =>
    /\ proc[s] # "binary" => detached[s] = 0
    /\ exited[s] = 0 => role[pid[s]] = proc[s]

OldAreTold ==
  ~ Reloading => \A p \in Pids :
    Exists(p) /\ role[p] # "binary" /\ gen[p] < cfg => p \in told

LEMMA ReloadFinds ==
  ASSUME TypeOK, ChildrenAreKnown, ExitingIsTold, JustIsNew, KindsMatch,
         StartedReload, NEW p \in Pids, Exists(p), role[p] # "binary",
         gen[p] < cfg
  PROVE  p \in told'
<1>1. SignalWorkers("QUIT", flag)
  BY DEF StartedReload
<1>2. PICK s \in Used : IsEntryOf(s, p)
  BY DEF ChildrenAreKnown
<1>3. pid[s] = p /\ p # 0 /\ exited[s] = 0 /\ s \in Slots
  BY <1>2 DEF IsEntryOf, Used
<1>4. detached[s] = 0
  BY <1>2, <1>3 DEF KindsMatch
<1>5. just[s] = 0
  <2>1. just[s] \in Bits
    BY <1>3 DEF TypeOK, TableType
  <2>2. just[s] # 1
    BY <1>2, <1>3 DEF JustIsNew, TypeOK, ChildrenType, MasterType
  <2>3. QED
    BY <2>1, <2>2 DEF Bits
<1>6. CASE exiting[s] = 1
  <2>1. p \in told
    BY <1>2, <1>3, <1>6 DEF ExitingIsTold
  <2>2. QED
    BY <1>1, <2>1, SignalFacts DEF Kills, Calm
<1>7. CASE exiting[s] # 1
  <2>1. s \in Targets("QUIT")
    BY <1>2, <1>3, <1>4, <1>5, <1>7 DEF Targets, Reachable
  <2>2. QED
    BY <1>1, <1>3, <2>1, SignalFacts DEF Kills
<1>8. QED
  BY <1>6, <1>7

LEMMA SignalClearsJust ==
  ASSUME TypeOK, JustIsNew, NEW sig \in Kills, NEW fl, SignalWorkers(sig, fl)
  PROVE  \A s \in Used' : just'[s] # 1
<1>1. just' = AfterSignal /\ UNCHANGED last
  BY SignalFacts DEF Calm
<1>2. SUFFICES ASSUME NEW s \in Used', just'[s] = 1 PROVE FALSE
  OBVIOUS
<1>3. s \in Used /\ s \in Slots
  BY <1>1, <1>2 DEF Used
<1>4. just[s] = 1 /\ s \notin Reachable
  BY <1>1, <1>2, <1>3 DEF AfterSignal
<1>5. QED
  BY <1>3, <1>4 DEF JustIsNew, Reachable

LEMMA PlainKeeps ==
  ASSUME TypeOK, Plain, ~ StartedReload
  PROVE  /\ Reloading => Reloading' /\ cfg' = cfg
         /\ cfg' = cfg \/ Reloading'
BY DEF Plain, StartError, StartedOrBackup, StartedReload, StartedRestart,
       Started, Top, ReapBegin, ReapSkip, Reaping, ReapRespawnError, ReapEnd,
       MasterExit, Stays, Terminate, Quit, Reconfigure, BeginStart,
       ReconfigureError, NothingToReload, Restart, Reopen, ChangeBinaryError,
       NoNewBinary, NoAccept, Alarm, Send, Reloading, cursor

\* A plain step either clears just_spawn or changes nothing in the table.
LEMMA PlainTable ==
  ASSUME TypeOK, JustIsNew, Plain
  PROVE  \/ \A s \in Used' : just'[s] # 1
         \/ UNCHANGED <<table, children>> /\ ~ StartedReload
<1>1. CASE StartedReload
  BY <1>1, SignalClearsJust DEF StartedReload, Kills
<1>2. CASE Terminate
  <2>1. LastResort(delay') \in Kills
    BY DEF LastResort, Kills
  <2>2. CASE SignalWorkers(LastResort(delay'), flag)
    BY <2>1, <2>2, SignalClearsJust
  <2>3. CASE UNCHANGED <<table, children>>
    BY <1>2, <2>3 DEF Terminate, Stays, StartedReload, Started
  <2>4. QED
    BY <1>2, <2>2, <2>3 DEF Terminate
<1>3. CASE Quit
  BY <1>3, SignalClearsJust DEF Quit, Kills
<1>4. CASE Reopen
  <2>1. CASE SignalWorkers("USR1", Clear("reopen"))
    BY <2>1, SignalClearsJust DEF Kills
  <2>2. CASE UNCHANGED <<table, children>>
    BY <1>4, <2>2 DEF Reopen, StartedReload, Started
  <2>3. QED
    BY <1>4, <2>1, <2>2 DEF Reopen
<1>5. CASE NoAccept
  <2>1. CASE SignalWorkers("QUIT", Clear("noaccept"))
    BY <2>1, SignalClearsJust DEF Kills
  <2>2. CASE UNCHANGED <<table, children>>
    BY <1>5, <2>2 DEF NoAccept, StartedReload, Started
  <2>3. QED
    BY <1>5, <2>1, <2>2 DEF NoAccept
<1>6. CASE ~ (StartedReload \/ Terminate \/ Quit \/ Reopen \/ NoAccept)
  <2>1. UNCHANGED <<table, children>>
    BY <1>6 DEF Plain, StartError, StartedOrBackup, StartedRestart, Top,
                ReapBegin, ReapSkip, ReapRespawnError, ReapEnd, MasterExit,
                Reconfigure, ReconfigureError, NothingToReload, Restart,
                ChangeBinaryError, NoNewBinary, Alarm, Send
  <2>2. QED
    BY <1>6, <2>1
<1>7. QED
  BY <1>1, <1>2, <1>3, <1>4, <1>5, <1>6

LEMMA KindsMatchStep ==
  ASSUME TypeOK, TypeOK', KindsMatch, [Next]_vars
  PROVE  KindsMatch'
<1> SUFFICES ASSUME NEW s \in Used', pid'[s] # 0
             PROVE  /\ proc'[s] # "binary" => detached'[s] = 0
                    /\ exited'[s] = 0 => role'[pid'[s]] = proc'[s]
  BY DEF KindsMatch
<1> USE DEF TypeOK
<1>0. s \in Slots
  BY DEF Used
<1>1. CASE Calm \/ UNCHANGED vars
  <2>1. UNCHANGED <<pid, exited, detached, proc, last, role>>
    BY <1>1 DEF Calm, vars, table, marks, children
  <2>2. QED
    BY <2>1 DEF KindsMatch, Used
<1>2. CASE Wakeup
  <2>1. UNCHANGED <<pid, detached, proc, last, role>>
        /\ (exited'[s] = 0 => exited[s] = 0)
    BY <1>0, <1>2 DEF Wakeup, GetStatus
  <2>2. QED
    BY <2>1 DEF KindsMatch, Used
<1>3. CASE ReapForget
  <2>1. UNCHANGED <<exited, detached, proc, role>>
    BY <1>3 DEF ReapForget, marks, children
  <2>2. s \in Used /\ pid'[s] = pid[s]
    <3>1. CASE last' = last - 1 /\ UNCHANGED pid
      BY <3>1 DEF Used, Slots, TableType
    <3>2. CASE pid' = [pid EXCEPT ![i] = 0] /\ UNCHANGED last
      BY <1>0, <3>2 DEF Used, TableType
    <3>3. QED
      BY <1>3, <3>1, <3>2 DEF ReapForget, DropSlot
  <2>3. QED
    BY <2>1, <2>2 DEF KindsMatch
<1>4. ASSUME NEW p \in Pids, NEW n \in 0 .. last, NEW r, NEW j,
             Spawn(p, n, r, j)
      PROVE  /\ proc'[s] # "binary" => detached'[s] = 0
             /\ exited'[s] = 0 => role'[pid'[s]] = proc'[s]
  <2>1. CASE s = n
    BY <1>0, <1>4, <2>1 DEF Spawn, Fork, OpenSlot, TableType, ChildrenType
  <2>2. CASE s # n
    <3>1. s \in Used /\ pid'[s] = pid[s] /\ exited'[s] = exited[s]
          /\ proc'[s] = proc[s] /\ detached'[s] = detached[s]
      BY <1>0, <1>4, <2>2 DEF Spawn, OpenSlot, Used, Slots, TableType
    <3>2. pid[s] # p /\ role' = [role EXCEPT ![p] = r]
      BY <1>4, <3>1 DEF Spawn, Fork, FreePids
    <3>3. role'[pid[s]] = role[pid[s]]
      BY <1>0, <3>1, <3>2 DEF TableType, ChildrenType
    <3>4. QED
      BY <3>1, <3>3 DEF KindsMatch
  <2>3. QED
    BY <2>1, <2>2
<1>5. ASSUME NEW p \in Pids, ReapRespawn(p)
      PROVE  /\ proc'[s] # "binary" => detached'[s] = 0
             /\ exited'[s] = 0 => role'[pid'[s]] = proc'[s]
  <2>1. UNCHANGED <<proc, detached, last>> /\ s \in Used
    BY <1>5 DEF ReapRespawn, Used
  <2>2. CASE s = i
    BY <1>0, <1>5, <2>1, <2>2
    DEF ReapRespawn, Fork, KindsMatch, TableType, ChildrenType
  <2>3. CASE s # i
    <3>1. pid'[s] = pid[s] /\ exited'[s] = exited[s]
      BY <1>0, <1>5, <2>3 DEF ReapRespawn, TableType
    <3>2. pid[s] # p /\ role' = [role EXCEPT ![p] = proc[i]]
      BY <1>5, <2>1 DEF ReapRespawn, Fork, FreePids
    <3>3. role'[pid[s]] = role[pid[s]]
      BY <1>0, <3>1, <3>2 DEF TableType, ChildrenType
    <3>4. QED
      BY <2>1, <3>1, <3>3 DEF KindsMatch
  <2>4. QED
    BY <2>2, <2>3
<1>6. CASE \E p \in Pids : Forks(p)
  BY <1>4, <1>5, <1>6 DEF Forks, StartNext, ChangeBinary
<1>7. QED
  BY <1>1, <1>2, <1>3, <1>6, Steps, PlainIsCalm, ProcessIsCalm

LEMMA JustIsNewStep ==
  ASSUME TypeOK, TypeOK', JustIsNew, [Next]_vars
  PROVE  JustIsNew'
<1> SUFFICES ASSUME NEW s \in Used', just'[s] = 1
             PROVE  Reloading' /\ pid'[s] # 0 /\ detached'[s] = 0
                    /\ gen'[pid'[s]] = cfg'
  BY DEF JustIsNew
<1> USE DEF TypeOK
<1>0. s \in Slots
  BY DEF Used
<1>1. CASE UNCHANGED vars
  BY <1>1 DEF vars, table, marks, children, cursor, JustIsNew, Used, Reloading
<1>2. CASE Plain
  <2>1. UNCHANGED <<pid, just, detached, last, gen>> /\ ~ StartedReload
    BY <1>2, PlainTable DEF table, marks, children
  <2>2. s \in Used /\ just[s] = 1
    BY <2>1 DEF Used
  <2>3. Reloading' /\ cfg' = cfg
    BY <1>2, <2>1, <2>2, PlainKeeps DEF JustIsNew
  <2>4. QED
    BY <2>1, <2>2, <2>3 DEF JustIsNew
<1>3. CASE Wakeup \/ ReapForget
  <2>1. UNCHANGED just /\ mpc # "start"
    BY <1>3 DEF Wakeup, ReapForget, Reaping, marks
  <2>2. s \in Used
    <3>1. last' <= last
      BY <1>3 DEF Wakeup, ReapForget, DropSlot, TableType
    <3>2. QED
      BY <3>1 DEF Used, Slots, TableType
  <2>3. QED
    BY <2>1, <2>2 DEF JustIsNew, Reloading
<1>4. ASSUME NEW p \in Pids, NEW n \in 0 .. last, StartNext(p, n)
      PROVE  Reloading' /\ pid'[s] # 0 /\ detached'[s] = 0
             /\ gen'[pid'[s]] = cfg'
  <2>1. /\ Spawn(p, n, Crew[i], JustSpawn) /\ Crew[i] \in Roles
        /\ UNCHANGED <<mpc, job, cfg>> /\ mpc = "start"
    BY <1>4 DEF StartNext, MasterType
  <2>2. CASE s = n
    <3>1. pid'[s] = p /\ detached'[s] = 0 /\ just'[s] = JustSpawn
      BY <1>0, <2>1, <2>2 DEF Spawn, OpenSlot, TableType, Roles
    <3>2. Reloading'
      BY <2>1, <3>1 DEF JustSpawn, Reloading
    <3>3. gen'[p] = cfg
      BY <2>1 DEF Spawn, Fork, ChildrenType
    <3>4. QED
      BY <2>1, <3>1, <3>2, <3>3
  <2>3. CASE s # n
    <3>1. s \in Used /\ pid'[s] = pid[s] /\ just'[s] = just[s]
          /\ detached'[s] = detached[s]
      BY <1>0, <2>1, <2>3 DEF Spawn, OpenSlot, Used, Slots, TableType
    <3>2. pid[s] # p /\ gen' = [gen EXCEPT ![p] = cfg]
      BY <2>1, <3>1 DEF Spawn, Fork, FreePids
    <3>3. gen'[pid[s]] = gen[pid[s]]
      BY <1>0, <3>1, <3>2 DEF TableType, ChildrenType, JustIsNew
    <3>4. QED
      BY <2>1, <3>1, <3>3 DEF JustIsNew, Reloading
  <2>4. QED
    BY <2>2, <2>3
<1>5. ASSUME NEW p \in Pids, NEW n \in 0 .. last, ChangeBinary(p, n)
      PROVE  FALSE
  <2>1. Spawn(p, n, "binary", 0) /\ mpc # "start"
    BY <1>5 DEF ChangeBinary
  <2>2. s # n
    BY <1>0, <2>1 DEF Spawn, OpenSlot, TableType
  <2>3. s \in Used /\ just'[s] = just[s]
    BY <1>0, <2>1, <2>2 DEF Spawn, OpenSlot, Used, Slots, TableType
  <2>4. QED
    BY <2>1, <2>3 DEF JustIsNew, Reloading
<1>6. ASSUME NEW p \in Pids, ReapRespawn(p)
      PROVE  FALSE
  BY <1>6 DEF ReapRespawn, Reaping, JustIsNew, Reloading, Used
<1>7. CASE \E p \in Pids : Forks(p)
  BY <1>4, <1>5, <1>6, <1>7 DEF Forks
<1>8. CASE \E p \in Pids : Process(p)
  <2>1. UNCHANGED <<pid, detached, last, gen, just, mpc, job, cfg>>
    BY <1>8, ProcessIsCalm DEF Calm
  <2>2. QED
    BY <2>1 DEF JustIsNew, Used, Reloading
<1>9. QED
  BY <1>1, <1>2, <1>3, <1>7, <1>8, Steps

LEMMA OldAreToldStep ==
  ASSUME TypeOK, TypeOK', ChildrenAreKnown, ExitingIsTold, JustIsNew,
         KindsMatch, OldAreTold, [Next]_vars
  PROVE  OldAreTold'
<1> SUFFICES ASSUME ~ Reloading', NEW q \in Pids, Exists(q)',
                    role'[q] # "binary", gen'[q] < cfg'
             PROVE  q \in told'
  BY DEF OldAreTold
<1> USE DEF TypeOK
<1>1. CASE UNCHANGED vars
  BY <1>1 DEF vars, children, cursor, OldAreTold, Reloading, Exists
<1>2. CASE StartedReload
  <2>1. Calm
    BY <1>2, PlainIsCalm DEF Plain
  <2>2. Exists(q) /\ role[q] # "binary" /\ gen[q] < cfg
    BY <1>2, <2>1 DEF Calm, Exists, StartedReload
  <2>3. QED
    BY <1>2, <2>2, ReloadFinds
<1>3. CASE Plain /\ ~ StartedReload
  <2>1. Calm
    BY <1>3, PlainIsCalm
  <2>2. ~ Reloading /\ cfg' = cfg
    BY <1>3, PlainKeeps
  <2>3. Exists(q) /\ role[q] # "binary" /\ gen[q] < cfg
    BY <2>1, <2>2 DEF Calm, Exists
  <2>4. QED
    BY <2>1, <2>2, <2>3 DEF Calm, OldAreTold
<1>4. CASE Wakeup
  <2>1. UNCHANGED <<role, gen, cfg>> /\ ~ Reloading
    BY <1>4 DEF Wakeup, Reloading
  <2> DEFINE w == IF "CHLD" \in pend THEN Waited ELSE {}
  <2>2. /\ told' = told \ w
        /\ st' = [p \in Pids |-> IF p \in w THEN "free" ELSE st[p]]
    BY <1>4 DEF Wakeup, GetStatus
  <2> HIDE DEF w
  <2>3. q \notin w /\ Exists(q)
    BY <2>2 DEF Exists
  <2>4. QED
    BY <2>1, <2>2, <2>3 DEF OldAreTold
<1>5. CASE ReapForget
  BY <1>5 DEF ReapForget, Reaping, children, OldAreTold, Reloading, Exists
<1>6. ASSUME NEW p \in Pids, NEW r, Fork(p, r), ~ Reloading, cfg' = cfg
      PROVE  q \in told'
  <2>1. q # p
    BY <1>6 DEF Fork, ChildrenType, MasterType
  <2>2. Exists(q) /\ role[q] # "binary" /\ gen[q] < cfg
    BY <1>6, <2>1 DEF Fork, Exists, ChildrenType
  <2>3. QED
    BY <1>6, <2>1, <2>2 DEF OldAreTold, Fork
<1>7. CASE \E p \in Pids : Forks(p)
  BY <1>6, <1>7 DEF Forks, ReapRespawn, Reaping, StartNext, ChangeBinary,
                    Spawn, Reloading
<1>8. CASE \E p \in Pids : Process(p)
  <2>1. Calm /\ UNCHANGED <<mpc, job, cfg, told>>
    BY <1>8, ProcessIsCalm
  <2>2. Exists(q) /\ role[q] # "binary" /\ gen[q] < cfg /\ ~ Reloading
    BY <2>1 DEF Calm, Exists, Reloading
  <2>3. QED
    BY <2>1, <2>2 DEF OldAreTold
<1>9. QED
  BY <1>1, <1>2, <1>3, <1>4, <1>5, <1>7, <1>8, Steps

(***************************************************************************)
(* Whenever the master sleeps, every process of an older configuration was *)
(* told to leave.                                                          *)
(***************************************************************************)
THEOREM ReloadPassesNobodyOver == Spec => []OldConfigRetires
<1> DEFINE Inv == JustIsNew /\ KindsMatch /\ OldAreTold
<1>1. Init => Inv
  BY DEF Init, JustIsNew, KindsMatch, OldAreTold, Exists, Used
<1>2. /\ TypeOK /\ TypeOK' /\ ChildrenAreKnown /\ ExitingIsTold
      /\ Inv /\ [Next]_vars
      => Inv'
  BY KindsMatchStep, JustIsNewStep, OldAreToldStep
<1>3. Inv => OldConfigRetires
  BY DEF OldAreTold, OldConfigRetires, Reloading
<1>4. QED
  BY <1>1, <1>2, <1>3, TypeCorrect, EveryChildIsKnown, ExitingWasTold, PTL
  DEF Spec

(***************************************************************************)
(* As long as SIGHUP does not find a new binary, live tells the truth: the *)
(* master exits only when it has no process left.  The invariant follows   *)
(* the loop of ngx_reap_children() and the value it returns.  The branch   *)
(* for a running new binary breaks it, because it starts a crew and does   *)
(* not set live; nothing else does.                                        *)
(***************************************************************************)
NoSecondCrew == job # "newbinary"

\* Without SIGUSR2 that branch is not taken.
NoUpgrade ==
  /\ flag["changebin"] = 0
  /\ flag["restart"] = 0
  /\ newbin = 0
  /\ job \in {"boot", "reload"}

IsOver(s) == pid[s] = 0 \/ exited[s] = 1 \/ detached[s] = 1

LiveIsTrue ==
  /\ mpc = "start" /\ job = "boot" => live = 1
  /\ mpc = "exited" => live = 0
  /\ mpc = "reap" /\ found = 0 => \A s \in Used : s < i => IsOver(s)
  /\ mpc \notin {"start", "reap"} /\ live = 0 => \A s \in Used : IsOver(s)

LEMMA NoUpgradeStep ==
  ASSUME TypeOK, NoUpgrade, "USR2" \notin Signals, [Next]_vars
  PROVE  NoUpgrade'
<1> USE DEF NoUpgrade, TypeOK, MasterType, cursor, upgrade
<1>1. CASE UNCHANGED vars
  BY <1>1 DEF vars
<1>2. ASSUME NEW sig \in Kills, NEW fl \in [Flags -> Bits],
             SignalWorkers(sig, fl), fl["changebin"] = 0, fl["restart"] = 0
      PROVE  flag'["changebin"] = 0 /\ flag'["restart"] = 0
  <2> DEFINE lost == {s \in Targets(sig) : exited[s] = 1}
  <2>1. flag' = IF lost = {} THEN fl ELSE [fl EXCEPT !["reap"] = 1]
    BY <1>2 DEF SignalWorkers
  <2> HIDE DEF lost
  <2>2. QED
    BY <1>2, <2>1 DEF Flags
<1>3. CASE Wakeup
  <2>1. UNCHANGED <<newbin, job>>
    BY <1>3 DEF Wakeup
  <2>2. \A sig \in pend : "changebin" \notin Raises(sig)
                         /\ "restart" \notin Raises(sig)
    BY DEF Raises
  <2>3. "changebin" \notin Raised /\ "restart" \notin Raised
    BY <2>2 DEF Raised
  <2>4. flag' = [f \in Flags |-> IF f \in Raised THEN 1 ELSE flag[f]]
    BY <1>3 DEF Wakeup
  <2>5. flag'["changebin"] = 0 /\ flag'["restart"] = 0
    BY <2>3, <2>4 DEF Flags
  <2>6. QED
    BY <2>1, <2>5
<1>4. CASE ReapForget
  <2>1. pid[i] # newbin
    BY <1>4 DEF ReapForget
  <2>2. QED
    BY <1>4, <2>1 DEF ReapForget
<1>5. CASE StartedReload
  <2>1. SignalWorkers("QUIT", flag) /\ UNCHANGED <<newbin, job>>
    BY <1>5 DEF StartedReload
  <2>2. QED
    BY <2>1, <1>2 DEF Kills
<1>6. CASE Terminate
  <2>1. UNCHANGED <<newbin, job>>
    BY <1>6 DEF Terminate
  <2>2. LastResort(delay') \in Kills
    BY DEF LastResort, Kills
  <2>3. CASE SignalWorkers(LastResort(delay'), flag)
    BY <1>2, <2>1, <2>2, <2>3
  <2>4. CASE UNCHANGED flag
    BY <2>1, <2>4
  <2>5. QED
    BY <1>6, <2>3, <2>4 DEF Terminate
<1>7. CASE Quit
  <2>1. SignalWorkers("QUIT", flag) /\ UNCHANGED <<newbin, job>>
    BY <1>7 DEF Quit
  <2>2. QED
    BY <2>1, <1>2 DEF Kills
<1>8. CASE Reopen
  <2>1. UNCHANGED <<newbin, job>>
    BY <1>8 DEF Reopen
  <2>2. CASE SignalWorkers("USR1", Clear("reopen"))
    BY <1>2, <2>1, <2>2 DEF Kills, Clear, Flags, Bits
  <2>3. CASE UNCHANGED flag
    BY <2>1, <2>3
  <2>4. QED
    BY <1>8, <2>2, <2>3 DEF Reopen
<1>9. CASE NoAccept
  <2>1. UNCHANGED <<newbin, job>>
    BY <1>9 DEF NoAccept
  <2>2. CASE SignalWorkers("QUIT", Clear("noaccept"))
    BY <1>2, <2>1, <2>2 DEF Kills, Clear, Flags, Bits
  <2>3. CASE UNCHANGED flag
    BY <2>1, <2>3
  <2>4. QED
    BY <1>9, <2>2, <2>3 DEF NoAccept
<1>10. CASE \E p \in Pids : Forks(p)
  BY <1>10 DEF Forks, StartNext, ChangeBinary, ReapRespawn
<1>11. CASE \E p \in Pids : Process(p)
  BY <1>11 DEF Process, Obey, Drained, Loaded, BinaryExits, InitFails, Crash,
               Hang
<1>12. CASE /\ Plain
            /\ ~ (StartedReload \/ Terminate \/ Quit \/ Reopen \/ NoAccept)
  BY <1>12 DEF Plain, StartError, StartedOrBackup, StartedRestart, Top,
               ReapBegin, ReapSkip, ReapRespawnError, ReapEnd, MasterExit,
               Reconfigure, BeginStart, ReconfigureError, NothingToReload,
               Restart, ChangeBinaryError, NoNewBinary, Alarm, Send, Clear,
               Flags
<1>13. QED
  BY <1>1, <1>3, <1>4, <1>5, <1>6, <1>7, <1>8, <1>9, <1>10, <1>11, <1>12,
     Steps

LEMMA LiveIsTrueStep ==
  ASSUME TypeOK, TypeOK', NoSecondCrew, LiveIsTrue, [Next]_vars
  PROVE  LiveIsTrue'
<1> USE DEF TypeOK, MasterType
<1>1. ASSUME UNCHANGED <<pid, exited, detached, last>>
      PROVE  Used' = Used /\ \A s \in Used : IsOver(s)' <=> IsOver(s)
  BY <1>1 DEF Used, IsOver
<1>2. CASE UNCHANGED <<pid, exited, detached, last, mpc, job, live, found, i>>
  BY <1>1, <1>2 DEF LiveIsTrue
<1>3. ASSUME Plain
      PROVE  UNCHANGED <<pid, exited, detached, last>>
  BY <1>3, PlainIsCalm DEF Calm
<1>4. CASE ReapBegin
  <2>1. Plain
    BY <1>4 DEF Plain
  <2>2. CASE mpc' = "reap"
    BY <1>1, <1>3, <1>4, <2>1, <2>2 DEF ReapBegin, LiveIsTrue, Used, Slots
  <2>3. CASE mpc' = "check" /\ UNCHANGED live
    BY <1>1, <1>3, <1>4, <2>1, <2>3 DEF ReapBegin, LiveIsTrue
  <2>4. QED
    BY <1>4, <2>2, <2>3 DEF ReapBegin
<1>5. CASE ReapSkip \/ ReapRespawnError
  <2>1. Plain
    BY <1>5 DEF Plain
  <2>2. mpc = "reap" /\ i < last /\ UNCHANGED mpc /\ i' = i + 1
    BY <1>5 DEF ReapSkip, ReapRespawnError, Reaping
  <2>3. found' = 0 => found = 0 /\ IsOver(i)
    BY <1>5 DEF ReapSkip, ReapRespawnError, IsOver, TableType, Bits, Used,
                Slots, Reaping
  <2>4. \A s \in Used : s < i + 1 => s < i \/ s = i
    BY DEF Used, Slots
  <2>5. QED
    BY <1>1, <1>3, <2>1, <2>2, <2>3, <2>4 DEF LiveIsTrue
<1>6. CASE ReapEnd
  <2>1. Plain
    BY <1>6 DEF Plain
  <2>2. \A s \in Used : s < i
    BY <1>6 DEF ReapEnd, Used, Slots, TableType
  <2>3. QED
    BY <1>1, <1>3, <1>6, <2>1, <2>2 DEF ReapEnd, LiveIsTrue
<1>7. CASE MasterExit
  <2>1. Plain
    BY <1>7 DEF Plain
  <2>2. QED
    BY <1>1, <1>3, <1>7, <2>1 DEF MasterExit, LiveIsTrue
<1>8. CASE Wakeup
  <2>1. /\ UNCHANGED <<pid, detached, last, live>>
        /\ mpc = "suspend" /\ mpc' = "wake"
        /\ \A s \in Slots : exited[s] = 1 => exited'[s] = 1
    BY <1>8 DEF Wakeup, GetStatus, TableType
  <2>2. Used' = Used /\ \A s \in Used : IsOver(s) => IsOver(s)'
    BY <2>1 DEF Used, IsOver
  <2>3. QED
    BY <2>1, <2>2 DEF LiveIsTrue
<1>9. CASE ReapForget
  <2>1. /\ mpc = "reap" /\ UNCHANGED <<mpc, found, exited, detached>>
        /\ i' = i + 1 /\ exited[i] = 1
    BY <1>9 DEF ReapForget, Reaping, marks
  <2>2. \A s \in Used' : s \in Used /\ (IsOver(s) => IsOver(s)')
    <3>1. CASE last' = last - 1 /\ UNCHANGED pid
      BY <2>1, <3>1 DEF Used, Slots, TableType, IsOver
    <3>2. CASE pid' = [pid EXCEPT ![i] = 0] /\ UNCHANGED last
      BY <2>1, <3>2 DEF Used, Slots, TableType, IsOver
    <3>3. QED
      BY <1>9, <3>1, <3>2 DEF ReapForget, DropSlot
  <2>3. \A s \in Used : s < i + 1 => s < i \/ s = i
    BY DEF Used, Slots
  <2>4. QED
    BY <2>1, <2>2, <2>3 DEF LiveIsTrue, IsOver
<1>10. CASE \E p \in Pids : Forks(p)
  <2>1. ASSUME NEW p \in Pids, NEW s \in 0 .. last, StartNext(p, s)
        PROVE  LiveIsTrue'
    BY <2>1 DEF StartNext, LiveIsTrue
  <2>2. ASSUME NEW p \in Pids, NEW n \in 0 .. last, ChangeBinary(p, n)
        PROVE  LiveIsTrue'
    <3>1. /\ mpc = "changebin" /\ mpc' = "noaccept" /\ UNCHANGED live
          /\ Spawn(p, n, "binary", 0)
      BY <2>2 DEF ChangeBinary
    <3>2. ASSUME NEW s \in Used', \A u \in Used : IsOver(u)
          PROVE  IsOver(s)'
      <4>1. CASE s = n
        BY <3>1, <3>2, <4>1 DEF Spawn, OpenSlot, Used, IsOver, TableType
      <4>2. CASE s # n
        <5>1. /\ s \in Used /\ pid'[s] = pid[s] /\ exited'[s] = exited[s]
              /\ detached'[s] = detached[s]
          BY <3>1, <3>2, <4>2 DEF Spawn, OpenSlot, Used, Slots, TableType
        <5>2. QED
          BY <3>2, <5>1 DEF IsOver
      <4>3. QED
        BY <4>1, <4>2
    <3>3. QED
      BY <3>1, <3>2 DEF LiveIsTrue
  <2>3. ASSUME NEW p \in Pids, ReapRespawn(p)
        PROVE  LiveIsTrue'
    BY <2>3 DEF ReapRespawn, Reaping, LiveIsTrue
  <2>4. QED
    BY <1>10, <2>1, <2>2, <2>3 DEF Forks
<1>11. CASE \E p \in Pids : Process(p)
  <2>1. UNCHANGED <<pid, exited, detached, last, mpc, job, live, found, i>>
    BY <1>11 DEF Process, Obey, Drained, Loaded, BinaryExits, InitFails,
                 Crash, Hang, table, marks, cursor
  <2>2. QED
    BY <1>2, <2>1
<1>12. CASE Alarm \/ \E sig \in Signals : Send(sig)
  <2>1. UNCHANGED <<pid, exited, detached, last, mpc, job, live, found, i>>
    BY <1>12 DEF Alarm, Send, table, marks, cursor
  <2>2. QED
    BY <1>2, <2>1
<1>13. CASE UNCHANGED vars
  BY <1>2, <1>13 DEF vars, table, marks, cursor
<1>14. CASE \/ StartError \/ StartedOrBackup \/ StartedReload
            \/ StartedRestart \/ Top \/ Terminate \/ Quit \/ Reconfigure
            \/ ReconfigureError \/ NothingToReload \/ Restart \/ Reopen
            \/ ChangeBinaryError \/ NoNewBinary \/ NoAccept
  <2>1. Plain
    BY <1>14 DEF Plain
  <2>2. /\ mpc' # "reap" /\ mpc' # "exited"
        /\ mpc' = "start" =>
             \/ mpc = "start" /\ UNCHANGED <<job, live>>
             \/ job' # "boot"
        /\ mpc' # "start" =>
             \/ live' = 1
             \/ UNCHANGED live /\ mpc \notin {"start", "reap"}
    BY <1>14 DEF StartError, StartedOrBackup, StartedReload, StartedRestart,
                 Started, Top, Terminate, Stays, Quit, Reconfigure, BeginStart,
                 ReconfigureError, NothingToReload, Restart, Reopen,
                 ChangeBinaryError, NoNewBinary, NoAccept, NoSecondCrew,
                 LiveIsTrue
  <2>3. QED
    BY <1>1, <1>3, <2>1, <2>2 DEF LiveIsTrue
<1>15. QED
  BY <1>4, <1>5, <1>6, <1>7, <1>8, <1>9, <1>10, <1>11, <1>12, <1>13, <1>14,
     Steps DEF Plain

(***************************************************************************)
(* The master exits only after every process it has forked, unless SIGHUP  *)
(* was taken while a new binary was running.                               *)
(***************************************************************************)
THEOREM ShutdownLeavesNobody ==
  Spec /\ []NoSecondCrew => []MasterLeavesNobody
<1>1. Init => LiveIsTrue /\ KindsMatch
  BY DEF Init, LiveIsTrue, KindsMatch, Used
<1>2. TypeOK /\ TypeOK' /\ NoSecondCrew /\ LiveIsTrue /\ [Next]_vars
        => LiveIsTrue'
  BY LiveIsTrueStep
<1>3. TypeOK /\ TypeOK' /\ KindsMatch /\ [Next]_vars => KindsMatch'
  BY KindsMatchStep
<1>4. TypeOK /\ ChildrenAreKnown /\ KindsMatch /\ LiveIsTrue
        => MasterLeavesNobody
  <2> SUFFICES ASSUME TypeOK, ChildrenAreKnown, KindsMatch, LiveIsTrue,
                      mpc = "exited", NEW p \in Pids, role[p] # "binary",
                      st[p] \notin Gone
               PROVE  FALSE
    BY DEF MasterLeavesNobody
  <2>1. PICK s \in Used : pid[s] = p /\ exited[s] = 0
    BY DEF ChildrenAreKnown, Exists, IsEntryOf, Gone
  <2>2. pid[s] # 0
    BY <2>1, PidsAssumption
  <2>3. detached[s] = 0
    BY <2>1, <2>2 DEF KindsMatch
  <2>4. IsOver(s)
    BY DEF LiveIsTrue
  <2>5. QED
    BY <2>1, <2>2, <2>3, <2>4 DEF IsOver
<1>5. QED
  BY <1>1, <1>2, <1>3, <1>4, TypeCorrect, EveryChildIsKnown, PTL DEF Spec

(***************************************************************************)
(* If SIGUSR2 is never sent, no SIGHUP starts a second crew: what the      *)
(* other theorems assume then holds.                                       *)
(***************************************************************************)
THEOREM UpgradeIsNeeded ==
  ASSUME "USR2" \notin Signals
  PROVE  Spec => []NoSecondCrew
<1>1. Init => NoUpgrade
  BY DEF Init, NoUpgrade, Flags
<1>2. TypeOK /\ NoUpgrade /\ [Next]_vars => NoUpgrade'
  BY NoUpgradeStep
<1>3. NoUpgrade => NoSecondCrew
  BY DEF NoUpgrade, NoSecondCrew
<1>4. QED
  BY <1>1, <1>2, <1>3, TypeCorrect, PTL DEF Spec

(***************************************************************************)
(* If no attempt to start a new binary fails, SIGHUP reads the             *)
(* configuration whenever no new binary is running: only the               *)
(* NGX_INVALID_PID that a failed attempt leaves in ngx_new_binary is taken *)
(* for one.                                                                *)
(***************************************************************************)
THEOREM HupReloadsWithoutFailure ==
  Spec /\ [][~ ChangeBinaryError]_vars => HupReloads
<1> DEFINE Valid == newbin # -1
<1>1. Init => Valid
  BY DEF Init
<1>2. TypeOK /\ Valid /\ [Next]_vars /\ [~ ChangeBinaryError]_vars => Valid'
  <2> SUFFICES ASSUME TypeOK, Valid, [Next]_vars, [~ ChangeBinaryError]_vars
               PROVE  Valid'
    OBVIOUS
  <2>1. CASE newbin' = newbin
    BY <2>1
  <2>2. CASE UNCHANGED vars
    BY <2>1, <2>2 DEF vars, upgrade
  <2>3. CASE Plain
    BY <2>1, <2>2, <2>3
    DEF Plain, StartError, StartedOrBackup, StartedReload, StartedRestart,
        Top, ReapBegin, ReapSkip, ReapRespawnError, ReapEnd, MasterExit,
        Terminate, Quit, Reconfigure, ReconfigureError, NothingToReload,
        Restart, Reopen, NoNewBinary, NoAccept, Alarm, Send, upgrade
  <2>4. CASE Wakeup
    BY <2>1, <2>4 DEF Wakeup, upgrade
  <2>5. CASE ReapForget
    BY <2>1, <2>5 DEF ReapForget, upgrade
  <2>6. CASE \E p \in Pids : Forks(p)
    BY <2>1, <2>6 DEF Forks, StartNext, ReapRespawn, ChangeBinary, upgrade
  <2>7. CASE \E p \in Pids : Process(p)
    BY <2>1, <2>7 DEF Process, Obey, Drained, Loaded, BinaryExits, InitFails,
                      Crash, Hang, upgrade
  <2>8. QED
    BY <2>2, <2>3, <2>4, <2>5, <2>6, <2>7, Steps
<1>3. TypeOK /\ Valid /\ [Next]_vars =>
        [mpc = "check" /\ mpc' = "start" /\ newbin \notin Pids
           => job' = "reload"]_vars
  <2> SUFFICES ASSUME TypeOK, Valid, [Next]_vars, ~ UNCHANGED vars,
                      mpc = "check", mpc' = "start", newbin \notin Pids
               PROVE  job' = "reload"
    OBVIOUS
  <2>1. newbin = 0
    BY DEF TypeOK, MasterType
  <2>2. CASE Plain
    BY <2>1, <2>2
    DEF Plain, StartError, StartedOrBackup, StartedReload, StartedRestart,
        Started, Top, ReapBegin, ReapSkip, Reaping, ReapRespawnError, ReapEnd,
        MasterExit, Terminate, Quit, Reconfigure, BeginStart,
        ReconfigureError, NothingToReload, Restart, Reopen, ChangeBinaryError,
        NoNewBinary, NoAccept, Alarm, Send
  <2>3. CASE \E p \in Pids : Forks(p)
    BY <2>3 DEF Forks, StartNext, ReapRespawn, Reaping, ChangeBinary
  <2>4. CASE \E p \in Pids : Process(p)
    BY <2>4 DEF Process, Obey, Drained, Loaded, BinaryExits, InitFails, Crash,
                Hang
  <2>5. QED
    BY <2>2, <2>3, <2>4, Steps DEF Wakeup, ReapForget, Reaping
<1>4. QED
  BY <1>1, <1>2, <1>3, TypeCorrect, PTL DEF Spec, HupReloads

(***************************************************************************)
(* Nobody is missed: a process that has exited and was not waited for has  *)
(* left SIGCHLD pending, so that the next sigsuspend() returns at once.    *)
(* One SIGCHLD stands for many exits, and ngx_process_get_status() takes   *)
(* them all.  Inductive with the types.                                    *)
(***************************************************************************)
Noticed ==
  /\ pend \subseteq pend'
  /\ \A p \in Pids : st'[p] \in {"zombie", "fatal"} =>
                       st'[p] = st[p] \/ "CHLD" \in pend'

LEMMA SignalIsNoticed ==
  ASSUME TypeOK, NEW sig, NEW fl, SignalWorkers(sig, fl)
  PROVE  Noticed
<1> DEFINE lost == {s \in Targets(sig) : exited[s] = 1}
           sent == Targets(sig) \ lost
           hit == {pid[s] : s \in sent}
           dies == IF sig = "KILL" THEN {p \in hit : st[p] \notin Gone} ELSE {}
<1>1. /\ st' = [p \in Pids |-> IF p \in dies THEN "zombie" ELSE st[p]]
      /\ pend' = IF dies = {} THEN pend ELSE pend \cup {"CHLD"}
  BY DEF SignalWorkers
<1> HIDE DEF dies
<1>2. QED
  BY <1>1 DEF Noticed

LEMMA PlainIsNoticed ==
  ASSUME TypeOK, Plain
  PROVE  Noticed
<1>1. CASE UNCHANGED st /\ pend \subseteq pend'
  BY <1>1 DEF Noticed
<1>2. CASE UNCHANGED <<children, pend>>
  BY <1>1, <1>2 DEF children
<1>3. CASE \E sig, fl : SignalWorkers(sig, fl)
  BY <1>3, SignalIsNoticed
<1>4. CASE StartedReload \/ Terminate \/ Quit \/ Reopen \/ NoAccept
  BY <1>2, <1>3, <1>4 DEF StartedReload, Terminate, Quit, Reopen, NoAccept
<1>5. CASE Alarm \/ \E sig \in Signals : Send(sig)
  BY <1>1, <1>5 DEF Alarm, Send, children
<1>6. CASE ~ (StartedReload \/ Terminate \/ Quit \/ Reopen \/ NoAccept)
           /\ ~ (Alarm \/ \E sig \in Signals : Send(sig))
  <2>1. UNCHANGED <<children, pend>>
    BY <1>6 DEF Plain, StartError, StartedOrBackup, StartedRestart, Top,
                ReapBegin, ReapSkip, ReapRespawnError, ReapEnd, MasterExit,
                Reconfigure, ReconfigureError, NothingToReload, Restart,
                ChangeBinaryError, NoNewBinary
  <2>2. QED
    BY <1>2, <2>1
<1>7. QED
  BY <1>4, <1>5, <1>6

THEOREM EveryExitIsNoticed == Spec => []ZombieIsPending
<1>1. Init => ZombieIsPending
  BY DEF Init, ZombieIsPending
<1>2. TypeOK /\ ZombieIsPending /\ [Next]_vars => ZombieIsPending'
  <2> SUFFICES ASSUME TypeOK, ZombieIsPending, [Next]_vars, mpc' # "exited",
                      NEW p \in Pids, st'[p] \in {"zombie", "fatal"}
               PROVE  "CHLD" \in pend'
    BY DEF ZombieIsPending
  <2>1. CASE UNCHANGED vars
    BY <2>1 DEF vars, children, ZombieIsPending
  <2>2. CASE Plain
    <3>1. mpc # "exited"
      BY <2>2 DEF Plain, StartError, StartedOrBackup, StartedReload,
                  StartedRestart, Started, Top, ReapBegin, ReapSkip, Reaping,
                  ReapRespawnError, ReapEnd, MasterExit, Stays, Terminate,
                  Quit, Reconfigure, ReconfigureError, NothingToReload,
                  Restart, Reopen, ChangeBinaryError, NoNewBinary, NoAccept,
                  Alarm, Send
    <3>2. QED
      BY <2>2, <3>1, PlainIsNoticed DEF Noticed, ZombieIsPending
  <2>3. CASE Wakeup
    <3> DEFINE w == IF "CHLD" \in pend THEN Waited ELSE {}
    <3>1. st' = [x \in Pids |-> IF x \in w THEN "free" ELSE st[x]]
          /\ mpc = "suspend"
      BY <2>3 DEF Wakeup, GetStatus
    <3>2. p \notin w /\ st[p] \in {"zombie", "fatal"}
      BY <3>1
    <3>3. "CHLD" \in pend
      BY <3>1, <3>2 DEF ZombieIsPending
    <3>4. QED
      BY <3>2, <3>3 DEF Waited
  <2>4. CASE ReapForget
    BY <2>4 DEF ReapForget, Reaping, children, ZombieIsPending
  <2>5. ASSUME NEW q \in Pids, NEW r, Fork(q, r), UNCHANGED pend,
               mpc # "exited"
        PROVE  "CHLD" \in pend'
    <3>1. p # q
      BY <2>5 DEF Fork, TypeOK, ChildrenType
    <3>2. st'[p] = st[p]
      BY <2>5, <3>1 DEF Fork, TypeOK, ChildrenType
    <3>3. QED
      BY <2>5, <3>2 DEF ZombieIsPending
  <2>6. CASE \E q \in Pids : Forks(q)
    BY <2>5, <2>6 DEF Forks, ReapRespawn, Reaping, StartNext, ChangeBinary,
                      Spawn
  <2>7. ASSUME NEW q \in Pids, Process(q) PROVE "CHLD" \in pend'
    <3>1. (\E x : Becomes(q, x)) /\ UNCHANGED mpc
      BY <2>7 DEF Process, Obey, Drained, Loaded, BinaryExits, InitFails,
                  Crash, Hang
    <3>2. PICK x : Becomes(q, x)
      BY <3>1
    <3>3. CASE p = q
      <4>1. st'[p] = x
        BY <3>2, <3>3 DEF Becomes, TypeOK, ChildrenType
      <4>2. QED
        BY <3>1, <3>2, <4>1 DEF Becomes, Gone
    <3>4. CASE p # q
      <4>1. st'[p] = st[p] /\ pend \subseteq pend'
        BY <3>2, <3>4 DEF Becomes, TypeOK, ChildrenType
      <4>2. QED
        BY <3>1, <4>1 DEF ZombieIsPending
    <3>5. QED
      BY <3>3, <3>4
  <2>8. QED
    BY <2>1, <2>2, <2>3, <2>4, <2>6, <2>7, Steps
<1>3. QED
  BY <1>1, <1>2, TypeCorrect, PTL DEF Spec

(***************************************************************************)
(* The master does not sleep on a request.  The invariant follows the body *)
(* of the loop: behind each branch the flag it looks at is 0, unless the   *)
(* master leaves.                                                          *)
(***************************************************************************)
Booting == mpc = "start" /\ job = "boot"

Restarting == mpc = "start" /\ job = "restart"

InOrder ==
  ~ Leaving =>
    /\ mpc \in {"start", "restart", "reopen", "changebin", "noaccept"}
         => flag["reconfigure"] = 0
    /\ Booting \/ Restarting \/ mpc \in {"reopen", "changebin", "noaccept"}
         => flag["restart"] = 0
    /\ Booting \/ mpc \in {"changebin", "noaccept"} => flag["reopen"] = 0
    /\ Booting \/ mpc = "noaccept" => flag["changebin"] = 0
    /\ Booting => flag["noaccept"] = 0

LEMMA SignalFlags ==
  ASSUME NEW sig, NEW fl \in [Flags -> Bits], SignalWorkers(sig, fl)
  PROVE  \A f \in Flags : f # "reap" => flag'[f] = fl[f]
<1> DEFINE lost == {s \in Targets(sig) : exited[s] = 1}
<1>1. flag' = IF lost = {} THEN fl ELSE [fl EXCEPT !["reap"] = 1]
  BY DEF SignalWorkers
<1> HIDE DEF lost
<1>2. QED
  BY <1>1

LEMMA InOrderStep ==
  ASSUME TypeOK, InOrder, [Next]_vars
  PROVE  InOrder'
<1> USE DEF TypeOK, MasterType, cursor
<1>1. CASE /\ flag["terminate"] = 1 => flag'["terminate"] = 1
           /\ flag["quit"] = 1 => flag'["quit"] = 1
           /\ Leaving
  BY <1>1 DEF InOrder, Leaving, Flags, Bits
<1>2. CASE UNCHANGED <<flag, mpc, job>>
  BY <1>2 DEF InOrder, Leaving, Booting, Restarting
<1>3. CASE UNCHANGED vars
  BY <1>2, <1>3 DEF vars
<1>4. CASE StartedReload
  <2>1. \A f \in Flags : f # "reap" => flag'[f] = flag[f]
    BY <1>4, SignalFlags DEF StartedReload
  <2>2. mpc = "start" /\ mpc' = "restart"
    BY <1>4 DEF StartedReload, Started
  <2>3. QED
    BY <2>1, <2>2 DEF InOrder, Leaving, Booting, Restarting, Flags
<1>5. CASE Terminate \/ Quit
  <2>1. \A f \in Flags : f # "reap" => flag'[f] = flag[f]
    BY <1>5, SignalFlags DEF Terminate, Quit
  <2>2. Leaving
    BY <1>5 DEF Terminate, Quit, Leaving
  <2>3. QED
    BY <1>1, <2>1, <2>2 DEF Flags
<1>6. CASE Reopen
  <2>1. \A f \in Flags : f \notin {"reap", "reopen"} => flag'[f] = flag[f]
    <3>1. Clear("reopen") \in [Flags -> Bits]
      BY DEF Clear, Bits
    <3>2. \A f \in Flags : f # "reopen" => Clear("reopen")[f] = flag[f]
      BY DEF Clear
    <3>3. QED
      BY <1>6, <3>1, <3>2, SignalFlags DEF Reopen
  <2>2. flag'["reopen"] = 0
    <3>1. Clear("reopen") \in [Flags -> Bits] /\ Clear("reopen")["reopen"] = 0
      BY DEF Clear, Bits, Flags
    <3>2. QED
      BY <1>6, <3>1, SignalFlags DEF Reopen, Flags
  <2>3. mpc = "reopen" /\ mpc' = "changebin"
    BY <1>6 DEF Reopen
  <2>4. QED
    BY <2>1, <2>2, <2>3 DEF InOrder, Leaving, Booting, Restarting, Flags
<1>7. CASE NoAccept
  <2>1. mpc' = "top"
    BY <1>7 DEF NoAccept
  <2>2. QED
    BY <2>1 DEF InOrder, Booting, Restarting
<1>8. CASE Wakeup
  <2>1. mpc' = "wake"
    BY <1>8 DEF Wakeup
  <2>2. QED
    BY <2>1 DEF InOrder, Booting, Restarting
<1>9. CASE ReapForget
  <2>1. mpc' = "reap"
    BY <1>9 DEF ReapForget, Reaping
  <2>2. QED
    BY <2>1 DEF InOrder, Booting, Restarting
<1>10. ASSUME NEW p \in Pids, Forks(p) PROVE InOrder'
  <2>1. CASE \E s \in 0 .. last : ChangeBinary(p, s)
    <3>1. /\ mpc = "changebin" /\ mpc' = "noaccept"
          /\ flag'["changebin"] = 0
          /\ \A f \in Flags : f # "changebin" => flag'[f] = flag[f]
      BY <2>1 DEF ChangeBinary, Clear, Flags
    <3>2. QED
      BY <3>1 DEF InOrder, Leaving, Booting, Restarting, Flags
  <2>2. QED
    BY <1>2, <1>10, <2>1 DEF Forks, StartNext, ReapRespawn
<1>11. CASE \E p \in Pids : Process(p)
  BY <1>2, <1>11 DEF Process, Obey, Drained, Loaded, BinaryExits, InitFails,
                     Crash, Hang
<1>12. CASE Alarm \/ (\E sig \in Signals : Send(sig)) \/ StartError
            \/ ReapSkip \/ ReapRespawnError
  BY <1>2, <1>12 DEF Alarm, Send, StartError, ReapSkip, ReapRespawnError
<1>13. CASE ReapBegin \/ ReapEnd \/ MasterExit
  <2>1. mpc' \in {"reap", "check", "exited"}
    BY <1>13 DEF ReapBegin, ReapEnd, MasterExit
  <2>2. QED
    BY <2>1 DEF InOrder, Booting, Restarting
<1>14. CASE Top
  <2>1. mpc' = "suspend"
    BY <1>14 DEF Top
  <2>2. QED
    BY <2>1 DEF InOrder, Booting, Restarting
<1>15. CASE ReconfigureError
  <2>1. mpc' = "top"
    BY <1>15 DEF ReconfigureError
  <2>2. QED
    BY <2>1 DEF InOrder, Booting, Restarting
<1>16. CASE Reconfigure
  <2>1. /\ mpc' = "start" /\ job' \in {"reload", "newbinary"}
        /\ flag'["reconfigure"] = 0
    BY <1>16 DEF Reconfigure, BeginStart, Clear, Flags
  <2>2. QED
    BY <2>1 DEF InOrder, Booting, Restarting
<1>17. CASE StartedOrBackup \/ StartedRestart \/ NothingToReload
            \/ NoNewBinary
  <2>1. UNCHANGED flag
    BY <1>17 DEF StartedOrBackup, StartedRestart, NothingToReload, NoNewBinary
  <2>2. CASE StartedOrBackup
    <3>1. mpc' = "top"
      BY <2>2 DEF StartedOrBackup
    <3>2. QED
      BY <3>1 DEF InOrder, Booting, Restarting
  <2>3. CASE StartedRestart
    <3>1. mpc = "start" /\ job = "restart" /\ mpc' = "reopen"
      BY <2>3 DEF StartedRestart, Started
    <3>2. QED
      BY <2>1, <3>1 DEF InOrder, Leaving, Booting, Restarting
  <2>4. CASE NothingToReload
    <3>1. flag["reconfigure"] = 0 /\ mpc' = "restart"
      BY <2>4 DEF NothingToReload
    <3>2. QED
      BY <2>1, <3>1 DEF InOrder, Leaving, Booting, Restarting
  <2>5. CASE NoNewBinary
    <3>1. flag["changebin"] = 0 /\ mpc = "changebin" /\ mpc' = "noaccept"
      BY <2>5 DEF NoNewBinary
    <3>2. QED
      BY <2>1, <3>1 DEF InOrder, Leaving, Booting, Restarting
  <2>6. QED
    BY <1>17, <2>2, <2>3, <2>4, <2>5
<1>18. CASE Restart
  <2>1. /\ mpc = "restart"
        /\ (mpc' = "start" /\ job' = "restart") \/ mpc' = "reopen"
        /\ flag'["restart"] = 0
        /\ \A f \in Flags : f # "restart" => flag'[f] = flag[f]
    BY <1>18 DEF Restart, BeginStart, Clear, Flags, Bits
  <2>2. QED
    BY <2>1 DEF InOrder, Leaving, Booting, Restarting, Flags
<1>19. CASE ChangeBinaryError
  <2>1. /\ mpc = "changebin" /\ mpc' = "noaccept"
        /\ flag'["changebin"] = 0
        /\ \A f \in Flags : f # "changebin" => flag'[f] = flag[f]
    BY <1>19 DEF ChangeBinaryError, Clear, Flags
  <2>2. QED
    BY <2>1 DEF InOrder, Leaving, Booting, Restarting, Flags
<1>20. QED
  BY <1>3, <1>4, <1>5, <1>6, <1>7, <1>8, <1>9, <1>10, <1>11, <1>12, <1>13,
     <1>14, <1>15, <1>16, <1>17, <1>18, <1>19, Steps DEF Plain

LEMMA InOrderAlways == Spec => []InOrder
<1>1. Init => InOrder
  BY DEF Init, InOrder, Flags
<1>2. TypeOK /\ InOrder /\ [Next]_vars => InOrder'
  BY InOrderStep
<1>3. QED
  BY <1>1, <1>2, TypeCorrect, PTL DEF Spec

(***************************************************************************)
(* A round of the loop that leaves a request behind is one that SIGHUP cut *)
(* short: the only places that lead to the top of the loop are the end of  *)
(* its body, where every flag has been looked at, the shutdown, the first  *)
(* start, and the two branches that end with "continue".                   *)
(***************************************************************************)
LEMMA RoundIsWhole ==
  ASSUME TypeOK, InOrder, [Next]_vars, mpc # "top", mpc' = "top", ~ Leaving,
         NEW f \in Requests, flag'[f] = 1
  PROVE  \/ mpc = "check" /\ flag["reconfigure"] = 1 /\ newbin = 0
         \/ mpc = "start" /\ job = "newbinary"
<1> USE DEF TypeOK, MasterType
<1>1. CASE UNCHANGED mpc
  BY <1>1
<1>2. CASE StartedOrBackup
  <2>1. CASE job = "boot"
    <3>1. Booting /\ flag'[f] = flag[f]
      BY <1>2, <2>1 DEF StartedOrBackup, Started, Booting
    <3>2. flag[f] = 0
      BY <3>1 DEF InOrder, Requests, Booting
    <3>3. QED
      BY <3>1, <3>2
  <2>2. QED
    BY <1>2, <2>1 DEF StartedOrBackup, Started
<1>3. CASE ReconfigureError
  BY <1>3 DEF ReconfigureError, Stays
<1>4. CASE Terminate \/ Quit
  BY <1>4 DEF Terminate, Quit, Leaving
<1>5. CASE NoAccept
  <2>1. \A g \in Flags : g \notin {"reap", "noaccept"} => flag'[g] = flag[g]
    <3>1. Clear("noaccept") \in [Flags -> Bits]
      BY DEF Clear, Bits
    <3>2. \A g \in Flags : g # "noaccept" => Clear("noaccept")[g] = flag[g]
      BY DEF Clear
    <3>3. QED
      BY <1>5, <3>1, <3>2, SignalFlags DEF NoAccept
  <2>2. flag'["noaccept"] = 0
    <3>1. /\ Clear("noaccept") \in [Flags -> Bits]
          /\ Clear("noaccept")["noaccept"] = 0
      BY DEF Clear, Bits, Flags
    <3>2. QED
      BY <1>5, <3>1, SignalFlags DEF NoAccept, Flags
  <2>3. mpc = "noaccept"
    BY <1>5 DEF NoAccept
  <2>4. flag'[f] = 0
    BY <2>1, <2>2, <2>3 DEF InOrder, Requests, Flags
  <2>5. QED
    BY <2>4
<1>6. CASE Plain
  BY <1>1, <1>2, <1>3, <1>4, <1>5, <1>6
     DEF Plain, StartError, StartedReload, StartedRestart, Top, ReapBegin,
         ReapSkip, ReapRespawnError, ReapEnd, MasterExit, Reconfigure,
         BeginStart, NothingToReload, Restart, Reopen, ChangeBinaryError,
         NoNewBinary, Alarm, Send
<1>7. CASE Wakeup \/ ReapForget
  BY <1>1, <1>7 DEF Wakeup, ReapForget, Reaping
<1>8. CASE \E p \in Pids : Forks(p)
  BY <1>1, <1>8 DEF Forks, StartNext, ReapRespawn, ChangeBinary
<1>9. CASE \E p \in Pids : Process(p)
  BY <1>1, <1>9 DEF Process, Obey, Drained, Loaded, BinaryExits, InitFails,
                    Crash, Hang
<1>10. QED
  BY <1>1, <1>6, <1>7, <1>8, <1>9, Steps DEF vars

(***************************************************************************)
(* Only SIGHUP postpones: whatever signals sigsuspend() delivers together, *)
(* a round that neither met a bad configuration nor a SIGUSR2 before it    *)
(* carries out all of them.                                                *)
(***************************************************************************)
THEOREM OnlyHupPostpones == Spec => PostponedByHupOnly
<1>1. TypeOK /\ InOrder /\ [Next]_vars
        => [mpc # "top" /\ mpc' = "top" /\ ~ Leaving
              /\ (\E f \in Requests : flag'[f] = 1)
              => \/ mpc = "check" /\ flag["reconfigure"] = 1 /\ newbin = 0
                 \/ mpc = "start" /\ job = "newbinary"]_vars
  BY RoundIsWhole
<1>2. QED
  BY <1>1, TypeCorrect, InOrderAlways, PTL DEF Spec, PostponedByHupOnly

(***************************************************************************)
(* The master carries out all the requests it has taken before it sleeps,  *)
(* with upgrades and failed forks too, unless one of these two branches is *)
(* taken.                                                                  *)
(***************************************************************************)
THEOREM RequestsAreCarriedOut ==
  Spec /\ []NoSecondCrew /\ [][~ ReconfigureError]_vars => []NothingPostponed
<1> DEFINE Clean == mpc \in {"top", "suspend"} /\ ~ Leaving
                      => \A f \in Requests : flag[f] = 0
<1>1. Init => Clean
  BY DEF Init
<1>2. TypeOK /\ TypeOK' /\ InOrder /\ NoSecondCrew /\ Clean /\ [Next]_vars
        /\ [~ ReconfigureError]_vars => Clean'
  <2> SUFFICES ASSUME TypeOK, TypeOK', InOrder, NoSecondCrew, Clean,
                      [Next]_vars, [~ ReconfigureError]_vars
               PROVE  Clean'
    OBVIOUS
  <2>1. CASE UNCHANGED <<mpc, flag>>
    BY <2>1 DEF Leaving
  <2>2. CASE mpc' \notin {"top", "suspend"}
    BY <2>2
  <2>3. CASE UNCHANGED vars
    BY <2>1, <2>3 DEF vars
  <2>4. ASSUME mpc # "top", mpc' = "top", ~ Leaving,
               ~ (mpc = "check" /\ flag["reconfigure"] = 1)
        PROVE  Clean'
    <3>1. \A f \in Requests : flag'[f] # 1
      BY <2>4, RoundIsWhole DEF NoSecondCrew
    <3>2. \A f \in Requests : flag'[f] \in {0, 1}
      BY DEF TypeOK, MasterType, Requests, Flags, Bits
    <3>3. QED
      BY <3>1, <3>2
  <2>5. CASE Terminate \/ Quit
    <3>1. /\ flag'["terminate"] = flag["terminate"]
          /\ flag'["quit"] = flag["quit"]
      BY <2>5, SignalFlags DEF Terminate, Quit, Flags, TypeOK, MasterType
    <3>2. QED
      BY <2>5, <3>1 DEF Terminate, Quit, Leaving
  <2>6. CASE StartedOrBackup
    <3>1. mpc = "start" /\ mpc' = "top" /\ UNCHANGED flag
      BY <2>6 DEF StartedOrBackup, Started
    <3>2. QED
      BY <2>4, <3>1 DEF Leaving
  <2>7. CASE NoAccept
    <3>1. /\ flag'["terminate"] = flag["terminate"]
          /\ flag'["quit"] = flag["quit"]
      <4>1. /\ Clear("noaccept") \in [Flags -> Bits]
            /\ Clear("noaccept")["terminate"] = flag["terminate"]
            /\ Clear("noaccept")["quit"] = flag["quit"]
        BY DEF Clear, Bits, Flags, TypeOK, MasterType
      <4>2. QED
        BY <2>7, <4>1, SignalFlags DEF NoAccept, Flags
    <3>2. mpc = "noaccept" /\ mpc' = "top"
      BY <2>7 DEF NoAccept
    <3>3. QED
      BY <2>4, <3>1, <3>2 DEF Leaving
  <2>8. CASE Top
    <3>1. /\ mpc = "top"
          /\ \A f \in Flags : f # "sigalrm" => flag'[f] = flag[f]
      BY <2>8 DEF Top, Clear, TypeOK, MasterType
    <3>2. QED
      BY <3>1 DEF Leaving, Requests, Flags
  <2>9. CASE Plain
    BY <2>1, <2>2, <2>3, <2>5, <2>6, <2>7, <2>8, <2>9
       DEF Plain, StartError, StartedReload, StartedRestart, ReapBegin,
           ReapSkip, ReapRespawnError, ReapEnd, MasterExit, Reconfigure,
           BeginStart, NothingToReload, Restart, Reopen, ChangeBinaryError,
           NoNewBinary, Alarm, Send
  <2>10. CASE Wakeup \/ ReapForget
    BY <2>2, <2>10 DEF Wakeup, ReapForget, Reaping
  <2>11. CASE \E p \in Pids : Forks(p)
    BY <2>1, <2>2, <2>11 DEF Forks, StartNext, ReapRespawn, ChangeBinary
  <2>12. CASE \E p \in Pids : Process(p)
    BY <2>1, <2>12 DEF Process, Obey, Drained, Loaded, BinaryExits, InitFails,
                       Crash, Hang
  <2>13. QED
    BY <2>3, <2>9, <2>10, <2>11, <2>12, Steps
<1>3. Clean => NothingPostponed
  BY DEF NothingPostponed
<1>4. QED
  BY <1>1, <1>2, <1>3, TypeCorrect, InOrderAlways, PTL DEF Spec

(***************************************************************************)
(* The crew stays whole through any number of reloads, crashes and         *)
(* respawns: unless a fork() fails or a process gives up with exit(2), the *)
(* master goes to sleep with exactly one crew it means to keep.            *)
(*                                                                         *)
(* Kept are the entries whose process is to be started again.  While a     *)
(* crew is started the invariant counts the part that has been started: of *)
(* the entries kept, a reload counts the new ones only, which just_spawn   *)
(* marks, and the SIGQUIT that follows lets go of all the others.  That it *)
(* reaches the others rests on Reaped: outside of ngx_reap_children() no   *)
(* entry in use belongs to a process that has exited.                      *)
(***************************************************************************)
NothingLost ==
  ~ (StartError \/ ReapRespawnError \/ \E p \in Pids : InitFails(p))

Kept == {s \in Used : pid[s] # 0 /\ respawn[s] = 1 /\ exiting[s] = 0}

Counted == {s \in Kept : Reloading => just[s] = 1}

StartedCrew ==
  {k \in 1 .. Len(Crew) : (mpc = "start" => k < i) /\ Crew[k] # "loader"}

CrewIsCounted == ~ Leaving => Cardinality(Counted) = Cardinality(StartedCrew)

\* No entry of a process that has exited is left behind by the loop.
Reaped ==
  /\ mpc \notin {"wake", "reap"} \/ (mpc = "wake" /\ flag["reap"] = 0)
       => \A s \in Used : pid[s] # 0 => exited[s] = 0
  /\ mpc = "reap" => \A s \in Used : s < i /\ pid[s] # 0 => exited[s] = 0

RespawnedAreOwn == \A s \in Slots : respawn[s] = 1 => detached[s] = 0

NobodyGivesUp == \A p \in Pids : st[p] # "fatal"

\* What makes a flag change.
LEMMA FlagsChange ==
  ASSUME TypeOK, [Next]_vars, NEW f \in Flags \ {"reap", "restart"},
         flag'[f] # flag[f]
  PROVE  \/ Wakeup /\ f \in Raised
         \/ flag'[f] = 0 /\ f \notin {"terminate", "quit"}
<1> USE DEF TypeOK, MasterType
<1>1. \A g \in Flags : Clear(g) \in [Flags -> Bits]
                       /\ Clear(g)[g] = 0
                       /\ \A h \in Flags : h # g => Clear(g)[h] = flag[h]
  BY DEF Clear, Bits
<1>2. "reopen" \in Flags /\ "noaccept" \in Flags
  BY DEF Flags
<1>3. CASE UNCHANGED flag
  BY <1>3
<1>4. CASE Wakeup
  BY <1>4 DEF Wakeup
<1>5. CASE StartedReload \/ Terminate \/ Quit
  <2>1. flag'[f] = flag[f]
    BY <1>5, SignalFlags DEF StartedReload, Terminate, Quit
  <2>2. QED
    BY <2>1
<1>6. CASE Reopen
  <2>1. flag'[f] = flag[f] \/ (f = "reopen" /\ flag'[f] = 0)
    BY <1>1, <1>2, <1>6, SignalFlags DEF Reopen
  <2>2. QED
    BY <2>1
<1>7. CASE NoAccept
  <2>1. flag'[f] = flag[f] \/ (f = "noaccept" /\ flag'[f] = 0)
    BY <1>1, <1>2, <1>7, SignalFlags DEF NoAccept
  <2>2. QED
    BY <2>1
<1>8. CASE ReapForget
  BY <1>8 DEF ReapForget
<1>9. CASE \E p \in Pids : Forks(p)
  BY <1>9 DEF Forks, StartNext, ChangeBinary, ReapRespawn, Clear
<1>10. CASE \E p \in Pids : Process(p)
  BY <1>10 DEF Process, Obey, Drained, Loaded, BinaryExits, InitFails, Crash,
               Hang
<1>11. CASE /\ Plain
            /\ ~ (StartedReload \/ Terminate \/ Quit \/ Reopen \/ NoAccept)
  BY <1>11 DEF Plain, StartError, StartedOrBackup, StartedRestart, Top,
               ReapBegin, ReapSkip, ReapRespawnError, ReapEnd, MasterExit,
               Reconfigure, ReconfigureError, NothingToReload, Restart,
               ChangeBinaryError, NoNewBinary, Alarm, Send, Clear
<1>12. CASE UNCHANGED vars
  BY <1>12 DEF vars
<1>13. QED
  BY <1>4, <1>5, <1>6, <1>7, <1>8, <1>9, <1>10, <1>11, <1>12, Steps

LEMMA LeavingStays ==
  ASSUME TypeOK, [Next]_vars, Leaving
  PROVE  Leaving'
<1>1. ASSUME NEW f \in {"terminate", "quit"}, flag[f] = 1
      PROVE  flag'[f] = 1
  <2>1. f \in Flags \ {"reap", "restart"}
    BY DEF Flags
  <2>2. CASE flag'[f] = flag[f]
    BY <1>1, <2>2
  <2>3. CASE flag'[f] # flag[f]
    <3>1. Wakeup /\ f \in Raised
      BY <2>1, <2>3, FlagsChange
    <3>2. QED
      BY <2>1, <3>1 DEF Wakeup
  <2>4. QED
    BY <2>2, <2>3
<1>2. QED
  BY <1>1 DEF Leaving

(***************************************************************************)
(* SIGWINCH gives the workers up for a new binary, which is the only       *)
(* reason to start them again later (line 724): if it is never taken, the  *)
(* branch that restarts the crew is never taken either.                    *)
(***************************************************************************)
NoPause == flag["noaccept"] = 0

NeverPaused == noaccepting = 0 /\ flag["restart"] = 0 /\ job # "restart"

LEMMA NeverPausedStep ==
  ASSUME TypeOK, NoPause, NeverPaused, [Next]_vars
  PROVE  NeverPaused'
<1> USE DEF TypeOK, MasterType, NeverPaused, upgrade, cursor
<1>1. ASSUME NEW sig, NEW fl \in [Flags -> Bits], SignalWorkers(sig, fl)
      PROVE  flag'["restart"] = fl["restart"]
  BY <1>1, SignalFlags DEF Flags
<1>2. CASE UNCHANGED vars
  BY <1>2 DEF vars
<1>3. CASE StartedReload \/ Terminate \/ Quit
  BY <1>1, <1>3 DEF StartedReload, Terminate, Quit
<1>4. CASE Reopen
  <2>1. Clear("reopen") \in [Flags -> Bits] /\ Clear("reopen")["restart"] = 0
    BY DEF Clear, Bits, Flags
  <2>2. QED
    BY <1>1, <1>4, <2>1 DEF Reopen
<1>5. CASE NoAccept
  BY <1>5 DEF NoAccept, NoPause
<1>6. CASE Wakeup
  <2>1. \A sig \in pend : "restart" \notin Raises(sig)
    BY DEF Raises
  <2>2. flag'["restart"] = 0
    BY <1>6, <2>1 DEF Wakeup, Raised, Flags
  <2>3. QED
    BY <1>6, <2>2 DEF Wakeup
<1>7. CASE ReapForget
  BY <1>7 DEF ReapForget
<1>8. CASE \E p \in Pids : Forks(p)
  BY <1>8 DEF Forks, StartNext, ChangeBinary, ReapRespawn, Clear, Flags
<1>9. CASE \E p \in Pids : Process(p)
  BY <1>9 DEF Process, Obey, Drained, Loaded, BinaryExits, InitFails, Crash,
              Hang
<1>10. CASE /\ Plain
            /\ ~ (StartedReload \/ Terminate \/ Quit \/ Reopen \/ NoAccept)
  BY <1>10 DEF Plain, StartError, StartedOrBackup, StartedRestart, Top,
               ReapBegin, ReapSkip, ReapRespawnError, ReapEnd, MasterExit,
               Reconfigure, ReconfigureError, NothingToReload, Restart,
               ChangeBinaryError, NoNewBinary, Alarm, Send, Clear, BeginStart,
               Flags
<1>11. QED
  BY <1>2, <1>3, <1>4, <1>5, <1>6, <1>7, <1>8, <1>9, <1>10, Steps

\* If SIGWINCH is never sent, it is never taken.
THEOREM PauseIsNeeded ==
  ASSUME "WINCH" \notin Signals
  PROVE  Spec => []NoPause
<1>1. Init => NoPause
  BY DEF Init, NoPause, Flags
<1>2. TypeOK /\ NoPause /\ [Next]_vars => NoPause'
  <2> SUFFICES ASSUME TypeOK, NoPause, [Next]_vars PROVE NoPause'
    OBVIOUS
  <2>1. "noaccept" \in Flags \ {"reap", "restart"}
    BY DEF Flags
  <2>2. \A sig \in pend : "noaccept" \notin Raises(sig)
    BY DEF Raises, TypeOK, MasterType
  <2>3. "noaccept" \notin Raised
    BY <2>2 DEF Raised
  <2>4. QED
    BY <2>1, <2>3, FlagsChange DEF NoPause
<1>3. QED
  BY <1>1, <1>2, TypeCorrect, PTL DEF Spec

LEMMA RespawnedAreOwnStep ==
  ASSUME TypeOK, RespawnedAreOwn, [Next]_vars
  PROVE  RespawnedAreOwn'
<1> SUFFICES ASSUME NEW s \in Slots, respawn'[s] = 1
             PROVE  detached'[s] = 0
  BY DEF RespawnedAreOwn
<1> USE DEF TypeOK, TableType, table, marks
<1>1. CASE respawn'[s] = respawn[s] /\ detached'[s] = detached[s]
  BY <1>1 DEF RespawnedAreOwn
<1>2. CASE UNCHANGED vars
  BY <1>1, <1>2 DEF vars
<1>3. CASE Plain
  <2>1. CASE UNCHANGED <<table, children>>
    BY <1>1, <2>1
  <2>2. CASE \E sig, fl : SignalWorkers(sig, fl)
    BY <1>1, <2>2 DEF SignalWorkers
  <2>3. QED
    BY <1>3, <2>1, <2>2
    DEF Plain, StartError, StartedOrBackup, StartedReload, StartedRestart,
        Top, ReapBegin, ReapSkip, ReapRespawnError, ReapEnd, MasterExit,
        Terminate, Quit, Reconfigure, ReconfigureError, NothingToReload,
        Restart, Reopen, ChangeBinaryError, NoNewBinary, NoAccept, Alarm, Send
<1>4. CASE Wakeup
  <2>1. detached' = detached /\ respawn[s] = 1
    BY <1>4 DEF Wakeup, GetStatus
  <2>2. QED
    BY <2>1 DEF RespawnedAreOwn
<1>5. CASE ReapForget
  BY <1>1, <1>5 DEF ReapForget
<1>6. ASSUME NEW p, NEW n, NEW r, NEW j, Spawn(p, n, r, j)
      PROVE  detached'[s] = 0
  <2>1. CASE s = n
    BY <1>6, <2>1 DEF Spawn, OpenSlot
  <2>2. CASE s # n
    BY <1>1, <1>6, <2>2 DEF Spawn, OpenSlot
  <2>3. QED
    BY <2>1, <2>2
<1>7. CASE \E p \in Pids : Forks(p)
  BY <1>1, <1>6, <1>7 DEF Forks, StartNext, ChangeBinary, ReapRespawn
<1>8. CASE \E p \in Pids : Process(p)
  BY <1>1, <1>8 DEF Process, Obey, Drained, Loaded, BinaryExits, InitFails,
                    Crash, Hang
<1>9. QED
  BY <1>2, <1>3, <1>4, <1>5, <1>7, <1>8, Steps

LEMMA NobodyGivesUpStep ==
  ASSUME TypeOK, NobodyGivesUp, NothingLost, [Next]_vars
  PROVE  NobodyGivesUp'
<1> SUFFICES ASSUME NEW p \in Pids, st'[p] = "fatal" PROVE FALSE
  BY DEF NobodyGivesUp
<1> USE DEF TypeOK, ChildrenType
<1>1. st[p] # "fatal"
  BY DEF NobodyGivesUp
<1>2. CASE UNCHANGED vars
  BY <1>1, <1>2 DEF vars, children
<1>3. CASE Plain
  <2>1. CASE UNCHANGED <<table, children>>
    BY <1>1, <2>1 DEF children
  <2>2. ASSUME NEW sig, NEW fl, SignalWorkers(sig, fl) PROVE FALSE
    <3> DEFINE lost == {s \in Targets(sig) : exited[s] = 1}
               sent == Targets(sig) \ lost
               hit == {pid[s] : s \in sent}
               dies == IF sig = "KILL" THEN {q \in hit : st[q] \notin Gone}
                                       ELSE {}
    <3>1. st' = [q \in Pids |-> IF q \in dies THEN "zombie" ELSE st[q]]
      BY <2>2 DEF SignalWorkers
    <3> HIDE DEF dies
    <3>2. QED
      BY <1>1, <3>1
  <2>3. QED
    BY <1>3, <2>1, <2>2
    DEF Plain, StartError, StartedOrBackup, StartedReload, StartedRestart,
        Top, ReapBegin, ReapSkip, ReapRespawnError, ReapEnd, MasterExit,
        Terminate, Quit, Reconfigure, ReconfigureError, NothingToReload,
        Restart, Reopen, ChangeBinaryError, NoNewBinary, NoAccept, Alarm, Send
<1>4. CASE Wakeup
  BY <1>1, <1>4 DEF Wakeup, GetStatus
<1>5. CASE ReapForget
  BY <1>1, <1>5 DEF ReapForget, children
<1>6. CASE \E q \in Pids : Forks(q)
  BY <1>1, <1>6 DEF Forks, StartNext, ChangeBinary, ReapRespawn, Spawn, Fork
<1>7. ASSUME NEW q \in Pids, Process(q) PROVE FALSE
  <2>1. /\ st'[q] # "fatal"
        /\ \E x : Becomes(q, x)
    BY <1>1, <1>7 DEF Process, NothingLost, NobodyGivesUp, Obey, Drained,
                      Loaded, BinaryExits, Crash, Hang, Becomes, WorkerLoop,
                      HelperLoop
  <2>2. CASE p = q
    BY <2>1, <2>2
  <2>3. CASE p # q
    BY <1>1, <2>1, <2>3 DEF Becomes
  <2>4. QED
    BY <2>2, <2>3
<1>8. QED
  BY <1>2, <1>3, <1>4, <1>5, <1>6, <1>7, Steps

LEMMA ReapedStep ==
  ASSUME TypeOK, TypeOK', Reaped, NothingLost, [Next]_vars
  PROVE  Reaped'
<1> USE DEF TypeOK
<1>1. CASE UNCHANGED <<pid, exited, last, mpc, i, flag>>
  BY <1>1 DEF Reaped, Used
<1>2. CASE UNCHANGED vars
  BY <1>1, <1>2 DEF vars, table, marks, cursor
<1>3. CASE Plain
  <2>1. UNCHANGED <<pid, exited, last>>
    BY <1>3, PlainIsCalm DEF Calm
  <2>2. Used' = Used
    BY <2>1 DEF Used
  <2>3. CASE Alarm \/ \E sig \in Signals : Send(sig)
    BY <1>1, <2>1, <2>3 DEF Alarm, Send, cursor
  <2>4. CASE ReapBegin
    <3>1. \/ flag["reap"] = 1 /\ i' = 0 /\ mpc' = "reap"
          \/ mpc = "wake" /\ flag["reap"] = 0 /\ mpc' = "check"
      BY <2>4 DEF ReapBegin
    <3>2. \A s \in Used : ~ (s < 0)
      BY DEF Used, Slots
    <3>3. QED
      BY <2>1, <2>2, <3>1, <3>2 DEF Reaped
  <2>5. CASE ReapSkip
    <3>1. /\ mpc = "reap" /\ mpc' = "reap" /\ i' = i + 1
          /\ pid[i] # 0 => exited[i] = 0
      BY <2>5 DEF ReapSkip, Reaping, TableType, MasterType, Slots, Bits
    <3>2. \A s \in Used : s < i + 1 => s < i \/ s = i
      BY DEF Used, Slots, MasterType
    <3>3. QED
      BY <2>1, <2>2, <3>1, <3>2 DEF Reaped
  <2>6. CASE ReapEnd
    <3>1. mpc = "reap" /\ mpc' = "check" /\ \A s \in Used : s < i
      BY <2>6 DEF ReapEnd, Used, Slots, TableType, MasterType
    <3>2. QED
      BY <2>1, <2>2, <3>1 DEF Reaped
  <2>7. CASE /\ ~ (Alarm \/ \E sig \in Signals : Send(sig))
             /\ ~ (ReapBegin \/ ReapSkip \/ ReapEnd)
    <3>1. mpc \notin {"wake", "reap"} /\ mpc' \notin {"wake", "reap"}
      BY <1>3, <2>7
      DEF Plain, NothingLost, StartedOrBackup, StartedReload,
          StartedRestart, Started, Top, MasterExit, Stays, Terminate, Quit,
          Reconfigure, BeginStart, ReconfigureError, NothingToReload, Restart,
          Reopen, ChangeBinaryError, NoNewBinary, NoAccept
    <3>2. QED
      BY <2>1, <2>2, <3>1 DEF Reaped
  <2>8. QED
    BY <2>3, <2>4, <2>5, <2>6, <2>7
<1>4. CASE Wakeup
  <2>1. mpc = "suspend" /\ mpc' = "wake" /\ UNCHANGED <<pid, last>>
    BY <1>4 DEF Wakeup
  <2>2. CASE "CHLD" \in pend
    <3>1. "reap" \in Raises("CHLD")
      BY DEF Raises
    <3>2. "reap" \in Raised
      BY <2>2, <3>1 DEF Raised
    <3>3. flag'["reap"] = 1
      BY <1>4, <3>2 DEF Wakeup, Flags
    <3>4. QED
      BY <2>1, <3>3 DEF Reaped
  <2>3. CASE "CHLD" \notin pend
    <3>1. \A s \in Used : exited'[s] = exited[s]
      BY <1>4, <2>3 DEF Wakeup, GetStatus, Used
    <3>2. QED
      BY <2>1, <3>1 DEF Reaped, Used
  <2>4. QED
    BY <2>2, <2>3
<1>5. CASE ReapForget
  <2>1. mpc = "reap" /\ mpc' = "reap" /\ i' = i + 1 /\ exited' = exited
    BY <1>5 DEF ReapForget, Reaping, marks
  <2>2. ASSUME NEW s \in Used', s < i + 1, pid'[s] # 0
        PROVE  s \in Used /\ s < i /\ pid[s] # 0
    <3>1. CASE i = last - 1 /\ last' = last - 1 /\ UNCHANGED pid
      BY <2>2, <3>1 DEF Used, Slots, TableType, MasterType
    <3>2. CASE pid' = [pid EXCEPT ![i] = 0] /\ UNCHANGED last
      BY <2>2, <3>2 DEF Used, Slots, TableType, MasterType
    <3>3. QED
      BY <1>5, <3>1, <3>2 DEF ReapForget, DropSlot
  <2>3. QED
    BY <2>1, <2>2 DEF Reaped
<1>6. ASSUME NEW p \in Pids, NEW n \in 0 .. last, NEW r, NEW j,
             Spawn(p, n, r, j), mpc \notin {"wake", "reap"},
             mpc' \notin {"wake", "reap"}
      PROVE  Reaped'
  <2>1. ASSUME NEW s \in Used' PROVE exited'[s] = 0 \/ pid'[s] = 0
    <3>1. CASE s = n
      BY <1>6, <2>1, <3>1 DEF Spawn, OpenSlot, Used, TableType
    <3>2. CASE s # n
      <4>1. s \in Used /\ pid'[s] = pid[s] /\ exited'[s] = exited[s]
        BY <1>6, <2>1, <3>2 DEF Spawn, OpenSlot, Used, Slots, TableType
      <4>2. QED
        BY <1>6, <4>1 DEF Reaped
    <3>3. QED
      BY <3>1, <3>2
  <2>2. QED
    BY <1>6, <2>1 DEF Reaped
<1>7. ASSUME NEW p \in Pids, ReapRespawn(p)
      PROVE  Reaped'
  <2>1. /\ mpc = "reap" /\ mpc' = "reap" /\ i' = i + 1 /\ Used' = Used
        /\ i \in Slots /\ exited'[i] = 0
    BY <1>7 DEF ReapRespawn, Reaping, Used, Slots, TableType, MasterType
  <2>2. \A s \in Used : s # i => pid'[s] = pid[s] /\ exited'[s] = exited[s]
    BY <1>7 DEF ReapRespawn, Used, TableType
  <2>3. \A s \in Used : s < i + 1 => s < i \/ s = i
    BY DEF Used, Slots, MasterType
  <2>4. QED
    BY <2>1, <2>2, <2>3 DEF Reaped
<1>8. CASE \E p \in Pids : Forks(p)
  BY <1>6, <1>7, <1>8 DEF Forks, StartNext, ChangeBinary
<1>9. CASE \E p \in Pids : Process(p)
  BY <1>1, <1>9 DEF Process, Obey, Drained, Loaded, BinaryExits, InitFails,
                    Crash, Hang, table, marks, cursor
<1>10. QED
  BY <1>2, <1>3, <1>4, <1>5, <1>8, <1>9, Steps

LEMMA SlotsAreFinite ==
  IsFiniteSet(Counted) /\ IsFiniteSet(StartedCrew)
<1>1. IsFiniteSet(Slots) /\ IsFiniteSet(1 .. Len(Crew))
  BY FS_Interval DEF Slots
<1>2. Counted \subseteq Slots /\ StartedCrew \subseteq 1 .. Len(Crew)
  BY DEF Counted, Kept, Used, StartedCrew
<1>3. QED
  BY <1>1, <1>2, FS_Subset

\* When no entry is left over, kill() never fails.
LEMMA SignalMarks ==
  ASSUME NEW sig, NEW fl, SignalWorkers(sig, fl),
         \A s \in Used : pid[s] # 0 => exited[s] = 0
  PROVE  /\ UNCHANGED <<pid, respawn, last>>
         /\ exiting' = [s \in Slots |->
              IF s \in Targets(sig) /\ sig # "USR1" THEN 1 ELSE exiting[s]]
<1> DEFINE lost == {s \in Targets(sig) : exited[s] = 1}
           sent == Targets(sig) \ lost
<1>1. /\ UNCHANGED <<pid, respawn, last>>
      /\ exiting' = [s \in Slots |->
                       IF s \in sent /\ sig # "USR1" THEN 1
                       ELSE IF s \in lost THEN 0 ELSE exiting[s]]
  BY DEF SignalWorkers
<1>2. lost = {}
  BY DEF Targets, Reachable
<1>3. sent = Targets(sig)
  BY <1>2
<1> HIDE DEF lost, sent
<1>4. QED
  BY <1>1, <1>2, <1>3

\* The SIGQUIT at the end of a reload leaves exactly the new entries.
LEMMA ReloadKeepsTheNew ==
  ASSUME TypeOK, Reaped, RespawnedAreOwn, StartedReload
  PROVE  Kept' = Counted
<1>1. /\ SignalWorkers("QUIT", flag) /\ Reloading
      /\ \A s \in Used : pid[s] # 0 => exited[s] = 0
  BY DEF StartedReload, Started, Reloading, Reaped
<1>2. /\ UNCHANGED <<pid, respawn, last>>
      /\ exiting' = [s \in Slots |->
           IF s \in Targets("QUIT") THEN 1 ELSE exiting[s]]
  <2>1. /\ UNCHANGED <<pid, respawn, last>>
        /\ exiting' = [s \in Slots |->
             IF s \in Targets("QUIT") /\ "QUIT" # "USR1" THEN 1
                                                         ELSE exiting[s]]
    BY <1>1, SignalMarks
  <2>2. QED
    BY <2>1
<1>3. ASSUME NEW s \in Used, pid[s] # 0, respawn[s] = 1
      PROVE  exiting'[s] = 0 <=> exiting[s] = 0 /\ just[s] = 1
  <2>1. s \in Slots /\ s \in Reachable
    BY <1>3 DEF Used, Reachable, RespawnedAreOwn
  <2>2. just[s] \in Bits /\ exiting[s] \in Bits
    BY <2>1 DEF TypeOK, TableType
  <2>3. s \in Targets("QUIT") <=> just[s] = 0 /\ exiting[s] # 1
    BY <2>1 DEF Targets
  <2>4. exiting'[s] = IF s \in Targets("QUIT") THEN 1 ELSE exiting[s]
    BY <1>2, <2>1
  <2>5. QED
    BY <2>2, <2>3, <2>4 DEF Bits
<1>4. Used' = Used
  BY <1>2 DEF Used
<1>5. QED
  BY <1>1, <1>2, <1>3, <1>4 DEF Kept, Counted

\* A new entry counts, unless it is the one of the cache loader.
LEMMA StartCounts ==
  ASSUME TypeOK, NEW p \in Pids, NEW n \in 0 .. last, StartNext(p, n),
         Cardinality(Counted) = Cardinality(StartedCrew)
  PROVE  Cardinality(Counted') = Cardinality(StartedCrew')
<1> USE DEF TypeOK
<1>1. /\ Spawn(p, n, Crew[i], JustSpawn) /\ Crew[i] \in Roles
      /\ UNCHANGED <<mpc, job>> /\ mpc = "start" /\ i' = i + 1
      /\ i \in 1 .. Len(Crew)
  BY DEF StartNext, MasterType
<1>2. /\ Used' = Used \cup {n}
      /\ n \in Used => pid[n] = 0
      /\ n \in Slots
  BY <1>1 DEF Spawn, OpenSlot, IsFreeSlot, Used, Slots, TableType
<1>3. \A s \in Used : s # n =>
        /\ pid'[s] = pid[s] /\ respawn'[s] = respawn[s]
        /\ exiting'[s] = exiting[s] /\ just'[s] = just[s]
  BY <1>1 DEF Spawn, OpenSlot, Used, TableType
<1>4. /\ pid'[n] # 0 /\ exiting'[n] = 0 /\ just'[n] = JustSpawn
      /\ respawn'[n] = IF Crew[i] # "loader" THEN 1 ELSE 0
  BY <1>1, <1>2 DEF Spawn, OpenSlot, TableType, Roles
<1>5. n \notin Counted /\ i \notin StartedCrew
  BY <1>1, <1>2 DEF Counted, Kept, StartedCrew
<1>6. Reloading' = Reloading /\ (Reloading => JustSpawn = 1)
  BY <1>1 DEF Reloading, JustSpawn
<1>7. \A s \in Used : s # n => (s \in Counted' <=> s \in Counted)
  BY <1>2, <1>3, <1>6 DEF Counted, Kept
<1>8. n \in Counted' <=> Crew[i] # "loader"
  BY <1>2, <1>4, <1>6 DEF Counted, Kept
<1>9. Counted' \subseteq Used' /\ Counted \subseteq Used
  BY DEF Counted, Kept
<1>10. \A k \in 1 .. Len(Crew) : k < i + 1 <=> k < i \/ k = i
  BY <1>1
<1>11. CASE Crew[i] # "loader"
  <2>1. Counted' = Counted \cup {n}
    BY <1>2, <1>7, <1>8, <1>9, <1>11
  <2>2. StartedCrew' = StartedCrew \cup {i}
    BY <1>1, <1>10, <1>11 DEF StartedCrew
  <2>3. /\ Cardinality(Counted \cup {n}) = Cardinality(Counted) + 1
        /\ Cardinality(StartedCrew \cup {i}) = Cardinality(StartedCrew) + 1
    BY <1>5, SlotsAreFinite, FS_AddElement
  <2>4. QED
    BY <2>1, <2>2, <2>3
<1>12. CASE Crew[i] = "loader"
  <2>1. \A s : s \in Counted' <=> s \in Counted
    <3>1. n \notin Counted' /\ n \notin Counted
      BY <1>5, <1>8, <1>12
    <3>2. \A s : s \in Counted' \/ s \in Counted => s \in Used \/ s = n
      BY <1>2, <1>9
    <3>3. QED
      BY <1>7, <3>1, <3>2
  <2>2. StartedCrew' = StartedCrew
    BY <1>1, <1>10, <1>12 DEF StartedCrew
  <2>3. Counted' = Counted
    BY <2>1
  <2>4. QED
    BY <2>2, <2>3
<1>13. QED
  BY <1>11, <1>12

\* A new binary is not one of the crew.
LEMMA BinaryIsNotKept ==
  ASSUME TypeOK, NEW p \in Pids, NEW n \in 0 .. last,
         Spawn(p, n, "binary", 0)
  PROVE  Kept' = Kept
<1> USE DEF TypeOK, TableType
<1>1. /\ Used' = Used \cup {n}
      /\ n \in Used => pid[n] = 0
      /\ n \in Slots
  BY DEF Spawn, OpenSlot, IsFreeSlot, Used, Slots
<1>2. \A s \in Used : s # n =>
        /\ pid'[s] = pid[s] /\ respawn'[s] = respawn[s]
        /\ exiting'[s] = exiting[s]
  BY DEF Spawn, OpenSlot, Used
<1>3. respawn'[n] = 0
  BY <1>1 DEF Spawn, OpenSlot
<1>4. \A s : s \in Kept' <=> s \in Kept
  BY <1>1, <1>2, <1>3 DEF Kept
<1>5. QED
  BY <1>4

LEMMA CrewIsCountedStep ==
  ASSUME TypeOK, TypeOK', NoSecondCrew, NoSecondCrew', NoPause, NeverPaused,
         JustIsNew, Reaped, RespawnedAreOwn, NobodyGivesUp, CrewIsCounted,
         NothingLost, [Next]_vars
  PROVE  CrewIsCounted'
<1> SUFFICES ASSUME ~ Leaving'
             PROVE  Cardinality(Counted') = Cardinality(StartedCrew')
  BY DEF CrewIsCounted
<1> USE DEF TypeOK
<1>1. ~ Leaving /\ Cardinality(Counted) = Cardinality(StartedCrew)
  BY LeavingStays DEF CrewIsCounted
<1>2. ASSUME Kept' = Kept, mpc # "start", mpc' # "start"
      PROVE  Cardinality(Counted') = Cardinality(StartedCrew')
  <2>1. Counted' = Counted /\ StartedCrew' = StartedCrew
    BY <1>2 DEF Counted, StartedCrew, Reloading
  <2>2. QED
    BY <1>1, <2>1
<1>3. CASE UNCHANGED <<table, mpc, i, job>>
  <2>1. Counted' = Counted /\ StartedCrew' = StartedCrew
    BY <1>3 DEF Counted, Kept, Used, StartedCrew, Reloading, table, marks
  <2>2. QED
    BY <1>1, <2>1
<1>4. CASE UNCHANGED vars
  BY <1>3, <1>4 DEF vars, cursor
<1>5. ASSUME UNCHANGED table PROVE Kept' = Kept
  BY <1>5 DEF Kept, Used, table, marks
<1>6. CASE Plain
  <2>1. CASE StartedReload
    <3>1. Counted' = Kept'
      BY <2>1 DEF StartedReload, Counted, Reloading
    <3>2. StartedCrew' = StartedCrew
      <4>1. mpc = "start" /\ mpc' = "restart" /\ i > Len(Crew) /\ i \in Nat
        BY <2>1 DEF StartedReload, Started, MasterType
      <4>2. QED
        BY <4>1 DEF StartedCrew
    <3>3. QED
      BY <1>1, <2>1, <3>1, <3>2, ReloadKeepsTheNew
  <2>2. CASE StartedOrBackup
    <3>1. mpc = "start" /\ job = "boot" /\ mpc' = "top"
      BY <2>2 DEF StartedOrBackup, Started, NoSecondCrew
    <3>2. Counted' = Kept' /\ Counted = Kept
      BY <3>1 DEF Counted, Reloading
    <3>3. StartedCrew' = StartedCrew
      BY <2>2, <3>1 DEF StartedOrBackup, Started, StartedCrew, MasterType
    <3>4. Kept' = Kept
      BY <1>5, <2>2 DEF StartedOrBackup
    <3>5. QED
      BY <1>1, <3>2, <3>3, <3>4
  <2>3. CASE Reconfigure
    <3>1. /\ mpc = "check" /\ Reloading' /\ UNCHANGED table /\ i' = 1
          /\ mpc' = "start"
      BY <2>3 DEF Reconfigure, BeginStart, Stays, NoSecondCrew, Reloading
    <3>2. Counted' = {}
      BY <3>1 DEF Counted, Kept, Used, JustIsNew, Reloading, table, marks
    <3>3. StartedCrew' = {}
      BY <3>1 DEF StartedCrew
    <3>4. QED
      BY <3>2, <3>3
  <2>4. CASE Reopen
    <3>1. mpc = "reopen" /\ mpc' = "changebin"
      BY <2>4 DEF Reopen
    <3>2. CASE UNCHANGED table
      BY <1>2, <1>5, <3>1, <3>2
    <3>3. CASE SignalWorkers("USR1", Clear("reopen"))
      <4>1. \A s \in Used : pid[s] # 0 => exited[s] = 0
        BY <3>1 DEF Reaped
      <4>2. /\ UNCHANGED <<pid, respawn, last>>
            /\ exiting' = [s \in Slots |->
                 IF s \in Targets("USR1") /\ "USR1" # "USR1"
                 THEN 1 ELSE exiting[s]]
        BY <3>3, <4>1, SignalMarks
      <4>3. \A s \in Slots : exiting'[s] = exiting[s]
        BY <4>2
      <4>4. Kept' = Kept
        BY <4>2, <4>3 DEF Kept, Used
      <4>5. QED
        BY <1>2, <3>1, <4>4
    <3>4. QED
      BY <2>4, <3>2, <3>3 DEF Reopen
  <2>5. CASE Alarm \/ \E sig \in Signals : Send(sig)
    BY <1>3, <2>5 DEF Alarm, Send, cursor
  <2>6. CASE Terminate \/ Quit
    BY <1>1, <2>6 DEF Terminate, Quit, Leaving
  <2>7. CASE StartError \/ ReapRespawnError \/ StartedRestart
    BY <2>7 DEF NothingLost, StartedRestart, NeverPaused
  <2>8. CASE \/ Top \/ ReapBegin \/ ReapSkip \/ ReapEnd \/ MasterExit
             \/ ReconfigureError \/ NothingToReload \/ Restart
             \/ ChangeBinaryError \/ NoNewBinary \/ NoAccept
    <3>1. UNCHANGED table /\ mpc # "start" /\ mpc' # "start"
      BY <2>8 DEF Top, ReapBegin, ReapSkip, Reaping, ReapEnd, MasterExit,
                  ReconfigureError, Stays, NothingToReload, Restart,
                  ChangeBinaryError, NoNewBinary, NoAccept, NoPause,
                  NeverPaused
    <3>2. QED
      BY <1>2, <1>5, <3>1
  <2>9. QED
    BY <1>6, <2>1, <2>2, <2>3, <2>4, <2>5, <2>6, <2>7, <2>8 DEF Plain
<1>7. CASE Wakeup
  <2>1. /\ mpc = "suspend" /\ mpc' = "wake"
        /\ UNCHANGED <<pid, exiting, last>>
    BY <1>7 DEF Wakeup
  <2>2. \A s \in Used : pid[s] # 0 => respawn'[s] = respawn[s]
    BY <1>7 DEF Wakeup, GetStatus, NobodyGivesUp, Used, TableType
  <2>3. Kept' = Kept
    BY <2>1, <2>2 DEF Kept, Used
  <2>4. QED
    BY <1>2, <2>1, <2>3
<1>8. CASE ReapForget
  <2>1. /\ mpc = "reap" /\ mpc' = "reap" /\ UNCHANGED <<respawn, exiting>>
        /\ i \in Used /\ i \notin Kept
    BY <1>1, <1>8 DEF ReapForget, Reaping, marks, MayRespawn, Kept, Used,
                      Slots, TableType, MasterType
  <2>2. CASE i = last - 1 /\ last' = last - 1 /\ UNCHANGED pid
    <3>1. Used' = Used \ {i}
      BY <2>1, <2>2 DEF Used, Slots, TableType
    <3>2. Kept' = Kept
      BY <2>1, <2>2, <3>1 DEF Kept
    <3>3. QED
      BY <1>2, <2>1, <3>2
  <2>3. CASE pid' = [pid EXCEPT ![i] = 0] /\ UNCHANGED last
    <3>1. Used' = Used
      BY <2>3 DEF Used
    <3>2. \A s \in Used : pid'[s] = IF s = i THEN 0 ELSE pid[s]
      BY <2>3 DEF Used, TableType
    <3>3. Kept' = Kept
      BY <2>1, <3>1, <3>2 DEF Kept
    <3>4. QED
      BY <1>2, <2>1, <3>3
  <2>4. QED
    BY <1>8, <2>2, <2>3 DEF ReapForget, DropSlot
<1>9. ASSUME NEW p \in Pids, ReapRespawn(p)
      PROVE  Cardinality(Counted') = Cardinality(StartedCrew')
  <2>1. /\ mpc = "reap" /\ mpc' = "reap"
        /\ UNCHANGED <<respawn, exiting, last>> /\ pid[i] # 0
        /\ pid' = [pid EXCEPT ![i] = p]
    BY <1>9 DEF ReapRespawn, Reaping
  <2>2. Used' = Used /\ \A s \in Used : pid'[s] # 0 <=> pid[s] # 0
    BY <2>1 DEF Used, TableType
  <2>3. Kept' = Kept
    BY <2>1, <2>2 DEF Kept
  <2>4. QED
    BY <1>2, <2>1, <2>3
<1>10. ASSUME NEW p \in Pids, NEW s \in 0 .. last, ChangeBinary(p, s)
       PROVE  Cardinality(Counted') = Cardinality(StartedCrew')
  <2>1. /\ mpc = "changebin" /\ mpc' = "noaccept"
        /\ Spawn(p, s, "binary", 0)
    BY <1>10 DEF ChangeBinary
  <2>2. QED
    BY <1>2, <2>1, BinaryIsNotKept
<1>11. CASE \E p \in Pids : Forks(p)
  BY <1>1, <1>9, <1>10, <1>11, StartCounts DEF Forks
<1>12. CASE \E p \in Pids : Process(p)
  BY <1>3, <1>12 DEF Process, Obey, Drained, Loaded, BinaryExits, InitFails,
                     Crash, Hang, cursor
<1>13. QED
  BY <1>4, <1>6, <1>7, <1>8, <1>11, <1>12, Steps

(***************************************************************************)
(* As long as every fork() succeeds, no process gives up, SIGHUP does not  *)
(* find a new binary and SIGWINCH does not send the crew away, the master  *)
(* sleeps with exactly one crew to keep: no reload, crash, respawn or new  *)
(* binary loses a worker or leaves one too many.                           *)
(***************************************************************************)
THEOREM CrewStaysWhole ==
  Spec /\ []NoSecondCrew /\ []NoPause /\ [][NothingLost]_vars
    => []CrewIsWhole
<1> DEFINE Inv == /\ NeverPaused /\ JustIsNew /\ Reaped /\ RespawnedAreOwn
                  /\ NobodyGivesUp /\ CrewIsCounted
<1>1. Init => Inv
  <2> SUFFICES ASSUME Init PROVE Inv
    OBVIOUS
  <2>1. NeverPaused /\ JustIsNew /\ Reaped /\ RespawnedAreOwn
        /\ NobodyGivesUp
    BY DEF Init, NeverPaused, JustIsNew, Reaped, RespawnedAreOwn,
           NobodyGivesUp, Flags, Used
  <2>2. Counted = {} /\ StartedCrew = {}
    BY DEF Init, Counted, Kept, Used, StartedCrew
  <2>3. QED
    BY <2>1, <2>2 DEF CrewIsCounted
<1>2. TypeOK /\ TypeOK' /\ NoSecondCrew /\ NoSecondCrew' /\ NoPause /\ Inv
        /\ [Next]_vars /\ [NothingLost]_vars => Inv'
  <2> SUFFICES ASSUME TypeOK, TypeOK', NoSecondCrew, NoSecondCrew', NoPause,
                      Inv, [Next]_vars, [NothingLost]_vars
               PROVE  Inv'
    OBVIOUS
  <2>1. CASE NothingLost
    BY <2>1, NeverPausedStep, JustIsNewStep, ReapedStep, RespawnedAreOwnStep,
       NobodyGivesUpStep, CrewIsCountedStep
  <2>2. CASE UNCHANGED vars
    <3>1. NothingLost
      BY <2>2 DEF NothingLost, StartError, ReapRespawnError, InitFails, vars,
                  cursor, bounds, Fault, TypeOK, MasterType
    <3>2. QED
      BY <2>1, <3>1
  <2>3. QED
    BY <2>1, <2>2
<1>3. TypeOK /\ Inv => CrewIsWhole
  <2> SUFFICES ASSUME TypeOK, Inv, mpc = "suspend", ~ Leaving
               PROVE  CrewIsWhole
    BY DEF CrewIsWhole
  <2>1. Counted = Kept
        /\ StartedCrew = {k \in 1 .. Len(Crew) : Crew[k] # "loader"}
    BY DEF Counted, Reloading, StartedCrew
  <2>2. QED
    BY <2>1 DEF CrewIsWhole, CrewIsCounted, Kept
<1>4. QED
  BY <1>1, <1>2, <1>3, TypeCorrect, PTL DEF Spec
=============================================================================
