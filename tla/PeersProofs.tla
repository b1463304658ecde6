---------------------------- MODULE PeersProofs ----------------------------
(***************************************************************************)
(* Proofs about Peers, for any finite set of requests and any upstreams.   *)
(* They rest on those about the locks: module RwlockProofs with the        *)
(* variables of Peers.  The sums of the weights are those of module Sums.  *)
(***************************************************************************)
EXTENDS Peers, Sums, FiniteSetTheorems, TLAPS

LP == INSTANCE RwlockProofs

-----------------------------------------------------------------------------
(* The locks *)

\* The two instances of the module say the same.
LEMMA SameInit == L!Init <=> LP!Init
  BY DEF L!Init, LP!Init

LEMMA SameInside == ASSUME NEW r \in Proc PROVE L!Inside(r) <=> LP!Inside(r)
  BY DEF L!Inside, LP!Inside, L!At, LP!At, L!Goto, LP!Goto, L!Wlock, LP!Wlock,
         L!RlockRead, LP!RlockRead, L!RlockCas, LP!RlockCas, L!RlockRetry,
         LP!RlockRetry, L!UnlockRead, LP!UnlockRead, L!UnlockWriter,
         LP!UnlockWriter, L!UnlockReader, LP!UnlockReader, L!UnlockRetry,
         LP!UnlockRetry, L!WLOCK, LP!WLOCK

LEMMA SameNext == L!Next <=> LP!Next
  BY SameInside DEF L!Next, LP!Next, L!Call, LP!Call, L!At, LP!At, L!Goto,
                    LP!Goto

LEMMA SameWord == L!WordIsExact <=> LP!WordIsExact
  BY DEF L!WordIsExact, LP!WordIsExact, L!WLOCK, LP!WLOCK, L!Cardinality,
         LP!Cardinality

LEMMA ProcIsFinite == LP!IsFiniteSet(Proc)
  BY ProcAssumption DEF IsFiniteSet, LP!IsFiniteSet

LEMMA LockStep ==
  ASSUME LP!IInv, [L!Next]_(L!vars)
  PROVE  LP!IInv'
  BY LP!StepHolds, SameNext, ProcIsFinite DEF L!vars, LP!vars

LEMMA LockTypes ==
  ASSUME LP!IInv
  PROVE  /\ step \in [Proc -> LP!Steps]
         /\ arg \in [Proc -> Lock]
         /\ readers \in [Lock -> SUBSET Proc]
         /\ writers \in [Lock -> SUBSET Proc]
  BY DEF LP!IInv, LP!TypeOK

\* A call of one of the functions.
LEMMA CallFrame ==
  ASSUME LP!IInv, NEW r \in Proc, NEW s, NEW l \in Lock, L!Call(r, s, l)
  PROVE  /\ UNCHANGED <<readers, writers>>
         /\ step' = [step EXCEPT ![r] = s]
         /\ step'[r] = s
         /\ \A q \in Proc \ {r} : step'[q] = step[q] /\ arg'[q] = arg[q]
         /\ arg'[r] = l
         /\ s \in {"wlock", "rlock", "unlock"}
         /\ L!Next
  <1>1. L!Call(r, s, l) /\ s \in {"wlock", "rlock", "unlock"}
    BY DEF L!Call
  <1>2. L!Next
    BY <1>1 DEF L!Next
  <1>. QED BY <1>1, <1>2, LockTypes DEF L!Call, L!Goto

\* Every step is one of the locks or leaves them alone.
LEMMA UsesStep ==
  ASSUME [Next]_vars, list \in [Proc -> Lists],
         \A r \in Proc : pc[r] \in {"free", "update"} => current[r] \in Peer
  PROVE  [L!Next]_(L!vars)
  <1>0. Primary \in Lock /\ Backup \in Lock /\ \A r \in Proc : list[r] \in Lock
    BY DEF Lock, Lists
  <1>1. ASSUME NEW r \in Proc, NEW s, NEW l \in Lock, L!Call(r, s, l)
        PROVE  L!Next
    BY <1>1 DEF L!Call, L!Next
  <1>2. ASSUME NEW r \in Proc, Start(r) PROVE L!Next
    BY <1>0, <1>1, <1>2 DEF Start
  <1>3. ASSUME NEW r \in Proc, Get(r) PROVE [L!Next]_(L!vars)
    BY <1>0, <1>1, <1>3
       DEF Get, GetRead, GetPeer, GetBackup, GetAgain, GetBusy, GetRelock,
           GetRelocked, Busy, Forget, locks, L!vars
  <1>4. ASSUME NEW r \in Proc, Free(r) PROVE [L!Next]_(L!vars)
    <2>1. ASSUME NEW f \in 0..1, NEW n \in 0..1, Leave(r, f, n) PROVE L!Next
      BY <1>0, <1>1, <2>1 DEF Leave
    <2>2. CASE FreeLock(r)
      BY <1>0, <1>1, <2>2 DEF FreeLock, Lock, At
    <2>3. CASE FreeRead(r)
      BY <2>3 DEF FreeRead, locks, L!vars
    <2>4. CASE FreeWrite(r)
      BY <1>0, <1>1, <2>4 DEF FreeWrite, Lock, At
    <2>5. CASE FreeUnlock(r)
      BY <1>0, <1>1, <2>5 DEF FreeUnlock
    <2>6. CASE Next_(r)
      BY <1>0, <1>1, <2>6 DEF Next_
    <2>7. CASE End(r)
      BY <2>7 DEF End, Forget, locks, L!vars
    <2>. QED BY <1>4, <2>1, <2>2, <2>3, <2>4, <2>5, <2>6, <2>7 DEF Free
  <1>5. ASSUME NEW r \in Proc, Locking(r) PROVE L!Next
    BY <1>5 DEF Locking, L!Next
  <1>6. CASE Tick
    BY <1>6 DEF Tick, locks, L!vars
  <1>7. CASE UNCHANGED vars
    BY <1>7 DEF vars, locks, L!vars
  <1>. QED BY <1>2, <1>3, <1>4, <1>5, <1>6, <1>7 DEF Next, Step

-----------------------------------------------------------------------------
(* The inductive invariant *)

\* The server a request works with is of its list.
OfList ==
  \A r \in Proc :
    pc[r] \in {"got", "free", "lockpeer", "update", "unlocked"}
      => current[r] \in Members(list[r])

\* Which locks a request has, or is about to have, where it is.
Place(r) ==
  /\ pc[r] = "idle" => list[r] = Primary
  /\ pc[r] = "again" => list[r] = Backup
  /\ pc[r] = "get" => /\ arg[r] = list[r]
                      /\ step[r] \in {"wlock", "out"}
                      /\ step[r] = "out" => r \in writers[list[r]]
  /\ pc[r] = "choose" => step[r] = "out" /\ r \in writers[list[r]]
  /\ pc[r] = "free" => /\ arg[r] = list[r]
                       /\ step[r] \in {"rlock", "rcas", "out"}
                       /\ step[r] = "out" => r \in readers[list[r]]
  /\ pc[r] = "lockpeer" => /\ r \in readers[list[r]]
                           /\ arg[r] = current[r]
                           /\ step[r] \in {"wlock", "out"}
                           /\ step[r] = "out" => r \in writers[current[r]]
  /\ pc[r] = "update" => /\ step[r] = "out"
                         /\ r \in readers[list[r]]
                         /\ r \in writers[current[r]]
  /\ pc[r] = "unlocked" => /\ r \in readers[list[r]]
                           /\ step[r] \in {"unlock", "wfree", "rfree", "out"}
                           /\ step[r] # "out" => arg[r] = current[r]

Places == \A r \in Proc : Place(r)

\* What was read under a lock is still so when it is written.
Copies ==
  \A r \in Proc :
    /\ pc[r] = "choose" => \A p \in Members(list[r]) : copy[r][p] = peer[p]
    /\ pc[r] = "update" => copy[r][current[r]] = peer[current[r]]

\* conns is within the limit.
Limited ==
  \A p \in Peer : conf.max_conns[p] > 0 => peer[p].conns <= conf.max_conns[p]

\* The backup servers come after the others.
InOrder ==
  \A r \in Proc : list[r] = Primary => used[r] \subseteq Members(Primary)

\* Whoever was given a disabled server started its period.
Checks ==
  /\ probes \in [Peer -> SUBSET (Proc \X Nat)]
  /\ \A p \in Peer : probes[p] # {} => peer[p].checked = now

IInv ==
  /\ TypeOK
  /\ LP!IInv
  /\ OfList
  /\ Places
  /\ Copies
  /\ ConnsAreCounted
  /\ Limited
  /\ TriedIsUsed
  /\ InOrder
  /\ Checks
  /\ OneProbe

-----------------------------------------------------------------------------
(* Facts about the operators *)

LEMMA ConfType ==
  ASSUME conf \in Upstreams
  PROVE  /\ conf.primary \in Nat \ {0}
         /\ conf.backup \in Nat
         /\ conf.weight \in [Peer -> Nat]
         /\ conf.max_fails \in [Peer -> Nat]
         /\ conf.max_conns \in [Peer -> Nat]
         /\ conf.limit \in Nat
         /\ 1..(conf.primary + conf.backup) \subseteq Peer
  BY UpstreamAssumption DEF Upstream

LEMMA MembersType ==
  ASSUME conf \in Upstreams, NEW l \in Lists
  PROVE  Members(l) \subseteq Peer
  BY ConfType DEF Members, Lists, Primary, Backup

\* The lists have no server in common, and no lock is two things.
LEMMA Disjoint ==
  ASSUME conf \in Upstreams
  PROVE  /\ Members(Primary) \cap Members(Backup) = {}
         /\ Lists \cap Peer = {}
         /\ No \notin Peer
  BY ConfType, PeerAssumption DEF Members, Lists, Primary, Backup, No

\* A bit stands for one server of a list.
LEMMA IndexIsInjective ==
  ASSUME conf \in Upstreams, NEW l \in Lists, NEW p \in Members(l),
         NEW q \in Members(l), Index(p) = Index(q)
  PROVE  p = q
  BY ConfType DEF Members, Lists, Primary, Backup, Index

LEMMA IndexType ==
  ASSUME conf \in Upstreams, NEW l \in Lists, NEW p \in Members(l)
  PROVE  Index(p) \in Nat
  BY ConfType DEF Members, Lists, Primary, Backup, Index

LEMMA EligibleType ==
  ASSUME conf \in Upstreams, NEW r \in Proc, list[r] \in Lists
  PROVE  Eligible(r) \subseteq Members(list[r])
  BY DEF Eligible

\* Within its bounds effective_weight stays there.
LEMMA LookedType ==
  ASSUME conf \in Upstreams, NEW p \in Peer, NEW s \in Server,
         s.ew <= conf.weight[p]
  PROVE  /\ Looked(p, s) \in Server
         /\ Looked(p, s).ew <= conf.weight[p]
         /\ Looked(p, s).conns = s.conns
         /\ Looked(p, s).checked = s.checked
  <1>1. conf.weight[p] \in Nat
    BY ConfType
  <1>2. CASE ~Single /\ s.ew < conf.weight[p]
    <2>1. Looked(p, s) = [s EXCEPT !.ew = s.ew + 1]
      BY <1>2 DEF Looked
    <2>. QED BY <1>1, <1>2, <2>1 DEF Server
  <1>3. CASE ~(~Single /\ s.ew < conf.weight[p])
    BY <1>3 DEF Looked
  <1>. QED BY <1>2, <1>3

LEMMA ChosenType ==
  ASSUME now \in Nat, NEW s \in Server
  PROVE  /\ Chosen(s) \in Server
         /\ Chosen(s).ew = s.ew
         /\ Chosen(s).conns = s.conns + 1
         /\ s.checked = now => Chosen(s).checked = now
         /\ ~Single /\ now - s.checked > FailTimeout
              => Chosen(s).checked = now
  <1>. DEFINE t == IF ~Single /\ now - s.checked > FailTimeout THEN now
                   ELSE s.checked
              k == s.conns + 1
  <1>1. Chosen(s) = [s EXCEPT !.conns = k, !.checked = t]
    BY DEF Chosen
  <1>2. s.conns \in Int /\ s.checked \in Nat
    BY DEF Server
  <1>3. t \in Nat /\ k \in Int
    BY <1>2
  <1>4. /\ s.checked = now => t = now
        /\ ~Single /\ now - s.checked > FailTimeout => t = now
    OBVIOUS
  <1>. HIDE DEF t, k
  <1>5. /\ Chosen(s) \in Server
        /\ Chosen(s).ew = s.ew
        /\ Chosen(s).conns = k
        /\ Chosen(s).checked = t
    BY <1>1, <1>3 DEF Server
  <1>. QED BY <1>4, <1>5 DEF k

LEMMA Quotient ==
  ASSUME NEW a \in Nat, NEW b \in Nat \ {0}
  PROVE  a \div b \in Nat
  OBVIOUS

LEMMA LoweredType ==
  ASSUME conf \in Upstreams, NEW p \in Peer, NEW s \in Server,
         s.ew <= conf.weight[p]
  PROVE  Lowered(p, s) \in Nat /\ Lowered(p, s) <= conf.weight[p]
  <1>1. s.ew \in Nat /\ conf.weight[p] \in Nat /\ conf.max_fails[p] \in Nat
    BY ConfType DEF Server
  <1>2. CASE conf.max_fails[p] = 0
    BY <1>1, <1>2 DEF Lowered
  <1>3. CASE conf.max_fails[p] # 0
    <2>. DEFINE d == conf.weight[p] \div conf.max_fails[p]
    <2>1. d \in Nat
      BY <1>1, <1>3, Quotient
    <2>. HIDE DEF d
    <2>2. Lowered(p, s) = IF s.ew - d < 0 THEN 0 ELSE s.ew - d
      BY <1>3 DEF Lowered, d
    <2>. QED BY <1>1, <2>1, <2>2
  <1>. QED BY <1>2, <1>3

LEMMA FreedType ==
  ASSUME conf \in Upstreams, now \in Nat, NEW p \in Peer, NEW s \in Server,
         s.ew <= conf.weight[p], NEW f \in 0..1
  PROVE  /\ Freed(p, s, f) \in Server
         /\ Freed(p, s, f).ew <= conf.weight[p]
         /\ Freed(p, s, f).conns = s.conns - 1
         /\ s.checked = now => Freed(p, s, f).checked = now
  <1>. DEFINE e == Lowered(p, s)
              z == IF s.accessed < s.checked THEN 0 ELSE s.fails
              k == s.conns - 1
              m == s.fails + 1
  <1>1. e \in Nat /\ e <= conf.weight[p]
    BY LoweredType
  <1>2. s.conns \in Int /\ s.fails \in Nat
    BY DEF Server
  <1>3. z \in Nat /\ k \in Int /\ m \in Nat
    BY <1>2
  <1>4. CASE Single
    <2>1. Freed(p, s, f) = [s EXCEPT !.conns = k]
      BY <1>4 DEF Freed
    <2>. HIDE DEF k
    <2>2. /\ Freed(p, s, f) \in Server
          /\ Freed(p, s, f).ew = s.ew
          /\ Freed(p, s, f).conns = k
          /\ Freed(p, s, f).checked = s.checked
      BY <1>3, <2>1 DEF Server
    <2>. QED BY <2>2 DEF k
  <1>5. CASE ~Single /\ f = 1
    <2>1. Freed(p, s, f) = [s EXCEPT !.conns = k, !.fails = m,
                              !.accessed = now, !.checked = now, !.ew = e]
      BY <1>5 DEF Freed
    <2>. HIDE DEF e, k, m
    <2>2. /\ Freed(p, s, f) \in Server
          /\ Freed(p, s, f).ew = e
          /\ Freed(p, s, f).conns = k
          /\ Freed(p, s, f).checked = now
      BY <1>1, <1>3, <2>1 DEF Server
    <2>. QED BY <1>1, <2>2 DEF k
  <1>6. CASE ~Single /\ f # 1
    <2>1. Freed(p, s, f) = [s EXCEPT !.conns = k, !.fails = z]
      BY <1>6 DEF Freed
    <2>. HIDE DEF k, z
    <2>2. /\ Freed(p, s, f) \in Server
          /\ Freed(p, s, f).ew = s.ew
          /\ Freed(p, s, f).conns = k
          /\ Freed(p, s, f).checked = s.checked
      BY <1>3, <2>1 DEF Server
    <2>. QED BY <2>2 DEF k
  <1>. QED BY <1>4, <1>5, <1>6

-----------------------------------------------------------------------------
(* The two steps that write servers *)

\* ngx_http_upstream_get_peer() with what it does to the servers.
Given(r, p) ==
  /\ p \in Members(list[r])
  /\ peer' \in [Peer -> Server]
  /\ \A q \in Peer : peer'[q].ew <= conf.weight[q]
  /\ \A q \in Peer : q # p => /\ peer'[q].conns = peer[q].conns
                              /\ peer'[q].checked = peer[q].checked
  /\ \A q \in Peer : q \notin Members(list[r]) => peer'[q] = peer[q]
  /\ peer'[p].conns = peer[p].conns + 1
  /\ peer[p].checked = now => peer'[p].checked = now
  /\ conf.max_conns[p] > 0 => peer[p].conns < conf.max_conns[p]
  /\ ~Single => Index(p) \notin tried[r]
  /\ \/ probes' = probes
     \/ /\ probes' = [probes EXCEPT ![p] = @ \cup {<<r, started>>}]
        /\ peer[p].checked # now
        /\ peer'[p].checked = now
  /\ current' = [current EXCEPT ![r] = p]
  /\ used' = [used EXCEPT ![r] = used[r] \cup {p}]
  /\ tried' = [tried EXCEPT ![r] = IF Single THEN tried[r]
                                   ELSE tried[r] \cup {Index(p)}]

LEMMA GetPeerGives ==
  ASSUME IInv, NEW r \in Proc, GetPeer(r)
  PROVE  \E p \in Peer : Given(r, p)
  <1>0. /\ conf \in Upstreams /\ now \in Nat /\ list[r] \in Lists
        /\ peer \in [Peer -> Server]
        /\ \A q \in Peer : peer[q].ew <= conf.weight[q]
        /\ pc[r] = "choose"
        /\ tried \in [Proc -> SUBSET Nat]
        /\ used \in [Proc -> SUBSET Peer]
        /\ current \in [Proc -> Peer \cup {No}]
    BY DEF IInv, TypeOK, GetPeer, At
  <1>1. /\ Members(list[r]) \subseteq Peer
        /\ Eligible(r) \subseteq Members(list[r])
    BY <1>0, MembersType, EligibleType
  <1>2. \A q \in Members(list[r]) : copy[r][q] = peer[q]
    BY <1>0 DEF IInv, Copies
  <1>3. PICK p \in Eligible(r) :
          /\ peer' = [q \in Peer |->
               IF q \notin Eligible(r) THEN peer[q]
               ELSE IF q = p THEN Chosen(Looked(q, copy[r][q]))
               ELSE Looked(q, copy[r][q])]
          /\ Lets(current, r, p)
          /\ Lets(tried, r, IF Single THEN tried[r]
                            ELSE tried[r] \cup {Index(p)})
          /\ Lets(used, r, used[r] \cup {p})
          /\ probes' = IF ~Single /\ Disabled(p, copy[r][p])
                       THEN [probes EXCEPT ![p] = @ \cup {<<r, started>>}]
                       ELSE probes
    BY DEF GetPeer
  <1>4. p \in Peer /\ p \in Members(list[r])
    BY <1>1
  <1>5. \A q \in Peer :
          peer'[q] = IF q \notin Eligible(r) THEN peer[q]
                     ELSE IF q = p THEN Chosen(Looked(q, peer[q]))
                     ELSE Looked(q, peer[q])
    BY <1>1, <1>2, <1>3
  <1>6. \A q \in Peer : /\ Looked(q, peer[q]) \in Server
                        /\ Looked(q, peer[q]).ew <= conf.weight[q]
                        /\ Looked(q, peer[q]).conns = peer[q].conns
                        /\ Looked(q, peer[q]).checked = peer[q].checked
    BY <1>0, LookedType
  <1>7. /\ Chosen(Looked(p, peer[p])) \in Server
        /\ Chosen(Looked(p, peer[p])).ew <= conf.weight[p]
        /\ Chosen(Looked(p, peer[p])).conns = peer[p].conns + 1
        /\ peer[p].checked = now => Chosen(Looked(p, peer[p])).checked = now
        /\ ~Single /\ now - peer[p].checked > FailTimeout
             => Chosen(Looked(p, peer[p])).checked = now
    BY <1>0, <1>4, <1>6, ChosenType
  <1>8. /\ conf.max_conns[p] > 0 => ~(peer[p].conns >= conf.max_conns[p])
        /\ ~Single => Index(p) \notin tried[r]
        /\ ~Single /\ Disabled(p, peer[p])
             => ~(now - peer[p].checked <= FailTimeout)
    BY <1>2, <1>4 DEF Eligible, Full
  <1>9. peer[p].conns \in Int /\ peer[p].checked \in Nat /\ FailTimeout \in Nat
        /\ conf.max_conns[p] \in Nat
    BY <1>0, <1>4, ConfType, TimeAssumption DEF Server
  <1>10. \/ probes' = probes
         \/ /\ probes' = [probes EXCEPT ![p] = @ \cup {<<r, started>>}]
            /\ peer[p].checked # now
            /\ peer'[p].checked = now
    <2>1. CASE ~Single /\ Disabled(p, peer[p])
      <3>1. now - peer[p].checked > FailTimeout
        BY <1>0, <1>8, <1>9, <2>1
      <3>2. peer[p].checked # now
        BY <1>0, <1>9, <3>1
      <3>3. peer'[p].checked = now
        BY <1>4, <1>5, <1>7, <2>1, <3>1
      <3>. QED BY <1>2, <1>3, <1>4, <2>1, <3>2, <3>3
    <2>2. CASE ~(~Single /\ Disabled(p, peer[p]))
      BY <1>2, <1>3, <1>4, <2>2
    <2>. QED BY <2>1, <2>2
  <1>11. peer' \in [Peer -> Server]
    <2>1. \A q \in Peer : peer'[q] \in Server
      BY <1>0, <1>5, <1>6, <1>7
    <2>. QED BY <1>3, <2>1
  <1>12. \A q \in Peer : peer'[q].ew <= conf.weight[q]
    BY <1>0, <1>5, <1>6, <1>7
  <1>13. \A q \in Peer : q # p => /\ peer'[q].conns = peer[q].conns
                                 /\ peer'[q].checked = peer[q].checked
    BY <1>5, <1>6
  <1>14. \A q \in Peer : q \notin Members(list[r]) => peer'[q] = peer[q]
    BY <1>1, <1>5
  <1>15. /\ peer'[p].conns = peer[p].conns + 1
         /\ peer[p].checked = now => peer'[p].checked = now
    BY <1>4, <1>5, <1>7
  <1>16. conf.max_conns[p] > 0 => peer[p].conns < conf.max_conns[p]
    BY <1>8, <1>9
  <1>17. Given(r, p)
    BY <1>3, <1>4, <1>8, <1>10, <1>11, <1>12, <1>13, <1>14, <1>15, <1>16
       DEF Given, Lets
  <1>. QED BY <1>4, <1>17

\* A server is given back.
LEMMA FreeWriteFrees ==
  ASSUME IInv, NEW r \in Proc, FreeWrite(r)
  PROVE  /\ current[r] \in Members(list[r])
         /\ current[r] \in Peer
         /\ peer' \in [Peer -> Server]
         /\ \A q \in Peer : peer'[q].ew <= conf.weight[q]
         /\ \A q \in Peer : q # current[r] => peer'[q] = peer[q]
         /\ peer'[current[r]].conns = peer[current[r]].conns - 1
         /\ peer[current[r]].checked = now => peer'[current[r]].checked = now
  <1>0. /\ conf \in Upstreams /\ now \in Nat /\ list[r] \in Lists
        /\ peer \in [Peer -> Server]
        /\ \A q \in Peer : peer[q].ew <= conf.weight[q]
        /\ pc[r] = "update"
        /\ failed[r] \in 0..1
    BY DEF IInv, TypeOK, FreeWrite, At
  <1>. DEFINE p == current[r]
  <1>1. p \in Members(list[r])
    BY <1>0 DEF IInv, OfList
  <1>2. p \in Peer
    BY <1>0, <1>1, MembersType
  <1>3. copy[r][p] = peer[p]
    BY <1>0 DEF IInv, Copies
  <1>4. peer' = [peer EXCEPT ![p] = Freed(p, peer[p], failed[r])]
    BY <1>3 DEF FreeWrite
  <1>5. /\ Freed(p, peer[p], failed[r]) \in Server
        /\ Freed(p, peer[p], failed[r]).ew <= conf.weight[p]
        /\ Freed(p, peer[p], failed[r]).conns = peer[p].conns - 1
        /\ peer[p].checked = now => Freed(p, peer[p], failed[r]).checked = now
    BY <1>0, <1>2, FreedType
  <1>. QED BY <1>0, <1>1, <1>2, <1>4, <1>5

-----------------------------------------------------------------------------
(* Every step preserves the invariant *)

\* Types.
LEMMA StepTypeOK ==
  ASSUME IInv, [Next]_vars
  PROVE  TypeOK'
  <1>. USE DEF At, Goto, Lets, plan, after, history, servers
  <1>0. TypeOK
    BY DEF IInv
  <1>. USE DEF Labels, Lists, Blank, Server
  <1>1. ASSUME NEW r \in Proc, Start(r) PROVE TypeOK'
    BY <1>0, <1>1, ConfType DEF Start, TypeOK, Labels
  <1>2. ASSUME NEW r \in Proc, GetRead(r) PROVE TypeOK'
    BY <1>0, <1>2
       DEF GetRead, TypeOK
  <1>3. ASSUME NEW r \in Proc, GetPeer(r) PROVE TypeOK'
    <2>1. PICK p \in Peer : Given(r, p)
      BY <1>3, GetPeerGives
    <2>2. Index(p) \in Nat
      BY <1>0, <2>1, IndexType DEF Given, TypeOK
    <2>. QED BY <1>0, <1>3, <2>1, <2>2 DEF GetPeer, Given, TypeOK, Labels,
                Blank, Server
  <1>4. ASSUME NEW r \in Proc, GetBackup(r) PROVE TypeOK'
    BY <1>0, <1>4
       DEF GetBackup, TypeOK
  <1>5. ASSUME NEW r \in Proc, GetAgain(r) PROVE TypeOK'
    BY <1>0, <1>5
       DEF GetAgain, TypeOK
  <1>6. ASSUME NEW r \in Proc, GetBusy(r) PROVE TypeOK'
    BY <1>0, <1>6
       DEF GetBusy, TypeOK
  <1>7. ASSUME NEW r \in Proc, GetRelock(r) PROVE TypeOK'
    BY <1>0, <1>7
       DEF GetRelock, TypeOK
  <1>8. ASSUME NEW r \in Proc, GetRelocked(r) PROVE TypeOK'
    BY <1>0, <1>8
       DEF GetRelocked, TypeOK
  <1>9. ASSUME NEW r \in Proc, Busy(r) PROVE TypeOK'
    BY <1>0, <1>9
       DEF Busy, Forget, TypeOK
  <1>10. ASSUME NEW r \in Proc, NEW f \in 0..1, NEW n \in 0..1,
               Leave(r, f, n)
        PROVE  TypeOK'
    BY <1>0, <1>10
       DEF Leave, TypeOK
  <1>11. ASSUME NEW r \in Proc, FreeLock(r) PROVE TypeOK'
    BY <1>0, <1>11
       DEF FreeLock, TypeOK
  <1>12. ASSUME NEW r \in Proc, FreeRead(r) PROVE TypeOK'
    BY <1>0, <1>12
       DEF FreeRead, TypeOK
  <1>13. ASSUME NEW r \in Proc, FreeWrite(r) PROVE TypeOK'
    <2>1. /\ peer' \in [Peer -> Server]
          /\ \A q \in Peer : peer'[q].ew <= conf.weight[q]
      BY <1>13, FreeWriteFrees
    <2>2. Blank \in [Peer -> Server]
      OBVIOUS
    <2>. HIDE DEF Server, Blank
    <2>. QED BY <1>0, <1>13, <2>1, <2>2 DEF FreeWrite, TypeOK
  <1>14. ASSUME NEW r \in Proc, FreeUnlock(r) PROVE TypeOK'
    BY <1>0, <1>14
       DEF FreeUnlock, TypeOK
  <1>15. ASSUME NEW r \in Proc, Next_(r) PROVE TypeOK'
    BY <1>0, <1>15
       DEF Next_, TypeOK
  <1>16. ASSUME NEW r \in Proc, End(r) PROVE TypeOK'
    BY <1>0, <1>16
       DEF End, Forget, TypeOK
  <1>17. ASSUME NEW r \in Proc, Locking(r) PROVE TypeOK'
    BY <1>0, <1>17
       DEF Locking, TypeOK
  <1>18. CASE Tick
    BY <1>0, <1>18
       DEF Tick, TypeOK
  <1>19. CASE UNCHANGED vars
    BY <1>0, <1>19
       DEF vars, TypeOK
  <1>. QED
    BY <1>1, <1>2, <1>3, <1>4, <1>5, <1>6, <1>7, <1>8, <1>9, <1>10, <1>11,
       <1>12, <1>13, <1>14, <1>15, <1>16, <1>17, <1>18, <1>19
       DEF Next, Step, Get, Free

\* The server of a request is of its list.
LEMMA StepOfList ==
  ASSUME IInv, [Next]_vars
  PROVE  OfList'
  <1>. USE DEF At, Goto, Lets, plan, after, history, servers
  <1>0. TypeOK /\ OfList
    BY DEF IInv
  <1>1. ASSUME NEW r \in Proc, Start(r) PROVE OfList'
    BY <1>0, <1>1
       DEF Start, OfList, Members, TypeOK
  <1>2. ASSUME NEW r \in Proc, GetRead(r) PROVE OfList'
    BY <1>0, <1>2
       DEF GetRead, OfList, Members, TypeOK
  <1>3. ASSUME NEW r \in Proc, GetPeer(r) PROVE OfList'
    <2>1. PICK p \in Peer : Given(r, p)
      BY <1>3, GetPeerGives
    <2>. QED BY <1>0, <1>3, <2>1 DEF GetPeer, Given, OfList, Members, TypeOK
  <1>4. ASSUME NEW r \in Proc, GetBackup(r) PROVE OfList'
    BY <1>0, <1>4
       DEF GetBackup, OfList, Members, TypeOK
  <1>5. ASSUME NEW r \in Proc, GetAgain(r) PROVE OfList'
    BY <1>0, <1>5
       DEF GetAgain, OfList, Members, TypeOK
  <1>6. ASSUME NEW r \in Proc, GetBusy(r) PROVE OfList'
    BY <1>0, <1>6
       DEF GetBusy, OfList, Members, TypeOK
  <1>7. ASSUME NEW r \in Proc, GetRelock(r) PROVE OfList'
    BY <1>0, <1>7
       DEF GetRelock, OfList, Members, TypeOK
  <1>8. ASSUME NEW r \in Proc, GetRelocked(r) PROVE OfList'
    BY <1>0, <1>8
       DEF GetRelocked, OfList, Members, TypeOK
  <1>9. ASSUME NEW r \in Proc, Busy(r) PROVE OfList'
    BY <1>0, <1>9
       DEF Busy, Forget, OfList, Members, TypeOK
  <1>10. ASSUME NEW r \in Proc, NEW f \in 0..1, NEW n \in 0..1,
               Leave(r, f, n)
        PROVE  OfList'
    BY <1>0, <1>10
       DEF Leave, OfList, Members, TypeOK
  <1>11. ASSUME NEW r \in Proc, FreeLock(r) PROVE OfList'
    BY <1>0, <1>11
       DEF FreeLock, OfList, Members, TypeOK
  <1>12. ASSUME NEW r \in Proc, FreeRead(r) PROVE OfList'
    BY <1>0, <1>12
       DEF FreeRead, OfList, Members, TypeOK
  <1>13. ASSUME NEW r \in Proc, FreeWrite(r) PROVE OfList'
    BY <1>0, <1>13
       DEF FreeWrite, OfList, Members, TypeOK
  <1>14. ASSUME NEW r \in Proc, FreeUnlock(r) PROVE OfList'
    BY <1>0, <1>14
       DEF FreeUnlock, OfList, Members, TypeOK
  <1>15. ASSUME NEW r \in Proc, Next_(r) PROVE OfList'
    BY <1>0, <1>15
       DEF Next_, OfList, Members, TypeOK
  <1>16. ASSUME NEW r \in Proc, End(r) PROVE OfList'
    BY <1>0, <1>16
       DEF End, Forget, OfList, Members, TypeOK
  <1>17. ASSUME NEW r \in Proc, Locking(r) PROVE OfList'
    BY <1>0, <1>17
       DEF Locking, OfList, Members, TypeOK
  <1>18. CASE Tick
    BY <1>0, <1>18
       DEF Tick, OfList, Members, TypeOK
  <1>19. CASE UNCHANGED vars
    BY <1>0, <1>19
       DEF vars, OfList, Members, TypeOK
  <1>. QED
    BY <1>1, <1>2, <1>3, <1>4, <1>5, <1>6, <1>7, <1>8, <1>9, <1>10, <1>11,
       <1>12, <1>13, <1>14, <1>15, <1>16, <1>17, <1>18, <1>19
       DEF Next, Step, Get, Free

\* The locks of a request.
LEMMA StepPlaces ==
  ASSUME IInv, [Next]_vars
  PROVE  Places'
  <1>. USE DEF At, Goto, Lets, plan, after, history, servers
  <1>0. TypeOK /\ Places /\ LP!IInv /\ OfList
    BY DEF IInv
  <1>a. \A r \in Proc :
          pc[r] \in {"got", "free", "lockpeer", "update", "unlocked"}
            => current[r] \in Peer
    BY <1>0, MembersType DEF OfList, TypeOK
  <1>1. ASSUME NEW r \in Proc, Start(r) PROVE Places'
    <2>1. L!Call(r, "wlock", Primary) /\ Primary \in Lock
      BY <1>0, <1>1 DEF Start, Lock, Lists, TypeOK
    <2>2. /\ UNCHANGED <<readers, writers>>
          /\ step'[r] = "wlock" /\ arg'[r] = Primary
          /\ \A q \in Proc \ {r} : step'[q] = step[q] /\ arg'[q] = arg[q]
      BY <1>0, <2>1, CallFrame
    <2>. QED BY <1>0, <1>1, <2>2 DEF Start, Places, Place, TypeOK
  <1>2. ASSUME NEW r \in Proc, GetRead(r) PROVE Places'
    BY <1>0, <1>2 DEF GetRead, locks, Places, Place, TypeOK
  <1>3. ASSUME NEW r \in Proc, GetPeer(r) PROVE Places'
    <2>1. L!Call(r, "unlock", list[r]) /\ list[r] \in Lock
      BY <1>0, <1>3 DEF GetPeer, Lock, Lists, TypeOK
    <2>2. /\ UNCHANGED <<readers, writers>>
          /\ step'[r] = "unlock" /\ arg'[r] = list[r]
          /\ \A q \in Proc \ {r} : step'[q] = step[q] /\ arg'[q] = arg[q]
      BY <1>0, <2>1, CallFrame
    <2>3. /\ \A q \in Proc \ {r} : current'[q] = current[q] /\ pc'[q] = pc[q]
          /\ list' = list
          /\ pc'[r] = "got"
      BY <1>0, <1>3 DEF GetPeer, TypeOK
    <2>. QED BY <1>0, <2>2, <2>3 DEF Places, Place
  <1>4. ASSUME NEW r \in Proc, GetBackup(r) PROVE Places'
    <2>1. L!Call(r, "unlock", Primary) /\ Primary \in Lock
      BY <1>0, <1>4 DEF GetBackup, Lock, Lists, TypeOK
    <2>2. /\ UNCHANGED <<readers, writers>>
          /\ step'[r] = "unlock" /\ arg'[r] = Primary
          /\ \A q \in Proc \ {r} : step'[q] = step[q] /\ arg'[q] = arg[q]
      BY <1>0, <2>1, CallFrame
    <2>. QED BY <1>0, <1>4, <2>2 DEF GetBackup, Places, Place, TypeOK
  <1>5. ASSUME NEW r \in Proc, GetAgain(r) PROVE Places'
    <2>1. L!Call(r, "wlock", Backup) /\ Backup \in Lock
      BY <1>0, <1>5 DEF GetAgain, Lock, Lists, TypeOK
    <2>2. /\ UNCHANGED <<readers, writers>>
          /\ step'[r] = "wlock" /\ arg'[r] = Backup
          /\ \A q \in Proc \ {r} : step'[q] = step[q] /\ arg'[q] = arg[q]
      BY <1>0, <2>1, CallFrame
    <2>. QED BY <1>0, <1>5, <2>2 DEF GetAgain, Places, Place, TypeOK
  <1>6. ASSUME NEW r \in Proc, GetBusy(r) PROVE Places'
    <2>1. L!Call(r, "unlock", list[r]) /\ list[r] \in Lock
      BY <1>0, <1>6 DEF GetBusy, Lock, Lists, TypeOK
    <2>2. /\ UNCHANGED <<readers, writers>>
          /\ step'[r] = "unlock" /\ arg'[r] = list[r]
          /\ \A q \in Proc \ {r} : step'[q] = step[q] /\ arg'[q] = arg[q]
      BY <1>0, <2>1, CallFrame
    <2>. QED BY <1>0, <1>6, <2>2 DEF GetBusy, Places, Place, TypeOK
  <1>7. ASSUME NEW r \in Proc, GetRelock(r) PROVE Places'
    <2>1. L!Call(r, "wlock", Primary) /\ Primary \in Lock
      BY <1>0, <1>7 DEF GetRelock, Lock, Lists, TypeOK
    <2>2. /\ UNCHANGED <<readers, writers>>
          /\ step'[r] = "wlock" /\ arg'[r] = Primary
          /\ \A q \in Proc \ {r} : step'[q] = step[q] /\ arg'[q] = arg[q]
      BY <1>0, <2>1, CallFrame
    <2>. QED BY <1>0, <1>7, <2>2 DEF GetRelock, Places, Place, TypeOK
  <1>8. ASSUME NEW r \in Proc, GetRelocked(r) PROVE Places'
    <2>1. L!Call(r, "unlock", Primary) /\ Primary \in Lock
      BY <1>0, <1>8 DEF GetRelocked, Lock, Lists, TypeOK
    <2>2. /\ UNCHANGED <<readers, writers>>
          /\ step'[r] = "unlock" /\ arg'[r] = Primary
          /\ \A q \in Proc \ {r} : step'[q] = step[q] /\ arg'[q] = arg[q]
      BY <1>0, <2>1, CallFrame
    <2>. QED BY <1>0, <1>8, <2>2 DEF GetRelocked, Places, Place, TypeOK
  <1>9. ASSUME NEW r \in Proc, Busy(r) PROVE Places'
    BY <1>0, <1>9 DEF Busy, Forget, locks, Places, Place, TypeOK
  <1>10. ASSUME NEW r \in Proc, NEW f \in 0..1, NEW n \in 0..1,
               Leave(r, f, n)
        PROVE  Places'
    <2>1. L!Call(r, "rlock", list[r]) /\ list[r] \in Lock
      BY <1>0, <1>10 DEF Leave, Lock, Lists, TypeOK
    <2>2. /\ UNCHANGED <<readers, writers>>
          /\ step'[r] = "rlock" /\ arg'[r] = list[r]
          /\ \A q \in Proc \ {r} : step'[q] = step[q] /\ arg'[q] = arg[q]
      BY <1>0, <2>1, CallFrame
    <2>. QED BY <1>0, <1>10, <2>2 DEF Leave, Places, Place, TypeOK
  <1>11. ASSUME NEW r \in Proc, FreeLock(r) PROVE Places'
    <2>1. L!Call(r, "wlock", current[r]) /\ current[r] \in Lock
      BY <1>0, <1>a, <1>11 DEF FreeLock, Lock, TypeOK
    <2>2. /\ UNCHANGED <<readers, writers>>
          /\ step'[r] = "wlock" /\ arg'[r] = current[r]
          /\ \A q \in Proc \ {r} : step'[q] = step[q] /\ arg'[q] = arg[q]
      BY <1>0, <2>1, CallFrame
    <2>. QED BY <1>0, <1>11, <2>2 DEF FreeLock, Places, Place, TypeOK
  <1>12. ASSUME NEW r \in Proc, FreeRead(r) PROVE Places'
    BY <1>0, <1>12 DEF FreeRead, locks, Places, Place, TypeOK
  <1>13. ASSUME NEW r \in Proc, FreeWrite(r) PROVE Places'
    <2>1. L!Call(r, "unlock", current[r]) /\ current[r] \in Lock
      BY <1>0, <1>a, <1>13 DEF FreeWrite, Lock, Lists, TypeOK
    <2>2. /\ UNCHANGED <<readers, writers>>
          /\ step'[r] = "unlock" /\ arg'[r] = current[r]
          /\ \A q \in Proc \ {r} : step'[q] = step[q] /\ arg'[q] = arg[q]
      BY <1>0, <2>1, CallFrame
    <2>. QED BY <1>0, <1>13, <2>2 DEF FreeWrite, Places, Place, TypeOK
  <1>14. ASSUME NEW r \in Proc, FreeUnlock(r) PROVE Places'
    <2>1. L!Call(r, "unlock", list[r]) /\ list[r] \in Lock
      BY <1>0, <1>14 DEF FreeUnlock, Lock, Lists, TypeOK
    <2>2. /\ UNCHANGED <<readers, writers>>
          /\ step'[r] = "unlock" /\ arg'[r] = list[r]
          /\ \A q \in Proc \ {r} : step'[q] = step[q] /\ arg'[q] = arg[q]
      BY <1>0, <2>1, CallFrame
    <2>. QED BY <1>0, <1>14, <2>2 DEF FreeUnlock, Places, Place, TypeOK
  <1>15. ASSUME NEW r \in Proc, Next_(r) PROVE Places'
    <2>1. L!Call(r, "wlock", list[r]) /\ list[r] \in Lock
      BY <1>0, <1>15 DEF Next_, Lock, Lists, TypeOK
    <2>2. /\ UNCHANGED <<readers, writers>>
          /\ step'[r] = "wlock" /\ arg'[r] = list[r]
          /\ \A q \in Proc \ {r} : step'[q] = step[q] /\ arg'[q] = arg[q]
      BY <1>0, <2>1, CallFrame
    <2>. QED BY <1>0, <1>15, <2>2 DEF Next_, Places, Place, TypeOK
  <1>16. ASSUME NEW r \in Proc, End(r) PROVE Places'
    BY <1>0, <1>16 DEF End, Forget, locks, Places, Place, TypeOK
  <1>17. ASSUME NEW r \in Proc, Locking(r) PROVE Places'
    <2>1. LP!Inside(r)
      BY <1>17, SameInside DEF Locking
    <2>2. /\ arg' = arg /\ step[r] # "out"
          /\ \A q \in Proc \ {r} :
               /\ step'[q] = step[q]
               /\ \A l \in Lock : /\ q \in readers'[l] <=> q \in readers[l]
                                  /\ q \in writers'[l] <=> q \in writers[l]
          /\ \A l \in Lock : l # arg[r] => /\ readers'[l] = readers[l]
                                           /\ writers'[l] = writers[l]
          /\ step[r] = "wlock" => step'[r] = "out" /\ r \in writers'[arg[r]]
          /\ step[r] \in {"rlock", "rcas"} =>
               \/ step'[r] \in {"rlock", "rcas"}
               \/ step'[r] = "out" /\ r \in readers'[arg[r]]
          /\ step[r] \in {"unlock", "wfree", "rfree"} =>
               step'[r] \in {"unlock", "wfree", "rfree", "out"}
      BY <1>0, <2>1, LP!InsideFrame, ProcIsFinite
    <2>3. UNCHANGED <<pc, list, current>>
      BY <1>17 DEF Locking
    <2>4. ASSUME NEW q \in Proc PROVE list[q] \in Lock
      BY <1>0 DEF TypeOK, Lock
    <2>5. ASSUME NEW q \in Proc,
                 pc[q] \in {"free", "lockpeer", "update", "unlocked"}
          PROVE  current[q] \in Lock /\ current[q] # list[q]
      BY <1>0, <1>a, <2>5, Disjoint DEF TypeOK, Lock
    <2>6. ASSUME NEW q \in Proc, q # r PROVE Place(q)'
      BY <1>0, <2>2, <2>3, <2>4, <2>5, <2>6 DEF Places, Place
    <2>7. Place(r)'
      BY <1>0, <2>2, <2>3, <2>4, <2>5 DEF Places, Place
    <2>. QED BY <2>6, <2>7 DEF Places
  <1>18. CASE Tick
    BY <1>0, <1>18 DEF Tick, locks, Places, Place, TypeOK
  <1>19. CASE UNCHANGED vars
    BY <1>0, <1>19 DEF vars, locks, Places, Place, TypeOK
  <1>. QED
    BY <1>1, <1>2, <1>3, <1>4, <1>5, <1>6, <1>7, <1>8, <1>9, <1>10, <1>11,
       <1>12, <1>13, <1>14, <1>15, <1>16, <1>17, <1>18, <1>19
       DEF Next, Step, Get, Free

\* What was read is current while the lock is held.
LEMMA StepCopies ==
  ASSUME IInv, [Next]_vars
  PROVE  Copies'
  <1>. USE DEF At, Goto, Lets, plan, after, history, servers
  <1>0. TypeOK /\ Places /\ LP!IInv /\ OfList /\ Copies
    BY DEF IInv
  <1>b. \A l \in Lock : \A p \in writers[l] :
          writers[l] = {p} /\ readers[l] = {}
    BY <1>0, LP!Exclusion, ProcIsFinite
  <1>1. ASSUME NEW r \in Proc, Start(r) PROVE Copies'
    BY <1>0, <1>1
       DEF Start, Copies, Members, TypeOK
  <1>2. ASSUME NEW r \in Proc, GetRead(r) PROVE Copies'
    BY <1>0, <1>2, MembersType DEF GetRead, Copies, Members, TypeOK
  <1>3. ASSUME NEW r \in Proc, GetPeer(r) PROVE Copies'
    <2>1. PICK p \in Peer : Given(r, p)
      BY <1>3, GetPeerGives
    <2>2. pc[r] = "choose" /\ r \in writers[list[r]] /\ list[r] \in Lock
      BY <1>0, <1>3 DEF GetPeer, Places, Place, TypeOK, Lock
    <2>3. /\ conf' = conf /\ list' = list /\ pc'[r] = "got"
          /\ \A q \in Proc \ {r} : /\ pc'[q] = pc[q]
                                   /\ copy'[q] = copy[q]
                                   /\ current'[q] = current[q]
      BY <1>0, <1>3 DEF GetPeer, TypeOK
    <2>4. \A q \in Peer : q \notin Members(list[r]) => peer'[q] = peer[q]
      BY <2>1 DEF Given
    <2>5. ASSUME NEW q \in Proc \ {r}, pc[q] = "choose"
          PROVE  \A p1 \in Members(list[q]) : copy'[q][p1] = peer'[p1]
      <3>1. q \in writers[list[q]] /\ list[q] \in Lists /\ list[r] \in Lists
        BY <1>0, <2>5 DEF Places, Place, TypeOK
      <3>2. list[q] # list[r]
        BY <1>b, <2>2, <3>1
      <3>3. Members(list[q]) \cap Members(list[r]) = {}
        BY <1>0, <3>1, <3>2, Disjoint DEF Lists, TypeOK
      <3>4. Members(list[q]) \subseteq Peer
        BY <1>0, <3>1, MembersType DEF TypeOK
      <3>. QED BY <1>0, <2>3, <2>4, <2>5, <3>3, <3>4 DEF Copies
    <2>6. ASSUME NEW q \in Proc \ {r}, pc[q] = "update"
          PROVE  copy'[q][current[q]] = peer'[current[q]]
      <3>1. /\ q \in readers[list[q]] /\ list[q] \in Lists /\ list[r] \in Lists
            /\ current[q] \in Members(list[q])
        BY <1>0, <2>6 DEF Places, Place, TypeOK, OfList
      <3>2. list[q] # list[r]
        BY <1>b, <2>2, <3>1
      <3>3. Members(list[q]) \cap Members(list[r]) = {}
        BY <1>0, <3>1, <3>2, Disjoint DEF Lists, TypeOK
      <3>4. Members(list[q]) \subseteq Peer
        BY <1>0, <3>1, MembersType DEF TypeOK
      <3>. QED BY <1>0, <2>3, <2>4, <2>6, <3>1, <3>3, <3>4 DEF Copies
    <2>. QED BY <2>3, <2>5, <2>6 DEF Copies, Members
  <1>4. ASSUME NEW r \in Proc, GetBackup(r) PROVE Copies'
    BY <1>0, <1>4
       DEF GetBackup, Copies, Members, TypeOK
  <1>5. ASSUME NEW r \in Proc, GetAgain(r) PROVE Copies'
    BY <1>0, <1>5
       DEF GetAgain, Copies, Members, TypeOK
  <1>6. ASSUME NEW r \in Proc, GetBusy(r) PROVE Copies'
    BY <1>0, <1>6
       DEF GetBusy, Copies, Members, TypeOK
  <1>7. ASSUME NEW r \in Proc, GetRelock(r) PROVE Copies'
    BY <1>0, <1>7
       DEF GetRelock, Copies, Members, TypeOK
  <1>8. ASSUME NEW r \in Proc, GetRelocked(r) PROVE Copies'
    BY <1>0, <1>8
       DEF GetRelocked, Copies, Members, TypeOK
  <1>9. ASSUME NEW r \in Proc, Busy(r) PROVE Copies'
    BY <1>0, <1>9
       DEF Busy, Forget, Copies, Members, TypeOK
  <1>10. ASSUME NEW r \in Proc, NEW f \in 0..1, NEW n \in 0..1,
               Leave(r, f, n)
        PROVE  Copies'
    BY <1>0, <1>10
       DEF Leave, Copies, Members, TypeOK
  <1>11. ASSUME NEW r \in Proc, FreeLock(r) PROVE Copies'
    BY <1>0, <1>11
       DEF FreeLock, Copies, Members, TypeOK
  <1>12. ASSUME NEW r \in Proc, FreeRead(r) PROVE Copies'
    BY <1>0, <1>12
       DEF FreeRead, Copies, Members, TypeOK
  <1>13. ASSUME NEW r \in Proc, FreeWrite(r) PROVE Copies'
    <2>1. /\ \A q \in Peer : q # current[r] => peer'[q] = peer[q]
          /\ current[r] \in Members(list[r])
      BY <1>13, FreeWriteFrees
    <2>2. /\ pc[r] = "update" /\ r \in readers[list[r]] /\ list[r] \in Lock
          /\ r \in writers[current[r]] /\ current[r] \in Lock
      BY <1>0, <1>13, FreeWriteFrees DEF FreeWrite, Places, Place, TypeOK, Lock
    <2>3. /\ conf' = conf /\ list' = list /\ pc'[r] = "unlocked"
          /\ current' = current
          /\ \A q \in Proc \ {r} : pc'[q] = pc[q] /\ copy'[q] = copy[q]
      BY <1>0, <1>13 DEF FreeWrite, TypeOK
    <2>4. ASSUME NEW q \in Proc \ {r}, pc[q] = "choose"
          PROVE  \A p1 \in Members(list[q]) : copy'[q][p1] = peer'[p1]
      <3>1. q \in writers[list[q]] /\ list[q] \in Lists /\ list[r] \in Lists
        BY <1>0, <2>4 DEF Places, Place, TypeOK
      <3>2. list[q] # list[r]
        BY <1>b, <2>2, <3>1 DEF Lock
      <3>3. Members(list[q]) \cap Members(list[r]) = {}
        BY <1>0, <3>1, <3>2, Disjoint DEF Lists, TypeOK
      <3>4. Members(list[q]) \subseteq Peer
        BY <1>0, <3>1, MembersType DEF TypeOK
      <3>. QED BY <1>0, <2>1, <2>3, <2>4, <3>3, <3>4 DEF Copies
    <2>5. ASSUME NEW q \in Proc \ {r}, pc[q] = "update"
          PROVE  copy'[q][current[q]] = peer'[current[q]]
      <3>1. /\ q \in writers[current[q]]
            /\ list[q] \in Lists /\ current[q] \in Members(list[q])
        BY <1>0, <2>5 DEF Places, Place, TypeOK, OfList
      <3>2. current[q] # current[r]
        BY <1>b, <2>2, <3>1
      <3>3. current[q] \in Peer
        BY <1>0, <3>1, MembersType DEF TypeOK
      <3>. QED BY <1>0, <2>1, <2>3, <2>5, <3>2, <3>3 DEF Copies
    <2>. QED BY <2>3, <2>4, <2>5 DEF Copies, Members
  <1>14. ASSUME NEW r \in Proc, FreeUnlock(r) PROVE Copies'
    BY <1>0, <1>14
       DEF FreeUnlock, Copies, Members, TypeOK
  <1>15. ASSUME NEW r \in Proc, Next_(r) PROVE Copies'
    BY <1>0, <1>15
       DEF Next_, Copies, Members, TypeOK
  <1>16. ASSUME NEW r \in Proc, End(r) PROVE Copies'
    BY <1>0, <1>16
       DEF End, Forget, Copies, Members, TypeOK
  <1>17. ASSUME NEW r \in Proc, Locking(r) PROVE Copies'
    BY <1>0, <1>17
       DEF Locking, Copies, Members, TypeOK
  <1>18. CASE Tick
    BY <1>0, <1>18
       DEF Tick, Copies, Members, TypeOK
  <1>19. CASE UNCHANGED vars
    BY <1>0, <1>19
       DEF vars, Copies, Members, TypeOK
  <1>. QED
    BY <1>1, <1>2, <1>3, <1>4, <1>5, <1>6, <1>7, <1>8, <1>9, <1>10, <1>11,
       <1>12, <1>13, <1>14, <1>15, <1>16, <1>17, <1>18, <1>19
       DEF Next, Step, Get, Free

\* conns and its limit.
LEMMA StepCounted ==
  ASSUME IInv, [Next]_vars
  PROVE  (ConnsAreCounted /\ Limited)'
  <1>. USE DEF At, Goto, Lets, plan, after, history, servers
  <1>0. TypeOK /\ ConnsAreCounted /\ Limited
    BY DEF IInv
  <1>1. ASSUME NEW r \in Proc, Start(r) PROVE (ConnsAreCounted /\ Limited)'
    <2>1. /\ peer' = peer /\ conf' = conf
          /\ \A p \in Peer : Holders(p)' = Holders(p)
      BY <1>0, <1>1 DEF Start, Holders, TypeOK
    <2>. QED BY <1>0, <2>1 DEF ConnsAreCounted, Limited
  <1>2. ASSUME NEW r \in Proc, GetRead(r) PROVE (ConnsAreCounted /\ Limited)'
    <2>1. /\ peer' = peer /\ conf' = conf
          /\ \A p \in Peer : Holders(p)' = Holders(p)
      BY <1>0, <1>2 DEF GetRead, Holders, TypeOK
    <2>. QED BY <1>0, <2>1 DEF ConnsAreCounted, Limited
  <1>3. ASSUME NEW r \in Proc, GetPeer(r) PROVE (ConnsAreCounted /\ Limited)'
    <2>1. PICK p \in Peer : Given(r, p)
      BY <1>3, GetPeerGives
    <2>2. /\ pc[r] = "choose" /\ pc'[r] = "got" /\ conf' = conf
          /\ \A q \in Proc \ {r} : pc'[q] = pc[q] /\ current'[q] = current[q]
      BY <1>0, <1>3 DEF GetPeer, TypeOK
    <2>3. current'[r] = p
      BY <1>0, <2>1 DEF Given, TypeOK
    <2>4. Holders(p)' = Holders(p) \cup {r} /\ r \notin Holders(p)
      BY <2>2, <2>3 DEF Holders
    <2>5. \A q \in Peer : q # p => Holders(q)' = Holders(q)
      BY <2>2, <2>3 DEF Holders
    <2>6. IsFiniteSet(Holders(p))
      BY ProcAssumption, FS_Subset DEF Holders
    <2>7. Cardinality(Holders(p))' = Cardinality(Holders(p)) + 1
      BY <2>4, <2>6, FS_AddElement
    <2>8. /\ peer'[p].conns = peer[p].conns + 1
          /\ \A q \in Peer : q # p => peer'[q].conns = peer[q].conns
          /\ conf.max_conns[p] > 0 => peer[p].conns < conf.max_conns[p]
      BY <2>1 DEF Given
    <2>9. ConnsAreCounted'
      BY <1>0, <2>5, <2>7, <2>8 DEF ConnsAreCounted
    <2>10. peer[p].conns \in Int /\ conf.max_conns[p] \in Nat
      BY <1>0, ConfType DEF TypeOK, Server
    <2>11. Limited'
      BY <1>0, <2>2, <2>8, <2>10 DEF Limited
    <2>. QED BY <2>9, <2>11
  <1>4. ASSUME NEW r \in Proc, GetBackup(r) PROVE (ConnsAreCounted /\ Limited)'
    <2>1. /\ peer' = peer /\ conf' = conf
          /\ \A p \in Peer : Holders(p)' = Holders(p)
      BY <1>0, <1>4 DEF GetBackup, Holders, TypeOK
    <2>. QED BY <1>0, <2>1 DEF ConnsAreCounted, Limited
  <1>5. ASSUME NEW r \in Proc, GetAgain(r) PROVE (ConnsAreCounted /\ Limited)'
    <2>1. /\ peer' = peer /\ conf' = conf
          /\ \A p \in Peer : Holders(p)' = Holders(p)
      BY <1>0, <1>5 DEF GetAgain, Holders, TypeOK
    <2>. QED BY <1>0, <2>1 DEF ConnsAreCounted, Limited
  <1>6. ASSUME NEW r \in Proc, GetBusy(r) PROVE (ConnsAreCounted /\ Limited)'
    <2>1. /\ peer' = peer /\ conf' = conf
          /\ \A p \in Peer : Holders(p)' = Holders(p)
      BY <1>0, <1>6 DEF GetBusy, Holders, TypeOK
    <2>. QED BY <1>0, <2>1 DEF ConnsAreCounted, Limited
  <1>7. ASSUME NEW r \in Proc, GetRelock(r) PROVE (ConnsAreCounted /\ Limited)'
    <2>1. /\ peer' = peer /\ conf' = conf
          /\ \A p \in Peer : Holders(p)' = Holders(p)
      BY <1>0, <1>7 DEF GetRelock, Holders, TypeOK
    <2>. QED BY <1>0, <2>1 DEF ConnsAreCounted, Limited
  <1>8. ASSUME NEW r \in Proc, GetRelocked(r)
        PROVE  (ConnsAreCounted /\ Limited)'
    <2>1. /\ peer' = peer /\ conf' = conf
          /\ \A p \in Peer : Holders(p)' = Holders(p)
      BY <1>0, <1>8 DEF GetRelocked, Holders, TypeOK
    <2>. QED BY <1>0, <2>1 DEF ConnsAreCounted, Limited
  <1>9. ASSUME NEW r \in Proc, Busy(r) PROVE (ConnsAreCounted /\ Limited)'
    <2>1. /\ peer' = peer /\ conf' = conf
          /\ \A p \in Peer : Holders(p)' = Holders(p)
      BY <1>0, <1>9 DEF Busy, Forget, Holders, TypeOK
    <2>. QED BY <1>0, <2>1 DEF ConnsAreCounted, Limited
  <1>10. ASSUME NEW r \in Proc, NEW f \in 0..1, NEW n \in 0..1,
               Leave(r, f, n)
        PROVE  (ConnsAreCounted /\ Limited)'
    <2>1. /\ peer' = peer /\ conf' = conf
          /\ \A p \in Peer : Holders(p)' = Holders(p)
      BY <1>0, <1>10 DEF Leave, Holders, TypeOK
    <2>. QED BY <1>0, <2>1 DEF ConnsAreCounted, Limited
  <1>11. ASSUME NEW r \in Proc, FreeLock(r) PROVE (ConnsAreCounted /\ Limited)'
    <2>1. /\ peer' = peer /\ conf' = conf
          /\ \A p \in Peer : Holders(p)' = Holders(p)
      BY <1>0, <1>11 DEF FreeLock, Holders, TypeOK
    <2>. QED BY <1>0, <2>1 DEF ConnsAreCounted, Limited
  <1>12. ASSUME NEW r \in Proc, FreeRead(r) PROVE (ConnsAreCounted /\ Limited)'
    <2>1. /\ peer' = peer /\ conf' = conf
          /\ \A p \in Peer : Holders(p)' = Holders(p)
      BY <1>0, <1>12 DEF FreeRead, Holders, TypeOK
    <2>. QED BY <1>0, <2>1 DEF ConnsAreCounted, Limited
  <1>13. ASSUME NEW r \in Proc, FreeWrite(r)
         PROVE  (ConnsAreCounted /\ Limited)'
    <2>. DEFINE p == current[r]
    <2>1. /\ p \in Peer
          /\ \A q \in Peer : q # p => peer'[q] = peer[q]
          /\ peer'[p].conns = peer[p].conns - 1
      BY <1>13, FreeWriteFrees
    <2>2. /\ pc[r] = "update" /\ pc'[r] = "unlocked" /\ conf' = conf
          /\ current' = current
          /\ \A q \in Proc \ {r} : pc'[q] = pc[q]
      BY <1>0, <1>13 DEF FreeWrite, TypeOK
    <2>. HIDE DEF p
    <2>3. Holders(p)' = Holders(p) \ {r} /\ r \in Holders(p)
      BY <2>2 DEF Holders, p
    <2>4. \A q \in Peer : q # p => Holders(q)' = Holders(q)
      BY <2>2 DEF Holders, p
    <2>5. IsFiniteSet(Holders(p))
      BY ProcAssumption, FS_Subset DEF Holders
    <2>6. Cardinality(Holders(p))' = Cardinality(Holders(p)) - 1
      BY <2>3, <2>5, FS_RemoveElement
    <2>. DEFINE n(q) == Cardinality(Holders(q))
    <2>7. n(p)' = n(p) - 1
      BY <2>6
    <2>8. p' = p
      BY <2>2 DEF p
    <2>9. \A q \in Peer : q # p => n(q)' = n(q)
      BY <2>4
    <2>10. \A q \in Peer : peer[q].conns = n(q)
      BY <1>0 DEF ConnsAreCounted
    <2>. HIDE DEF n
    <2>11. \A q \in Peer : peer'[q].conns = n(q)'
      BY <2>1, <2>7, <2>8, <2>9, <2>10
    <2>12. ConnsAreCounted'
      BY <2>11 DEF ConnsAreCounted, n
    <2>13. peer[p].conns \in Int /\ conf.max_conns[p] \in Nat
      BY <1>0, <2>1, ConfType DEF TypeOK, Server
    <2>14. Limited'
      BY <1>0, <2>1, <2>2, <2>13 DEF Limited
    <2>. QED BY <2>12, <2>14
  <1>14. ASSUME NEW r \in Proc, FreeUnlock(r)
         PROVE  (ConnsAreCounted /\ Limited)'
    <2>1. /\ peer' = peer /\ conf' = conf
          /\ \A p \in Peer : Holders(p)' = Holders(p)
      BY <1>0, <1>14 DEF FreeUnlock, Holders, TypeOK
    <2>. QED BY <1>0, <2>1 DEF ConnsAreCounted, Limited
  <1>15. ASSUME NEW r \in Proc, Next_(r) PROVE (ConnsAreCounted /\ Limited)'
    <2>1. /\ peer' = peer /\ conf' = conf
          /\ \A p \in Peer : Holders(p)' = Holders(p)
      BY <1>0, <1>15 DEF Next_, Holders, TypeOK
    <2>. QED BY <1>0, <2>1 DEF ConnsAreCounted, Limited
  <1>16. ASSUME NEW r \in Proc, End(r) PROVE (ConnsAreCounted /\ Limited)'
    <2>1. /\ peer' = peer /\ conf' = conf
          /\ \A p \in Peer : Holders(p)' = Holders(p)
      BY <1>0, <1>16 DEF End, Forget, Holders, TypeOK
    <2>. QED BY <1>0, <2>1 DEF ConnsAreCounted, Limited
  <1>17. ASSUME NEW r \in Proc, Locking(r) PROVE (ConnsAreCounted /\ Limited)'
    <2>1. /\ peer' = peer /\ conf' = conf
          /\ \A p \in Peer : Holders(p)' = Holders(p)
      BY <1>0, <1>17 DEF Locking, Holders, TypeOK
    <2>. QED BY <1>0, <2>1 DEF ConnsAreCounted, Limited
  <1>18. CASE Tick
    <2>1. /\ peer' = peer /\ conf' = conf
          /\ \A p \in Peer : Holders(p)' = Holders(p)
      BY <1>0, <1>18 DEF Tick, Holders, TypeOK
    <2>. QED BY <1>0, <2>1 DEF ConnsAreCounted, Limited
  <1>19. CASE UNCHANGED vars
    <2>1. /\ peer' = peer /\ conf' = conf
          /\ \A p \in Peer : Holders(p)' = Holders(p)
      BY <1>0, <1>19 DEF vars, Holders, TypeOK
    <2>. QED BY <1>0, <2>1 DEF ConnsAreCounted, Limited
  <1>. QED
    BY <1>1, <1>2, <1>3, <1>4, <1>5, <1>6, <1>7, <1>8, <1>9, <1>10, <1>11,
       <1>12, <1>13, <1>14, <1>15, <1>16, <1>17, <1>18, <1>19
       DEF Next, Step, Get, Free

\* The bits of the servers that were tried.
LEMMA StepTried ==
  ASSUME IInv, [Next]_vars
  PROVE  (TriedIsUsed /\ InOrder)'
  <1>. USE DEF At, Goto, Lets, plan, after, history, servers
  <1>0. TypeOK /\ TriedIsUsed /\ InOrder
    BY DEF IInv
  <1>1. ASSUME NEW r \in Proc, Start(r) PROVE (TriedIsUsed /\ InOrder)'
    BY <1>0, <1>1
       DEF Start, TriedIsUsed, InOrder, Members, Index, Single, TypeOK
  <1>2. ASSUME NEW r \in Proc, GetRead(r) PROVE (TriedIsUsed /\ InOrder)'
    BY <1>0, <1>2
       DEF GetRead, TriedIsUsed, InOrder, Members, Index, Single, TypeOK
  <1>3. ASSUME NEW r \in Proc, GetPeer(r) PROVE (TriedIsUsed /\ InOrder)'
    <2>1. PICK p \in Peer : Given(r, p)
      BY <1>3, GetPeerGives
    <2>2. conf' = conf /\ list' = list
      BY <1>0, <1>3 DEF GetPeer, TypeOK
    <2>3. /\ p \in Members(list[r])
          /\ \A q \in Proc \ {r} : used'[q] = used[q] /\ tried'[q] = tried[q]
          /\ used'[r] = used[r] \cup {p}
          /\ ~Single => tried'[r] = tried[r] \cup {Index(p)}
      BY <1>0, <2>1 DEF Given, TypeOK
    <2>4. \A q \in Members(list[r]) : Index(q) = Index(p) => q = p
      BY <1>0, <2>3, IndexIsInjective DEF TypeOK
    <2>5. ~Single => \A q \in Members(list[r]) :
                       Index(q) \in tried'[r] <=> q \in used'[r]
      BY <1>0, <2>3, <2>4 DEF TriedIsUsed
    <2>6. ~Single => \A s \in Proc : \A q \in Members(list[s]) :
                       Index(q) \in tried'[s] <=> q \in used'[s]
      BY <1>0, <2>3, <2>5 DEF TriedIsUsed
    <2>7. TriedIsUsed'
      BY <2>2, <2>6 DEF TriedIsUsed, Members, Index, Single
    <2>8. \A s \in Proc : list[s] = Primary =>
            used'[s] \subseteq Members(Primary)
      BY <1>0, <2>3 DEF InOrder
    <2>9. InOrder'
      BY <2>2, <2>8 DEF InOrder, Members
    <2>. QED BY <2>7, <2>9
  <1>4. ASSUME NEW r \in Proc, GetBackup(r) PROVE (TriedIsUsed /\ InOrder)'
    <2>1. /\ conf' = conf /\ used' = used /\ list[r] = Primary
          /\ list'[r] = Backup /\ tried'[r] = {}
          /\ \A q \in Proc \ {r} : list'[q] = list[q] /\ tried'[q] = tried[q]
      BY <1>0, <1>4 DEF GetBackup, TypeOK
    <2>2. used[r] \cap Members(Backup) = {}
      BY <1>0, <2>1, Disjoint DEF InOrder, TypeOK
    <2>3. ~Single => \A s \in Proc : \A q \in Members(list'[s]) :
                       Index(q) \in tried'[s] <=> q \in used[s]
      BY <1>0, <2>1, <2>2 DEF TriedIsUsed
    <2>4. TriedIsUsed'
      BY <2>1, <2>3 DEF TriedIsUsed, Members, Index, Single
    <2>5. Primary # Backup
      BY DEF Primary, Backup
    <2>6. InOrder'
      BY <1>0, <2>1, <2>5 DEF InOrder, Members
    <2>. QED BY <2>4, <2>6
  <1>5. ASSUME NEW r \in Proc, GetAgain(r) PROVE (TriedIsUsed /\ InOrder)'
    BY <1>0, <1>5
       DEF GetAgain, TriedIsUsed, InOrder, Members, Index, Single, TypeOK
  <1>6. ASSUME NEW r \in Proc, GetBusy(r) PROVE (TriedIsUsed /\ InOrder)'
    BY <1>0, <1>6
       DEF GetBusy, TriedIsUsed, InOrder, Members, Index, Single, TypeOK
  <1>7. ASSUME NEW r \in Proc, GetRelock(r) PROVE (TriedIsUsed /\ InOrder)'
    BY <1>0, <1>7
       DEF GetRelock, TriedIsUsed, InOrder, Members, Index, Single, TypeOK
  <1>8. ASSUME NEW r \in Proc, GetRelocked(r) PROVE (TriedIsUsed /\ InOrder)'
    BY <1>0, <1>8
       DEF GetRelocked, TriedIsUsed, InOrder, Members, Index, Single, TypeOK
  <1>9. ASSUME NEW r \in Proc, Busy(r) PROVE (TriedIsUsed /\ InOrder)'
    BY <1>0, <1>9
       DEF Busy, Forget, TriedIsUsed, InOrder, Members, Index, Single, TypeOK
  <1>10. ASSUME NEW r \in Proc, NEW f \in 0..1, NEW n \in 0..1,
               Leave(r, f, n)
        PROVE  (TriedIsUsed /\ InOrder)'
    BY <1>0, <1>10
       DEF Leave, TriedIsUsed, InOrder, Members, Index, Single, TypeOK
  <1>11. ASSUME NEW r \in Proc, FreeLock(r) PROVE (TriedIsUsed /\ InOrder)'
    BY <1>0, <1>11
       DEF FreeLock, TriedIsUsed, InOrder, Members, Index, Single, TypeOK
  <1>12. ASSUME NEW r \in Proc, FreeRead(r) PROVE (TriedIsUsed /\ InOrder)'
    BY <1>0, <1>12
       DEF FreeRead, TriedIsUsed, InOrder, Members, Index, Single, TypeOK
  <1>13. ASSUME NEW r \in Proc, FreeWrite(r) PROVE (TriedIsUsed /\ InOrder)'
    BY <1>0, <1>13
       DEF FreeWrite, TriedIsUsed, InOrder, Members, Index, Single, TypeOK
  <1>14. ASSUME NEW r \in Proc, FreeUnlock(r) PROVE (TriedIsUsed /\ InOrder)'
    BY <1>0, <1>14
       DEF FreeUnlock, TriedIsUsed, InOrder, Members, Index, Single, TypeOK
  <1>15. ASSUME NEW r \in Proc, Next_(r) PROVE (TriedIsUsed /\ InOrder)'
    BY <1>0, <1>15
       DEF Next_, TriedIsUsed, InOrder, Members, Index, Single, TypeOK
  <1>16. ASSUME NEW r \in Proc, End(r) PROVE (TriedIsUsed /\ InOrder)'
    BY <1>0, <1>16
       DEF End, Forget, TriedIsUsed, InOrder, Members, Index, Single, TypeOK
  <1>17. ASSUME NEW r \in Proc, Locking(r) PROVE (TriedIsUsed /\ InOrder)'
    BY <1>0, <1>17
       DEF Locking, TriedIsUsed, InOrder, Members, Index, Single, TypeOK
  <1>18. CASE Tick
    BY <1>0, <1>18
       DEF Tick, TriedIsUsed, InOrder, Members, Index, Single, TypeOK
  <1>19. CASE UNCHANGED vars
    BY <1>0, <1>19
       DEF vars, TriedIsUsed, InOrder, Members, Index, Single, TypeOK
  <1>. QED
    BY <1>1, <1>2, <1>3, <1>4, <1>5, <1>6, <1>7, <1>8, <1>9, <1>10, <1>11,
       <1>12, <1>13, <1>14, <1>15, <1>16, <1>17, <1>18, <1>19
       DEF Next, Step, Get, Free

\* Disabled servers are given out one at a time.
LEMMA StepProbes ==
  ASSUME IInv, [Next]_vars
  PROVE  (Checks /\ OneProbe)'
  <1>. USE DEF At, Goto, Lets, plan, after, history, servers
  <1>0. TypeOK /\ Checks /\ OneProbe
    BY DEF IInv
  <1>1. ASSUME NEW r \in Proc, Start(r) PROVE (Checks /\ OneProbe)'
    BY <1>0, <1>1
       DEF Start, Checks, OneProbe, TypeOK
  <1>2. ASSUME NEW r \in Proc, GetRead(r) PROVE (Checks /\ OneProbe)'
    BY <1>0, <1>2
       DEF GetRead, Checks, OneProbe, TypeOK
  <1>3. ASSUME NEW r \in Proc, GetPeer(r) PROVE (Checks /\ OneProbe)'
    <2>1. PICK p \in Peer : Given(r, p)
      BY <1>3, GetPeerGives
    <2>2. now' = now /\ started \in Nat
      BY <1>0, <1>3 DEF GetPeer, TypeOK
    <2>3. \A q \in Peer : peer[q].checked = now => peer'[q].checked = now
      BY <2>1 DEF Given
    <2>4. CASE probes' = probes
      BY <1>0, <2>2, <2>3, <2>4 DEF Checks, OneProbe
    <2>5. CASE probes' # probes
      <3>1. /\ probes' = [probes EXCEPT ![p] = @ \cup {<<r, started>>}]
            /\ peer[p].checked # now
            /\ peer'[p].checked = now
        BY <2>1, <2>5 DEF Given
      <3>2. probes[p] = {}
        BY <1>0, <3>1 DEF Checks
      <3>3. /\ probes'[p] = {<<r, started>>}
            /\ \A q \in Peer : q # p => probes'[q] = probes[q]
            /\ probes' \in [Peer -> SUBSET (Proc \X Nat)]
        BY <1>0, <2>2, <3>1, <3>2 DEF Checks
      <3>4. Cardinality(probes'[p]) = 1
        BY <3>3, FS_Singleton
      <3>5. Checks'
        BY <1>0, <2>2, <2>3, <3>1, <3>3 DEF Checks
      <3>6. OneProbe'
        BY <1>0, <3>3, <3>4 DEF OneProbe
      <3>. QED BY <3>5, <3>6
    <2>. QED BY <2>4, <2>5
  <1>4. ASSUME NEW r \in Proc, GetBackup(r) PROVE (Checks /\ OneProbe)'
    BY <1>0, <1>4
       DEF GetBackup, Checks, OneProbe, TypeOK
  <1>5. ASSUME NEW r \in Proc, GetAgain(r) PROVE (Checks /\ OneProbe)'
    BY <1>0, <1>5
       DEF GetAgain, Checks, OneProbe, TypeOK
  <1>6. ASSUME NEW r \in Proc, GetBusy(r) PROVE (Checks /\ OneProbe)'
    BY <1>0, <1>6
       DEF GetBusy, Checks, OneProbe, TypeOK
  <1>7. ASSUME NEW r \in Proc, GetRelock(r) PROVE (Checks /\ OneProbe)'
    BY <1>0, <1>7
       DEF GetRelock, Checks, OneProbe, TypeOK
  <1>8. ASSUME NEW r \in Proc, GetRelocked(r) PROVE (Checks /\ OneProbe)'
    BY <1>0, <1>8
       DEF GetRelocked, Checks, OneProbe, TypeOK
  <1>9. ASSUME NEW r \in Proc, Busy(r) PROVE (Checks /\ OneProbe)'
    BY <1>0, <1>9
       DEF Busy, Forget, Checks, OneProbe, TypeOK
  <1>10. ASSUME NEW r \in Proc, NEW f \in 0..1, NEW n \in 0..1,
               Leave(r, f, n)
        PROVE  (Checks /\ OneProbe)'
    BY <1>0, <1>10
       DEF Leave, Checks, OneProbe, TypeOK
  <1>11. ASSUME NEW r \in Proc, FreeLock(r) PROVE (Checks /\ OneProbe)'
    BY <1>0, <1>11
       DEF FreeLock, Checks, OneProbe, TypeOK
  <1>12. ASSUME NEW r \in Proc, FreeRead(r) PROVE (Checks /\ OneProbe)'
    BY <1>0, <1>12
       DEF FreeRead, Checks, OneProbe, TypeOK
  <1>13. ASSUME NEW r \in Proc, FreeWrite(r) PROVE (Checks /\ OneProbe)'
    <2>1. /\ \A q \in Peer : q # current[r] => peer'[q] = peer[q]
          /\ peer[current[r]].checked = now => peer'[current[r]].checked = now
      BY <1>13, FreeWriteFrees
    <2>2. now' = now /\ probes' = probes
      BY <1>13 DEF FreeWrite
    <2>. QED BY <1>0, <2>1, <2>2 DEF Checks, OneProbe
  <1>14. ASSUME NEW r \in Proc, FreeUnlock(r) PROVE (Checks /\ OneProbe)'
    BY <1>0, <1>14
       DEF FreeUnlock, Checks, OneProbe, TypeOK
  <1>15. ASSUME NEW r \in Proc, Next_(r) PROVE (Checks /\ OneProbe)'
    BY <1>0, <1>15
       DEF Next_, Checks, OneProbe, TypeOK
  <1>16. ASSUME NEW r \in Proc, End(r) PROVE (Checks /\ OneProbe)'
    BY <1>0, <1>16
       DEF End, Forget, Checks, OneProbe, TypeOK
  <1>17. ASSUME NEW r \in Proc, Locking(r) PROVE (Checks /\ OneProbe)'
    BY <1>0, <1>17
       DEF Locking, Checks, OneProbe, TypeOK
  <1>18. CASE Tick
    BY <1>0, <1>18, FS_EmptySet DEF Tick, Checks, OneProbe, TypeOK
  <1>19. CASE UNCHANGED vars
    BY <1>0, <1>19
       DEF vars, Checks, OneProbe, TypeOK
  <1>. QED
    BY <1>1, <1>2, <1>3, <1>4, <1>5, <1>6, <1>7, <1>8, <1>9, <1>10, <1>11,
       <1>12, <1>13, <1>14, <1>15, <1>16, <1>17, <1>18, <1>19
       DEF Next, Step, Get, Free

-----------------------------------------------------------------------------
(* The weights *)

LEMMA MembersAreFinite ==
  ASSUME conf \in Upstreams, NEW l \in Lists
  PROVE  IsFiniteSet(Members(l))
  <1>1. conf.primary \in Int /\ conf.backup \in Int
    BY ConfType
  <1>2. \A a, b \in Int : IsFiniteSet(a..b)
    BY FS_Interval
  <1>3. 1 \in Int /\ conf.primary + 1 \in Int
        /\ conf.primary + conf.backup \in Int
    BY <1>1
  <1>4. Members(l) = 1..conf.primary
        \/ Members(l) = (conf.primary + 1)..(conf.primary + conf.backup)
    BY DEF Members
  <1>. QED BY <1>1, <1>2, <1>3, <1>4

\* A choice adds effective_weight to the servers it looked at and takes what it
\* added, in total, from the one it chose: the sum stays what it was.
LEMMA ChoiceKeepsSum ==
  ASSUME conf \in Upstreams, NEW r \in Proc, list[r] \in Lists,
         weight \in [Peer -> Int], copy[r] \in [Peer -> Server],
         NEW p \in Eligible(r), ~Single
  PROVE  SumFunctionOnSet(Weights(r, p), Members(list[r]))
           = SumFunctionOnSet(weight, Members(list[r]))
  <1>. DEFINE S == Members(list[r])
              E == Eligible(r)
              ew == [q \in Peer |-> copy[r][q].ew]
              up == [q \in Peer |-> IF q \in E THEN Raised(r, q) ELSE weight[q]]
              w == Weights(r, p)
  <1>1. IsFiniteSet(S) /\ S \subseteq Peer /\ E \subseteq S /\ p \in S
    BY MembersAreFinite, MembersType, EligibleType
  <1>2. Total(r) = SumFunctionOnSet(ew, E)
    BY DEF Total
  <1>3. \A q \in Peer : ew[q] \in Int /\ weight[q] \in Int
    BY DEF Server
  <1>4. \A q \in E : up[q] = weight[q] + ew[q]
    BY <1>1 DEF Raised
  <1>5. \A q \in S \ E : up[q] = weight[q]
    BY <1>1
  <1>6. \A q \in S \ {p} : w[q] = up[q]
    BY <1>1 DEF Weights
  <1>7. w[p] = up[p] - Total(r)
    BY <1>1 DEF Weights
  <1>. HIDE DEF S, E, ew, up, w
  <1>8. \A q \in S : up[q] \in Int
    BY <1>1, <1>3, <1>4, <1>5
  <1>9. SumFunctionOnSet(ew, E) \in Int /\ SumFunctionOnSet(weight, S) \in Int
    <2>1. IsFiniteSet(E)
      BY <1>1, FS_Subset
    <2>. QED BY <1>1, <1>3, <2>1, SumType
  <1>10. SumFunctionOnSet(up, S)
           = SumFunctionOnSet(weight, S) + SumFunctionOnSet(ew, E)
    BY <1>1, <1>3, <1>4, <1>5, SumAdd
  <1>11. SumFunctionOnSet(w, S) = SumFunctionOnSet(up, S) - Total(r)
    BY <1>1, <1>2, <1>6, <1>7, <1>8, <1>9, SumTake
  <1>12. SumFunctionOnSet(w, S) = SumFunctionOnSet(weight, S)
    BY <1>2, <1>9, <1>10, <1>11
  <1>. QED BY <1>12 DEF S, w

\* The values are integers.
WeightType == weight \in [Peer -> Int]

LEMMA StepWeights ==
  ASSUME IInv, WeightType, WeightsBalance, [Next]_vars
  PROVE  WeightType' /\ WeightsBalance'
  <1>0. conf \in Upstreams /\ list \in [Proc -> Lists]
        /\ copy \in [Proc -> [Peer -> Server]] /\ weight \in [Peer -> Int]
    BY DEF IInv, TypeOK, WeightType
  <1>1. CASE UNCHANGED <<weight, conf>>
    BY <1>1 DEF WeightType, WeightsBalance, Members
  <1>2. ASSUME NEW r \in Proc, GetPeer(r)
        PROVE  WeightType' /\ WeightsBalance'
    <2>1. PICK p \in Eligible(r) : weight' = Weights(r, p)
      BY <1>2 DEF GetPeer
    <2>2. conf' = conf
      BY <1>2 DEF GetPeer
    <2>3. CASE Single
      <3>1. \A q \in Peer : Weights(r, p)[q] = weight[q]
        BY <2>3 DEF Weights
      <3>2. Weights(r, p) = [q \in Peer |-> Weights(r, p)[q]]
        BY DEF Weights
      <3>3. weight' = weight
        BY <1>0, <2>1, <3>1, <3>2
      <3>. QED BY <1>1, <2>2, <3>3
    <2>4. CASE ~Single
      <3>1. Eligible(r) \subseteq Members(list[r])
            /\ Members(list[r]) \subseteq Peer
            /\ IsFiniteSet(Members(list[r]))
        BY <1>0, MembersType, EligibleType, MembersAreFinite
      <3>2. WeightType'
        <4>1. \A q \in Peer : copy[r][q].ew \in Int /\ weight[q] \in Int
          BY <1>0 DEF Server
        <4>2. Total(r) \in Int
          <5>. DEFINE ew == [q \in Peer |-> copy[r][q].ew]
          <5>1. IsFiniteSet(Eligible(r)) /\ \A q \in Eligible(r) : ew[q] \in Int
            BY <3>1, <4>1, FS_Subset
          <5>2. SumFunctionOnSet(ew, Eligible(r)) \in Int
            <6>. HIDE DEF ew
            <6>. QED BY <5>1, SumType
          <5>. QED BY <5>2 DEF Total
        <4>3. Weights(r, p) \in [Peer -> Int]
          BY <4>1, <4>2 DEF Weights, Raised
        <4>. QED BY <2>1, <4>3 DEF WeightType
      <3>3. ASSUME NEW l \in Lists
            PROVE  SumFunctionOnSet(weight', Members(l)) = 0
        <4>0. SumFunctionOnSet(weight, Members(l)) = 0
          BY DEF WeightsBalance
        <4>1. CASE l = list[r]
          <5>1. SumFunctionOnSet(Weights(r, p), Members(list[r]))
                  = SumFunctionOnSet(weight, Members(list[r]))
            BY <1>0, <2>4, ChoiceKeepsSum
          <5>. QED BY <2>1, <4>0, <4>1, <5>1
        <4>2. CASE l # list[r]
          <5>1. IsFiniteSet(Members(l)) /\ Members(l) \subseteq Peer
            BY <1>0, MembersAreFinite, MembersType
          <5>2. list[r] \in Lists
            BY <1>0
          <5>3. Members(l) \cap Members(list[r]) = {}
            BY <1>0, <4>2, <5>2, Disjoint DEF Lists
          <5>4. \A q \in Members(l) : weight'[q] = weight[q]
            BY <2>1, <3>1, <5>1, <5>3 DEF Weights
          <5>5. SumFunctionOnSet(weight', Members(l))
                  = SumFunctionOnSet(weight, Members(l))
            BY <5>1, <5>4, SumAgree
          <5>. QED BY <4>0, <5>5
        <4>. QED BY <4>1, <4>2
      <3>4. \A l \in Lists : Members(l)' = Members(l)
        BY <2>2 DEF Members
      <3>. QED BY <3>2, <3>3, <3>4 DEF WeightsBalance
    <2>. QED BY <2>3, <2>4
  <1>3. ASSUME NEW r \in Proc, Start(r) \/ Step(r), ~GetPeer(r)
        PROVE  UNCHANGED <<weight, conf>>
    BY <1>3 DEF Start, Step, Get, Free, GetRead, GetBackup, GetAgain, GetBusy,
                GetRelock, GetRelocked, Busy, Leave, FreeLock, FreeRead,
                FreeWrite, FreeUnlock, Next_, End, Forget, Locking, servers
  <1>4. CASE Tick \/ UNCHANGED vars
    BY <1>1, <1>4 DEF Tick, vars, servers
  <1>. QED BY <1>1, <1>2, <1>3, <1>4 DEF Next

-----------------------------------------------------------------------------
(* The theorems *)

LEMMA InitHolds == Init => IInv
  <1>. SUFFICES ASSUME Init PROVE IInv
    OBVIOUS
  <1>0. conf \in Upstreams
    BY DEF Init
  <1>1. TypeOK
    BY <1>0, ConfType, TimeAssumption
       DEF Init, TypeOK, Server, Labels, Lists, Blank
  <1>2. LP!IInv
    <2>1. L!Init
      BY DEF Init, L!Init, Lock, Lists
    <2>. QED BY <2>1, SameInit, LP!InitHolds
  <1>3. OfList /\ Places /\ Copies
    BY DEF Init, OfList, Places, Place, Copies
  <1>4. ConnsAreCounted /\ Limited
    <2>1. \A p \in Peer : Holders(p) = {}
      BY DEF Init, Holders
    <2>2. \A p \in Peer : Cardinality(Holders(p)) = 0
      BY <2>1, FS_EmptySet
    <2>3. \A p \in Peer : peer[p].conns = 0
      BY DEF Init
    <2>4. \A p \in Peer : conf.max_conns[p] \in Nat
      BY <1>0, ConfType
    <2>5. ConnsAreCounted
      BY <2>2, <2>3 DEF ConnsAreCounted
    <2>. QED BY <2>3, <2>4, <2>5 DEF Limited
  <1>5. TriedIsUsed /\ InOrder
    BY DEF Init, TriedIsUsed, InOrder
  <1>6. Checks /\ OneProbe
    BY FS_EmptySet DEF Init, Checks, OneProbe
  <1>. QED BY <1>1, <1>2, <1>3, <1>4, <1>5, <1>6 DEF IInv

LEMMA LocksHold ==
  ASSUME IInv, [Next]_vars
  PROVE  [L!Next]_(L!vars) /\ LP!IInv'
  <1>1. \A r \in Proc : pc[r] \in {"free", "update"} => current[r] \in Peer
    BY MembersType DEF IInv, OfList, TypeOK
  <1>2. [L!Next]_(L!vars)
    BY <1>1, UsesStep DEF IInv, TypeOK
  <1>. QED BY <1>2, LockStep DEF IInv

LEMMA StepHolds == IInv /\ [Next]_vars => IInv'
  BY StepTypeOK, LocksHold, StepOfList, StepPlaces, StepCopies, StepCounted,
     StepTried, StepProbes DEF IInv

LEMMA Invariance == Spec => []IInv
  BY InitHolds, StepHolds, PTL DEF Spec

\* The type invariant, with the bounds of effective_weight, for any upstream.
THEOREM TypeCorrect == Spec => []TypeOK
  <1>1. IInv => TypeOK
    BY DEF IInv
  <1>. QED BY Invariance, <1>1, PTL

\* conns is the number of requests that have the server: the locks lose no
\* update of get and free.
THEOREM CountCorrect == Spec => []ConnsAreCounted
  <1>1. IInv => ConnsAreCounted
    BY DEF IInv
  <1>. QED BY Invariance, <1>1, PTL

\* max_conns bounds the requests of all workers together.
THEOREM LimitCorrect == Spec => []MaxConnsKept
  <1>1. IInv => MaxConnsKept
    BY DEF IInv, ConnsAreCounted, Limited, MaxConnsKept
  <1>. QED BY Invariance, <1>1, PTL

\* The bits of rrp->tried name the servers the request was given.
THEOREM TriedCorrect == Spec => []TriedIsUsed
  <1>1. IInv => TriedIsUsed
    BY DEF IInv
  <1>. QED BY Invariance, <1>1, PTL

\* Between two ticks of the clock a disabled server is given to one request.
THEOREM ProbeCorrect == Spec => []OneProbe
  <1>1. IInv => OneProbe
    BY DEF IInv
  <1>. QED BY Invariance, <1>1, PTL

\* The current weights of a list always add up to zero, for any number of
\* servers: round robin keeps its shares.
THEOREM WeightsCorrect == Spec => []WeightsBalance
  <1>1. Init => WeightType /\ WeightsBalance
    <2>. SUFFICES ASSUME Init PROVE WeightType /\ WeightsBalance
      OBVIOUS
    <2>1. conf \in Upstreams /\ weight = [p \in Peer |-> 0]
      BY DEF Init
    <2>2. ASSUME NEW l \in Lists
          PROVE  SumFunctionOnSet(weight, Members(l)) = 0
      <3>1. IsFiniteSet(Members(l)) /\ \A q \in Members(l) : weight[q] = 0
        BY <2>1, MembersAreFinite, MembersType
      <3>. QED BY <3>1, SumOfZeros
    <2>. QED BY <2>1, <2>2 DEF WeightType, WeightsBalance
  <1>2. IInv /\ WeightType /\ WeightsBalance /\ [Next]_vars
          => WeightType' /\ WeightsBalance'
    BY StepWeights
  <1>. QED BY <1>1, <1>2, Invariance, PTL DEF Spec

\* The words of the locks tell who is inside.
THEOREM WordCorrect == Spec => []LockWordIsExact
  <1>1. IInv => LockWordIsExact
    BY SameWord DEF IInv, LP!IInv, LockWordIsExact
  <1>. QED BY Invariance, <1>1, PTL

\* The requests call the locks as module Rwlock has it.
THEOREM LocksAreUsed == Spec => UsesLocks
  <1>1. Init => L!Init
    BY DEF Init, L!Init, Lock, Lists
  <1>2. IInv /\ [Next]_vars => [L!Next]_(L!vars)
    BY LocksHold
  <1>. QED BY Invariance, <1>1, <1>2, PTL DEF Spec, UsesLocks, L!Spec

\* The locks of an upstream are reader-writer locks.
THEOREM LocksRefine == Spec => ImplementsReadWrite
  <1>1. Init => L!Promise!Init
    BY DEF Init, L!Promise!Init, Lock, Lists
  <1>2. IInv /\ [Next]_vars => [L!Promise!Next]_(L!Promise!vars)
    <2>. SUFFICES ASSUME IInv, [Next]_vars
                  PROVE  [L!Promise!Next]_(L!Promise!vars)
      OBVIOUS
    <2>1. [LP!Next]_(LP!vars)
      BY LocksHold, SameNext DEF L!vars, LP!vars
    <2>2. [LP!Promise!Next]_(LP!Promise!vars)
      BY <2>1, LP!StepRefines, ProcIsFinite DEF IInv
    <2>. QED
      BY <2>2 DEF L!Promise!Next, LP!Promise!Next, L!Promise!vars,
         LP!Promise!vars, L!Promise!AcquireRead, LP!Promise!AcquireRead,
         L!Promise!AcquireWrite, LP!Promise!AcquireWrite,
         L!Promise!ReleaseRead, LP!Promise!ReleaseRead,
         L!Promise!ReleaseWrite, LP!Promise!ReleaseWrite
  <1>. QED
    BY Invariance, <1>1, <1>2, PTL
       DEF Spec, ImplementsReadWrite, L!ImplementsReadWrite, L!Promise!Spec

=============================================================================
