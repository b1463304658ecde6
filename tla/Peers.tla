------------------------------- MODULE Peers -------------------------------
(***************************************************************************)
(* The servers of an upstream whose state is in a shared memory zone, as   *)
(* ngx_http_upstream_round_robin.c keeps it and the requests of all worker *)
(* processes use it.                                                       *)
(*                                                                         *)
(* ngx_http_upstream_get_round_robin_peer() holds the lock of the list of  *)
(* servers for writing; ngx_http_upstream_free_round_robin_peer() holds it *)
(* for reading and the lock of the one server for writing.  The locks are  *)
(* those of module Rwlock.  A function reads what it needs of a server in  *)
(* one step and writes it in another: only the locks keep other requests   *)
(* out in between.                                                         *)
(*                                                                         *)
(* A process here is a request.  The requests of one worker do not run at  *)
(* the same time; giving each its own worker contains what fewer workers   *)
(* can do.  ngx_time() is the same for all of them.                        *)
(***************************************************************************)
EXTENDS Integers, FiniteSets, Functions

CONSTANTS
  Proc,        \* requests that can be under way at the same time
  Peer,        \* servers, an initial segment of the positive integers
  Upstreams,   \* the configurations to consider
  FailTimeout, \* fail_timeout of every server, in ticks
  MaxTicks,    \* bound on how often the clock ticks
  MaxGets      \* bound on how often a server is asked for

VARIABLES
  word, step, arg, seen, readers, writers, \* of Rwlock
  conf,      \* the configuration
  now,       \* ngx_time()
  peer,      \* the servers: effective_weight, conns, fails, accessed, checked
  weight,    \* current_weight of the servers
  pc,        \* where a request is
  list,      \* rrp->peers
  current,   \* rrp->current, No before the first server
  tried,     \* rrp->tried, by position in the list
  tries,     \* pc->tries
  nested,    \* 1 in the call for the backup servers
  failed,    \* NGX_PEER_FAILED of the call to free
  retry,     \* 1 if the next server is to be asked after free
  copy,      \* what the request has read under its lock
  started,   \* calls to get so far
  used,      \* history: the servers a request was given
  probes     \* history: requests given a disabled server since the last tick

Primary == -1
Backup == -2
Lists == {Primary, Backup}
Lock == Lists \cup Peer
No == 0

L == INSTANCE Rwlock

locks == <<word, step, arg, seen, readers, writers>>
servers == <<peer, weight>>
plan == <<list, current, tried, tries, nested>>
after == <<failed, retry>>
history == <<started, used, probes>>
vars == <<locks, servers, plan, after, history, conf, now, pc, copy>>

\* An upstream: the first "primary" servers are in the first list, the next
\* "backup" ones in the list of backup servers.  limit is next_upstream_tries.
Upstream == [primary : Nat \ {0}, backup : Nat, weight : [Peer -> Nat],
             max_fails : [Peer -> Nat], max_conns : [Peer -> Nat],
             down : SUBSET Peer, limit : Nat]

ASSUME ProcAssumption == IsFiniteSet(Proc)
ASSUME PeerAssumption == Peer \subseteq Nat \ {0}
ASSUME UpstreamAssumption ==
  /\ Upstreams \subseteq Upstream
  /\ \A u \in Upstreams : 1..(u.primary + u.backup) \subseteq Peer
ASSUME TimeAssumption == FailTimeout \in Nat /\ MaxTicks \in Nat
ASSUME RequestAssumption == MaxGets \in Nat

Server == [ew : Nat, conns : Int, fails : Nat, accessed : Nat, checked : Nat]

\* The value of copy when nothing was read.
Blank == [p \in Peer |-> [ew |-> 0, conns |-> 0, fails |-> 0, accessed |-> 0,
                          checked |-> 0]]

Members(l) == IF l = Primary THEN 1..conf.primary
              ELSE (conf.primary + 1)..(conf.primary + conf.backup)
\* The bit of a server in rrp->tried.
Index(p) == IF p <= conf.primary THEN p ELSE p - conf.primary
Single == conf.primary = 1 /\ conf.backup = 0

\* ngx_http_upstream_init_round_robin() and the copy into the zone.
Init ==
  /\ conf \in Upstreams
  /\ now = FailTimeout + 1
  /\ peer = [p \in Peer |-> [ew |-> conf.weight[p], conns |-> 0, fails |-> 0,
                             accessed |-> 0, checked |-> 0]]
  /\ weight = [p \in Peer |-> 0]
  /\ word = [l \in Lock |-> 0]
  /\ step = [r \in Proc |-> "out"]
  /\ arg = [r \in Proc |-> Primary]
  /\ seen = [r \in Proc |-> 0]
  /\ readers = [l \in Lock |-> {}]
  /\ writers = [l \in Lock |-> {}]
  /\ pc = [r \in Proc |-> "idle"]
  /\ list = [r \in Proc |-> Primary]
  /\ current = [r \in Proc |-> No]
  /\ tried = [r \in Proc |-> {}]
  /\ tries = [r \in Proc |-> 0]
  /\ nested = [r \in Proc |-> 0]
  /\ failed = [r \in Proc |-> 0]
  /\ retry = [r \in Proc |-> 0]
  /\ copy = [r \in Proc |-> Blank]
  /\ started = 0
  /\ used = [r \in Proc |-> {}]
  /\ probes = [p \in Peer |-> {}]

(***************************************************************************)
(* idle     no request                  free     has to lock the server    *)
(* get      the list is being locked    lockpeer server being locked       *)
(* choose   the servers were read       update   the server was read       *)
(* again    on to the backup servers    unlocked has to unlock the list    *)
(* relock   locks the first list again  freed    the server is given back  *)
(* relocked and unlocks it              got      works with the server     *)
(* busy     no server was found                                            *)
(***************************************************************************)
Labels == {"idle", "get", "choose", "again", "relock", "relocked", "busy",
           "got", "free", "lockpeer", "update", "unlocked", "freed"}

\* The request is at l and in no function of ngx_rwlock.c.
At(r, l) == pc[r] = l /\ step[r] = "out"
Goto(r, l) == pc' = [pc EXCEPT ![r] = l]
Lets(f, r, v) == f' = [f EXCEPT ![r] = v]

\* ngx_http_upstream_init_round_robin_peer(), next_upstream_tries, and the call
\* to get.
Start(r) ==
  LET all == conf.primary + conf.backup IN
  /\ At(r, "idle")
  /\ started < MaxGets
  /\ started' = started + 1
  /\ Lets(tries, r, IF conf.limit > 0 /\ all > conf.limit THEN conf.limit
                    ELSE all)
  /\ L!Call(r, "wlock", Primary)
  /\ Goto(r, "get")
  /\ UNCHANGED <<servers, after, list, current, tried, nested, used, probes,
                 conf, now, copy>>

\* The request and what it kept are gone.
Forget(r) ==
  /\ Lets(list, r, Primary)
  /\ Lets(current, r, No)
  /\ Lets(tried, r, {})
  /\ Lets(tries, r, 0)
  /\ Lets(nested, r, 0)
  /\ Lets(failed, r, 0)
  /\ Lets(retry, r, 0)
  /\ Lets(used, r, {})
  /\ Goto(r, "idle")
  /\ UNCHANGED <<locks, servers, started, probes, conf, now, copy>>

-----------------------------------------------------------------------------
(* ngx_http_upstream_get_round_robin_peer *)

\* The servers are read.
GetRead(r) ==
  /\ At(r, "get")
  /\ Lets(copy, r, peer)
  /\ Goto(r, "choose")
  /\ UNCHANGED <<locks, servers, plan, after, history, conf, now>>

\* "upstream server temporarily disabled", as s says.
Disabled(p, s) == conf.max_fails[p] > 0 /\ s.fails >= conf.max_fails[p]

\* Mutant: one more is let in.
Full_OffByOne(p, s) == conf.max_conns[p] > 0 /\ s.conns > conf.max_conns[p]

Full(p, s) == conf.max_conns[p] > 0 /\ s.conns >= conf.max_conns[p]

\* The servers that get considers; a single one is taken also if it failed.
Eligible(r) ==
  {p \in Members(list[r]) \ conf.down :
    /\ ~Full(p, copy[r][p])
    /\ \/ Single
       \/ /\ Index(p) \notin tried[r]
          /\ ~(Disabled(p, copy[r][p])
               /\ now - copy[r][p].checked <= FailTimeout)}

Raised(r, p) == weight[p] + copy[r][p].ew

\* The first of those with the largest current_weight.
Best(r, p) ==
  \A q \in Eligible(r) :
    \/ Raised(r, q) < Raised(r, p)
    \/ Raised(r, q) = Raised(r, p) /\ p <= q

Total(r) == SumFunctionOnSet([p \in Peer |-> copy[r][p].ew], Eligible(r))

\* Mutant: a check does not start a new period.
Chosen_NotChecked(s) == [s EXCEPT !.conns = s.conns + 1]

\* What the choice of a server changes in it.
Chosen(s) ==
  [s EXCEPT !.conns = s.conns + 1,
            !.checked = IF ~Single /\ now - s.checked > FailTimeout THEN now
                        ELSE s.checked]

\* effective_weight recovers with every look at a server.
Looked(p, s) ==
  IF ~Single /\ s.ew < conf.weight[p] THEN [s EXCEPT !.ew = s.ew + 1] ELSE s

\* Mutant: best->current_weight is not lowered by what was added before.
Weights_One(r, p) ==
  [q \in Peer |-> IF q \notin Eligible(r) THEN weight[q]
                  ELSE IF q = p THEN weight[q] ELSE Raised(r, q)]

\* The new values of current_weight.
Weights(r, p) ==
  [q \in Peer |-> IF Single \/ q \notin Eligible(r) THEN weight[q]
                  ELSE IF q = p THEN Raised(r, q) - Total(r)
                  ELSE Raised(r, q)]

\* A server is chosen: the servers that were looked at are written.
GetPeer(r) ==
  /\ At(r, "choose")
  /\ \E p \in Eligible(r) :
       /\ Best(r, p)
       /\ weight' = Weights(r, p)
       /\ peer' = [q \in Peer |->
            IF q \notin Eligible(r) THEN peer[q]
            ELSE IF q = p THEN Chosen(Looked(q, copy[r][q]))
            ELSE Looked(q, copy[r][q])]
       /\ Lets(current, r, p)
       /\ Lets(tried, r, IF Single THEN tried[r] ELSE tried[r] \cup {Index(p)})
       /\ Lets(used, r, used[r] \cup {p})
       /\ probes' = IF ~Single /\ Disabled(p, copy[r][p])
                    THEN [probes EXCEPT ![p] = @ \cup {<<r, started>>}]
                    ELSE probes
  /\ L!Call(r, "unlock", list[r])
  /\ Lets(copy, r, Blank)
  /\ Goto(r, "got")
  /\ UNCHANGED <<after, list, tries, nested, started, conf, now>>

\* Mutant: the bits of the servers tried so far are kept for the other list.
GetBackup_KeepsTried(r) ==
  /\ At(r, "choose")
  /\ Eligible(r) = {}
  /\ list[r] = Primary
  /\ conf.backup > 0
  /\ Lets(list, r, Backup)
  /\ Lets(nested, r, 1)
  /\ L!Call(r, "unlock", Primary)
  /\ Lets(copy, r, Blank)
  /\ Goto(r, "again")
  /\ UNCHANGED <<servers, after, history, tried, current, tries, conf, now>>

\* None is left, but there are backup servers: the list changes, and the
\* function calls itself.
GetBackup(r) ==
  /\ At(r, "choose")
  /\ Eligible(r) = {}
  /\ list[r] = Primary
  /\ conf.backup > 0
  /\ Lets(list, r, Backup)
  /\ Lets(tried, r, {})
  /\ Lets(nested, r, 1)
  /\ L!Call(r, "unlock", Primary)
  /\ Lets(copy, r, Blank)
  /\ Goto(r, "again")
  /\ UNCHANGED <<servers, after, history, current, tries, conf, now>>

GetAgain(r) ==
  /\ At(r, "again")
  /\ L!Call(r, "wlock", Backup)
  /\ Goto(r, "get")
  /\ UNCHANGED <<servers, plan, after, history, conf, now, copy>>

\* NGX_BUSY: the outer call locks its list once more to unlock it.
GetBusy(r) ==
  /\ At(r, "choose")
  /\ Eligible(r) = {}
  /\ list[r] = Backup \/ conf.backup = 0
  /\ L!Call(r, "unlock", list[r])
  /\ Lets(copy, r, Blank)
  /\ Goto(r, IF nested[r] = 1 THEN "relock" ELSE "busy")
  /\ UNCHANGED <<servers, plan, after, history, conf, now>>

GetRelock(r) ==
  /\ At(r, "relock")
  /\ L!Call(r, "wlock", Primary)
  /\ Goto(r, "relocked")
  /\ UNCHANGED <<servers, plan, after, history, conf, now, copy>>

\* Mutant: the return without the unlock.
GetRelocked_Returns(r) ==
  /\ At(r, "relocked")
  /\ Goto(r, "busy")
  /\ UNCHANGED <<locks, servers, plan, after, history, conf, now, copy>>

GetRelocked(r) ==
  /\ At(r, "relocked")
  /\ L!Call(r, "unlock", Primary)
  /\ Goto(r, "busy")
  /\ UNCHANGED <<servers, plan, after, history, conf, now, copy>>

\* "no live upstreams": NGX_HTTP_UPSTREAM_FT_NOLIVE is never in next_upstream,
\* and there is no server to give back.
Busy(r) ==
  /\ At(r, "busy")
  /\ Forget(r)

-----------------------------------------------------------------------------
(* ngx_http_upstream_next and ngx_http_upstream_finalize_request *)

\* The answer of the server, an error or a timeout: f says whether the server
\* failed, n whether another one may be asked.
Leave(r, f, n) ==
  /\ At(r, "got")
  /\ f <= n
  /\ Lets(failed, r, f)
  /\ Lets(retry, r, n)
  /\ Lets(nested, r, 0)
  /\ L!Call(r, "rlock", list[r])
  /\ Goto(r, "free")
  /\ UNCHANGED <<servers, list, current, tried, tries, history, conf, now,
                 copy>>

\* Mutant: the server is read before it is locked.
FreeLock_ReadsFirst(r) ==
  /\ At(r, "free")
  /\ Lets(copy, r, peer)
  /\ L!Call(r, "wlock", current[r])
  /\ Goto(r, "update")
  /\ UNCHANGED <<servers, plan, after, history, conf, now>>

\* ngx_http_upstream_free_round_robin_peer().
FreeLock(r) ==
  /\ At(r, "free")
  /\ L!Call(r, "wlock", current[r])
  /\ Goto(r, "lockpeer")
  /\ UNCHANGED <<servers, plan, after, history, conf, now, copy>>

FreeRead(r) ==
  /\ At(r, "lockpeer")
  /\ Lets(copy, r, peer)
  /\ Goto(r, "update")
  /\ UNCHANGED <<locks, servers, plan, after, history, conf, now>>

\* Mutant: effective_weight may go below zero.
Lowered_Negative(p, s) ==
  IF conf.max_fails[p] = 0 THEN s.ew
  ELSE s.ew - (conf.weight[p] \div conf.max_fails[p])

\* effective_weight after a failure.
Lowered(p, s) ==
  IF conf.max_fails[p] = 0 THEN s.ew
  ELSE LET e == s.ew - (conf.weight[p] \div conf.max_fails[p])
       IN  IF e < 0 THEN 0 ELSE e

\* The server after the call with state f.
Freed(p, s, f) ==
  IF Single THEN [s EXCEPT !.conns = s.conns - 1]
  ELSE IF f = 1
  THEN [s EXCEPT !.conns = s.conns - 1, !.fails = s.fails + 1,
                 !.accessed = now, !.checked = now, !.ew = Lowered(p, s)]
  ELSE [s EXCEPT !.conns = s.conns - 1,
                 !.fails = IF s.accessed < s.checked THEN 0 ELSE s.fails]

FreeWrite(r) ==
  LET p == current[r] IN
  /\ At(r, "update")
  /\ peer' = [peer EXCEPT ![p] = Freed(p, copy[r][p], failed[r])]
  /\ L!Call(r, "unlock", p)
  /\ Lets(copy, r, Blank)
  /\ Goto(r, "unlocked")
  /\ UNCHANGED <<weight, plan, after, history, conf, now>>

FreeUnlock(r) ==
  /\ At(r, "unlocked")
  /\ L!Call(r, "unlock", list[r])
  /\ Lets(tries, r, IF Single THEN 0
                    ELSE IF tries[r] > 0 THEN tries[r] - 1 ELSE 0)
  /\ Goto(r, "freed")
  /\ UNCHANGED <<servers, list, current, tried, nested, after, history, conf,
                 now, copy>>

\* The next server, unless there were tries enough.
Next_(r) ==
  /\ At(r, "freed")
  /\ retry[r] = 1
  /\ tries[r] > 0
  /\ started < MaxGets
  /\ started' = started + 1
  /\ L!Call(r, "wlock", list[r])
  /\ Goto(r, "get")
  /\ UNCHANGED <<servers, plan, after, used, probes, conf, now, copy>>

\* The end of the request; next_upstream, its timeout, a client that has gone
\* may end it early.
End(r) ==
  /\ At(r, "freed")
  /\ Forget(r)

-----------------------------------------------------------------------------
\* A step inside ngx_rwlock.c.
Locking(r) ==
  /\ L!Inside(r)
  /\ UNCHANGED <<servers, plan, after, history, conf, now, pc, copy>>

\* ngx_time_update().
Tick ==
  /\ now < FailTimeout + 1 + MaxTicks
  /\ now' = now + 1
  /\ probes' = [p \in Peer |-> {}]
  /\ UNCHANGED <<locks, servers, plan, after, started, used, conf, pc, copy>>

Get(r) ==
  \/ GetRead(r)
  \/ GetPeer(r)
  \/ GetBackup(r)
  \/ GetAgain(r)
  \/ GetBusy(r)
  \/ GetRelock(r)
  \/ GetRelocked(r)
  \/ Busy(r)

Free(r) ==
  \/ \E f, n \in 0..1 : Leave(r, f, n)
  \/ FreeLock(r)
  \/ FreeRead(r)
  \/ FreeWrite(r)
  \/ FreeUnlock(r)
  \/ Next_(r)
  \/ End(r)

Step(r) == Get(r) \/ Free(r) \/ Locking(r)

Next == Tick \/ \E r \in Proc : Start(r) \/ Step(r)

Spec == Init /\ [][Next]_vars

\* Every worker keeps running, and an answer of a server, an error or one of
\* the timeouts of the upstream ends the wait for it.
FairSpec == Spec /\ \A r \in Proc : WF_vars(Step(r))

-----------------------------------------------------------------------------
(* Properties *)

\* Type invariant: effective_weight is between 0 and the weight of the server.
TypeOK ==
  /\ conf \in Upstreams
  /\ now \in Nat
  /\ peer \in [Peer -> Server]
  /\ \A p \in Peer : peer[p].ew <= conf.weight[p]
  /\ pc \in [Proc -> Labels]
  /\ list \in [Proc -> Lists]
  /\ current \in [Proc -> Peer \cup {No}]
  /\ tried \in [Proc -> SUBSET Nat]
  /\ tries \in [Proc -> Nat]
  /\ nested \in [Proc -> 0..1]
  /\ failed \in [Proc -> 0..1]
  /\ retry \in [Proc -> 0..1]
  /\ copy \in [Proc -> [Peer -> Server]]
  /\ started \in Nat
  /\ used \in [Proc -> SUBSET Peer]

\* The requests that were given p and have not given it back.
Holders(p) == {r \in Proc : /\ current[r] = p
                            /\ pc[r] \in {"got", "free", "lockpeer", "update"}}

\* conns of a server is the number of requests that have it, although requests
\* that leave it hold the lock of the list together: no update is lost.
ConnsAreCounted == \A p \in Peer : peer[p].conns = Cardinality(Holders(p))

\* No server ever has more than max_conns requests, over all workers.
MaxConnsKept ==
  \A p \in Peer :
    conf.max_conns[p] > 0 => Cardinality(Holders(p)) <= conf.max_conns[p]

\* The current weights of a list add up to zero: no server falls behind or gets
\* ahead for ever, whatever was skipped, failed or changed its weight.
WeightsBalance ==
  \A l \in Lists : SumFunctionOnSet(weight, Members(l)) = 0

\* A server that failed too often is given to one request at most before the
\* clock ticks, however many look for one: only the check decides on it.
OneProbe == \A p \in Peer : Cardinality(probes[p]) <= 1

\* A bit in rrp->tried stands for a server this request was given, also after
\* the list has changed and the bits are those of other servers: a request asks
\* no server twice and passes none over that it has not asked.
TriedIsUsed ==
  ~Single =>
  \A r \in Proc : \A p \in Members(list[r]) :
    Index(p) \in tried[r] <=> p \in used[r]

\* What ngx_rwlock.c keeps in the words of the locks, under this use of them:
\* -1 for one writer alone, or the number of readers.
LockWordIsExact == L!WordIsExact

\* The locks are called as module Rwlock has it: no lock is taken twice, and
\* each is unlocked by the request that has it.
UsesLocks == L!Spec

\* And they are the reader-writer locks of module ReadWrite.
ImplementsReadWrite == L!ImplementsReadWrite

\* Every request comes to its end: nobody waits for a lock for ever.
RequestEnds == \A r \in Proc : pc[r] # "idle" ~> pc[r] = "idle"
=============================================================================
