---------------------------- MODULE Connections ----------------------------
(***************************************************************************)
(* The connections of one worker process: the pool of ngx_connection.c     *)
(* with its free list and its reusable connections, and the event loop     *)
(* that finds them again, through the pointers epoll_wait() returns, the   *)
(* posted events and the timer tree.                                       *)
(*                                                                         *)
(* A connection structure is taken from the free list, given back and      *)
(* taken again while pointers to it are still waiting in the batch of      *)
(* events epoll_wait() returned.  Each time it is taken its one instance   *)
(* bit is flipped; the batch carries the bit the event was registered      *)
(* with.                                                                   *)
(*                                                                         *)
(* What a handler does is any sequence of the operations of this file on   *)
(* connections that are open: the requests behind them are not modelled.   *)
(* The order inside the posted queues, the timer tree and the reusable     *)
(* queue is left out, an element may be taken at any time; the free list   *)
(* is the stack it is in the code.                                         *)
(***************************************************************************)
EXTENDS Integers, Sequences, FiniteSets

CONSTANTS
  N,          \* connection_n, worker_connections
  L,          \* listening sockets, which take the first connections
  MaxTakes,   \* bound on how often a connection is taken
  MaxEvents,  \* epoll_events: the size of the batch
  MaxLinks    \* bound on the timers and posted events handlers leave

ASSUME PoolAssumption == N \in Nat /\ L \in 0..N
ASSUME BoundsAssumption == MaxTakes \in Nat /\ MaxEvents \in Nat
                           /\ MaxLinks \in Nat

Conn == 1..N
Sockets == 1..L
Side == {"r", "w"}
Events == Conn \X Side
Of(c) == {c} \X Side

NoHandler == 0
Request == -1

VARIABLES
  live,       \* the connections whose fd is not -1
  free,       \* cycle->free_connections
  instance,   \* rev->instance and wev->instance of each connection
  active,     \* the events registered with epoll, ev->active
  accepts,    \* ngx_posted_accept_events
  posted,     \* ngx_posted_events
  tree,       \* the events in ngx_event_timer_rbtree
  reusable,   \* cycle->reusable_connections_queue
  reusablen,  \* cycle->reusable_connections_n
  drain,      \* -1, or what ngx_get_connection() has still to drain
  ls,         \* the connections of cycle->listening
  mutex,      \* ngx_use_accept_mutex
  exiting,    \* ngx_exiting
  pc,         \* where the loop is
  run,        \* NoHandler, Request for the handler of a request, or the
              \* listening connection ngx_event_accept() was called for
  post,       \* NGX_POST_EVENTS
  batch,      \* what epoll_wait() returned and was not looked at yet
  takes,      \* how often ngx_get_connection() returned a connection so far
  life,       \* history: how often a connection was taken
  gap         \* history: lives between the last event of epoll and its handler

lists == <<accepts, posted, tree>>
reuse == <<reusable, reusablen>>
pool == <<live, free, active, lists, reuse>>
loop == <<pc, run, post, batch, gap>>
mode == <<ls, mutex, exiting>>
taken == <<instance, life, takes>>
vars == <<pool, taken, drain, mode, loop>>

(***************************************************************************)
(* wait     the top of the loop          accepts  posted accept events     *)
(* poll     about to call epoll_wait()   expire   timers                   *)
(* read     the read half of an event    posted   posted events            *)
(* write    the write half of an event   close    listening sockets        *)
(* exit     the worker has exited        idle     idle connections         *)
(* undefined  a structure was cleared while it was linked in a list        *)
(***************************************************************************)
Labels == {"wait", "poll", "read", "write", "accepts", "expire", "posted",
           "close", "idle", "exit", "undefined"}

\* One element of event_list: the pointer with the instance bit in it, and the
\* events.  lf is the life of the connection the event belongs to (history).
Returned == [c : Conn, inst : 0..1, lf : Nat, ev : SUBSET Side]

\* ngx_event_process_init(): every instance bit starts as 1 and the listening
\* sockets take the first connections of the list.
Init ==
  /\ live = Sockets
  /\ free = [i \in 1..(N - L) |-> L + i]
  /\ life = [c \in Conn |-> IF c \in Sockets THEN 1 ELSE 0]
  /\ instance = [c \in Conn |-> IF c \in Sockets THEN 0 ELSE 1]
  /\ mutex \in 0..1
  /\ active = IF mutex = 1 THEN {} ELSE Sockets \X {"r"}
  /\ accepts = {}
  /\ posted = {}
  /\ tree = {}
  /\ reusable = {}
  /\ reusablen = 0
  /\ drain = -1
  /\ ls = Sockets
  /\ exiting = 0
  /\ pc = "wait"
  /\ run = NoHandler
  /\ post = 0
  /\ batch = <<>>
  /\ gap = 0
  /\ takes = 0

-----------------------------------------------------------------------------
(* The pool *)

\* Mutant: the timers of the connection stay in the tree.
CloseConnection_KeepsTimers(c) ==
  IF c \in live
  THEN /\ live' = live \ {c}
       /\ free' = <<c>> \o free
       /\ active' = active \ Of(c)
       /\ posted' = posted \ Of(c)
       /\ reusable' = reusable \ {c}
       /\ reusablen' = IF c \in reusable THEN reusablen - 1 ELSE reusablen
       /\ UNCHANGED <<accepts, tree>>
  ELSE UNCHANGED pool

\* Mutant: a second call frees the connection again.
CloseConnection_Twice(c) ==
  /\ live' = live \ {c}
  /\ free' = <<c>> \o free
  /\ active' = active \ Of(c)
  /\ tree' = tree \ Of(c)
  /\ posted' = posted \ Of(c)
  /\ reusable' = reusable \ {c}
  /\ reusablen' = IF c \in reusable THEN reusablen - 1 ELSE reusablen
  /\ UNCHANGED accepts

\* ngx_close_connection(), with ngx_free_connection(): everything that points
\* to the connection lets go of it.  A second call has no effect.
CloseConnection(c) ==
  IF c \in live
  THEN /\ live' = live \ {c}
       /\ free' = <<c>> \o free
       /\ active' = active \ Of(c)
       /\ tree' = tree \ Of(c)
       /\ accepts' = accepts \ Of(c)
       /\ posted' = posted \ Of(c)
       /\ reusable' = reusable \ {c}
       /\ reusablen' = IF c \in reusable THEN reusablen - 1 ELSE reusablen
  ELSE UNCHANGED pool

\* The instance bit of a connection that is taken.
Cleared(c) == 1 - instance[c]

\* The connection is in a list whose links ngx_memzero() would clear.
Linked(c) == Of(c) \cap (tree \cup posted \cup accepts) # {}

\* The head of the free list leaves it and its events start from zero.
TakeConnection ==
  LET c == Head(free) IN
  /\ takes' = takes + 1
  /\ free' = Tail(free)
  /\ live' = live \cup {c}
  /\ instance' = [instance EXCEPT ![c] = Cleared(c)]
  /\ life' = [life EXCEPT ![c] = life[c] + 1]
  /\ pc' = IF Linked(c) THEN "undefined" ELSE pc

\* A handler is running and is not inside ngx_get_connection().
Handling == run # NoHandler /\ drain = -1 /\ pc # "undefined"

DrainCount ==
  LET eighth == reusablen \div 8
      capped == IF eighth < 32 THEN eighth ELSE 32
  IN  IF capped > 1 THEN capped ELSE 1

\* ngx_get_connection(), from ngx_event_accept() or ngx_event_connect_peer():
\* an empty list is refilled from the reusable connections.
GetConnection ==
  /\ Handling
  /\ takes < MaxTakes
  /\ drain' = IF free = <<>> THEN DrainCount ELSE 0
  /\ UNCHANGED <<pool, taken, mode, loop>>

\* ngx_drain_connections(): the handler of a reusable connection finds
\* c->close and closes it.
DrainClose(c) ==
  /\ drain > 0
  /\ c \in reusable
  /\ CloseConnection(c)
  /\ drain' = drain - 1
  /\ UNCHANGED <<taken, mode, loop>>

\* The handler cannot close it yet: ngx_ssl_shutdown() returned NGX_AGAIN.
DrainWaits ==
  /\ drain > 0
  /\ reusable # {}
  /\ drain' = drain - 1
  /\ UNCHANGED <<pool, taken, mode, loop>>

\* Nothing is left that could be drained.
DrainEmpty ==
  /\ drain > 0
  /\ reusable = {}
  /\ drain' = 0
  /\ UNCHANGED <<pool, taken, mode, loop>>

\* A connection is there.
GetReturns ==
  /\ drain = 0
  /\ free # <<>>
  /\ TakeConnection
  /\ drain' = -1
  /\ UNCHANGED <<active, lists, reuse, mode, run, post, batch, gap>>

\* "worker_connections are not enough".
GetFails ==
  /\ drain = 0
  /\ free = <<>>
  /\ drain' = -1
  /\ UNCHANGED <<pool, taken, mode, loop>>

-----------------------------------------------------------------------------
(* What handlers do with the connections of requests *)

Requests == live \ ls

\* Any connection but those of the listening sockets: the caller may have
\* closed it before.
Close(c) ==
  /\ Handling
  /\ c \in Conn \ ls
  /\ CloseConnection(c)
  /\ UNCHANGED <<taken, drain, mode, loop>>

\* ngx_epoll_add_event(); ngx_epoll_add_connection() adds both sides.
AddEvent(e) ==
  /\ Handling
  /\ e[1] \in Requests
  /\ active' = active \cup {e}
  /\ UNCHANGED <<live, free, lists, reuse, taken, drain, mode, loop>>

\* ngx_epoll_del_event().
DelEvent(e) ==
  /\ Handling
  /\ e[1] \in Requests
  /\ active' = active \ {e}
  /\ UNCHANGED <<live, free, lists, reuse, taken, drain, mode, loop>>

AddTimer(e) ==
  /\ Handling
  /\ e[1] \in Requests
  /\ e \notin tree
  /\ Cardinality(tree) + Cardinality(posted) < MaxLinks
  /\ tree' = tree \cup {e}
  /\ UNCHANGED <<live, free, active, accepts, posted, reuse, taken,
                 drain, mode, loop>>

DelTimer(e) ==
  /\ Handling
  /\ e[1] \in Requests
  /\ e \in tree
  /\ tree' = tree \ {e}
  /\ UNCHANGED <<live, free, active, accepts, posted, reuse, taken,
                 drain, mode, loop>>

\* ngx_post_event() to ngx_posted_events.
PostEvent(e) ==
  /\ Handling
  /\ e[1] \in Requests
  /\ e \notin posted
  /\ Cardinality(tree) + Cardinality(posted) < MaxLinks
  /\ posted' = posted \cup {e}
  /\ UNCHANGED <<live, free, active, accepts, tree, reuse, taken,
                 drain, mode, loop>>

\* ngx_reusable_connection(): the queue is left first, and entered again.
ReusableConnection(c, r) ==
  /\ Handling
  /\ c \in Requests
  /\ reusable' = IF r = 1 THEN reusable \cup {c} ELSE reusable \ {c}
  /\ reusablen' = (IF c \in reusable THEN reusablen - 1 ELSE reusablen) + r
  /\ UNCHANGED <<live, free, active, lists, taken, drain, mode, loop>>

\* The accept handler finds no descriptor left: without the accept mutex the
\* event that brought it here is to come back as a timer.
AcceptNoFiles(c) ==
  /\ Handling
  /\ run = c
  /\ c \in ls
  /\ active' = active \ (ls \X {"r"})
  /\ tree' = IF mutex = 1 THEN tree ELSE tree \cup {<<c, "r">>}
  /\ run' = NoHandler
  /\ UNCHANGED <<live, free, accepts, posted, reuse, taken, drain,
                 mode, pc, post, batch, gap>>

HandlerReturns ==
  /\ Handling
  /\ run' = NoHandler
  /\ gap' = 0
  /\ UNCHANGED <<pool, taken, drain, mode, pc, post, batch>>

-----------------------------------------------------------------------------
(* ngx_process_events_and_timers *)

At(l) == pc = l /\ run = NoHandler
Goto(l) == pc' = l
\* The handler of an event of c, rev->handler or wev->handler.
Kind(c) == IF c \in ls THEN c ELSE Request
idle == <<live, free, reuse, taken, drain, mode>>

\* The accept mutex: not used, or not asked for while ngx_accept_disabled is
\* positive, or taken, or taken by another worker.
TrylockAcceptMutex ==
  /\ At("wait")
  /\ \/ post' = 0 /\ UNCHANGED active
     \/ mutex = 1 /\ post' = 1 /\ active' = active \cup (ls \X {"r"})
     \/ mutex = 1 /\ post' = 0 /\ active' = active \ (ls \X {"r"})
  /\ Goto("poll")
  /\ UNCHANGED <<idle, lists, run, batch, gap>>

\* What the kernel may report of a connection: registered events, or an error,
\* which the loop takes for both.
Reports(c) == {s \in SUBSET Side : s # {} /\ {c} \X s \subseteq active}
              \cup {Side}

\* The events of a batch are those of different descriptors.
EpollWait ==
  /\ At("poll")
  /\ \E n \in 0..MaxEvents :
     \E f \in [1..n -> {c \in live : Of(c) \cap active # {}}] :
     \E s \in [1..n -> SUBSET Side] :
        /\ \A i, j \in 1..n : f[i] = f[j] => i = j
        /\ \A i \in 1..n : s[i] \in Reports(f[i])
        /\ batch' = [i \in 1..n |-> [c |-> f[i], inst |-> instance[f[i]],
                                     lf |-> life[f[i]], ev |-> s[i]]]
  /\ Goto("read")
  /\ UNCHANGED <<idle, active, lists, run, post, gap>>

\* The test of ngx_epoll_process_events() for an event of a descriptor that
\* was closed in this iteration.
Stale(e) == e.c \notin live \/ instance[e.c] # e.inst

\* All events have been looked at.
ScanEnds ==
  /\ At("read")
  /\ batch = <<>>
  /\ post' = 0
  /\ gap' = 0
  /\ Goto("accepts")
  /\ UNCHANGED <<idle, active, lists, run, batch>>

\* A stale event is left out, with both halves.
ScanStale ==
  /\ At("read")
  /\ batch # <<>>
  /\ Stale(Head(batch))
  /\ batch' = Tail(batch)
  /\ UNCHANGED <<idle, active, lists, run, post, pc, gap>>

\* The event is posted, or its handler called.
Deliver(e, s) ==
  /\ gap' = life[e.c] - e.lf
  /\ IF post = 1
     THEN /\ run' = run
          /\ IF s = "r" /\ e.c \in ls
             THEN /\ accepts' = accepts \cup {<<e.c, s>>}
                  /\ posted' = posted
             ELSE /\ posted' = posted \cup {<<e.c, s>>}
                  /\ accepts' = accepts
     ELSE /\ run' = Kind(e.c)
          /\ UNCHANGED <<accepts, posted>>

ScanRead ==
  /\ At("read")
  /\ batch # <<>>
  /\ ~Stale(Head(batch))
  /\ LET e == Head(batch) IN
     IF "r" \in e.ev /\ <<e.c, "r">> \in active
     THEN Deliver(e, "r")
     ELSE UNCHANGED <<gap, run, accepts, posted>>
  /\ Goto("write")
  /\ UNCHANGED <<idle, active, tree, post, batch>>

\* Mutant: the write half is not tested again.
ScanWrite_NoTest ==
  /\ At("write")
  /\ LET e == Head(batch) IN
     IF "w" \in e.ev /\ <<e.c, "w">> \in active
     THEN Deliver(e, "w")
     ELSE UNCHANGED <<gap, run, accepts, posted>>
  /\ batch' = Tail(batch)
  /\ Goto("read")
  /\ UNCHANGED <<idle, active, tree, post>>

\* The read handler may have closed the connection, and it may have been taken
\* again: the write half is tested once more.
ScanWrite ==
  /\ At("write")
  /\ LET e == Head(batch) IN
     IF "w" \in e.ev /\ <<e.c, "w">> \in active /\ ~Stale(e)
     THEN Deliver(e, "w")
     ELSE UNCHANGED <<gap, run, accepts, posted>>
  /\ batch' = Tail(batch)
  /\ Goto("read")
  /\ UNCHANGED <<idle, active, tree, post>>

\* ngx_event_process_posted() of the accept events.
ProcessAccept(e) ==
  /\ At("accepts")
  /\ e \in accepts
  /\ accepts' = accepts \ {e}
  /\ run' = Kind(e[1])
  /\ UNCHANGED <<idle, active, posted, tree, pc, post, batch, gap>>

AcceptsEnd ==
  /\ At("accepts")
  /\ accepts = {}
  /\ Goto("expire")
  /\ UNCHANGED <<idle, active, lists, run, post, batch, gap>>

\* ngx_event_expire_timers(): the timer of a listening socket puts all of them
\* back.  The handler of a listening connection that was freed meanwhile is
\* called too; accept() on its descriptor, -1, fails.
ExpireTimer(e) ==
  /\ At("expire")
  /\ e \in tree
  /\ tree' = tree \ {e}
  /\ run' = IF e[1] \in live THEN Kind(e[1]) ELSE NoHandler
  /\ active' = IF e[1] \in ls THEN active \cup (ls \X {"r"}) ELSE active
  /\ UNCHANGED <<idle, accepts, posted, pc, post, batch, gap>>

ExpireEnds ==
  /\ At("expire")
  /\ Goto("posted")
  /\ UNCHANGED <<idle, active, lists, run, post, batch, gap>>

ProcessPosted(e) ==
  /\ At("posted")
  /\ e \in posted
  /\ posted' = posted \ {e}
  /\ run' = Kind(e[1])
  /\ UNCHANGED <<idle, active, accepts, tree, pc, post, batch, gap>>

PostedEnds ==
  /\ At("posted")
  /\ posted = {}
  /\ Goto("wait")
  /\ UNCHANGED <<idle, active, lists, run, post, batch, gap>>

-----------------------------------------------------------------------------
(* ngx_worker_process_cycle *)

\* SIGQUIT: ngx_close_listening_sockets() and ngx_close_idle_connections().
Quit ==
  /\ At("wait")
  /\ exiting = 0
  /\ exiting' = 1
  /\ mutex' = 0
  /\ Goto("close")
  /\ UNCHANGED <<pool, taken, drain, ls, run, post, batch, gap>>

\* The connection of a listening socket is freed.  Its event may be in the
\* timer tree, and stays there.
CloseListening(c) ==
  /\ At("close")
  /\ c \in ls
  /\ \A d \in ls : c <= d
  /\ ls' = ls \ {c}
  /\ live' = live \ {c}
  /\ free' = <<c>> \o free
  /\ active' = active \ {<<c, "r">>}
  /\ UNCHANGED <<lists, reuse, taken, drain, mutex, exiting, loop>>

CloseListeningEnds ==
  /\ At("close")
  /\ ls = {}
  /\ Goto("idle")
  /\ UNCHANGED <<idle, active, lists, run, post, batch, gap>>

\* Whether a connection is idle is the business of its request.
CloseIdle(c) ==
  /\ At("idle")
  /\ c \in live
  /\ CloseConnection(c)
  /\ UNCHANGED <<taken, drain, mode, loop>>

CloseIdleEnds ==
  /\ At("idle")
  /\ Goto("wait")
  /\ UNCHANGED <<idle, active, lists, run, post, batch, gap>>

\* No timer is left that the worker would have to wait for.
Exit ==
  /\ At("wait")
  /\ exiting = 1
  /\ tree = {}
  /\ Goto("exit")
  /\ UNCHANGED <<idle, active, lists, run, post, batch, gap>>

-----------------------------------------------------------------------------
Handler ==
  \/ GetConnection
  \/ DrainWaits
  \/ DrainEmpty
  \/ GetReturns
  \/ GetFails
  \/ HandlerReturns
  \/ \E c \in Conn : \/ DrainClose(c)
                     \/ Close(c)
                     \/ AcceptNoFiles(c)
                     \/ \E r \in 0..1 : ReusableConnection(c, r)
  \/ \E e \in Events : \/ AddEvent(e)
                       \/ DelEvent(e)
                       \/ AddTimer(e)
                       \/ DelTimer(e)
                       \/ PostEvent(e)

Loop ==
  \/ TrylockAcceptMutex
  \/ EpollWait
  \/ ScanEnds
  \/ ScanStale
  \/ ScanRead
  \/ ScanWrite
  \/ AcceptsEnd
  \/ ExpireEnds
  \/ PostedEnds
  \/ \E e \in Events : \/ ProcessAccept(e)
                       \/ ExpireTimer(e)
                       \/ ProcessPosted(e)

Cycle ==
  \/ Quit
  \/ CloseListeningEnds
  \/ CloseIdleEnds
  \/ Exit
  \/ \E c \in Conn : CloseListening(c) \/ CloseIdle(c)

Next == Handler \/ Loop \/ Cycle

Spec == Init /\ [][Next]_vars

-----------------------------------------------------------------------------
(* Properties *)

\* Type invariant.
TypeOK ==
  /\ live \subseteq Conn
  /\ free \in Seq(Conn)
  /\ instance \in [Conn -> 0..1]
  /\ life \in [Conn -> Nat]
  /\ takes \in Nat
  /\ active \subseteq Events
  /\ accepts \subseteq Events
  /\ posted \subseteq Events
  /\ tree \subseteq Events
  /\ reusable \subseteq Conn
  /\ reusablen \in Int
  /\ drain \in Int
  /\ ls \subseteq Sockets
  /\ mutex \in 0..1
  /\ exiting \in 0..1
  /\ pc \in Labels
  /\ run \in {NoHandler, Request} \cup Sockets
  /\ post \in 0..1
  /\ batch \in Seq(Returned)
  /\ gap \in Int

\* A connection is open or in the free list, never both, and in the list once:
\* none is handed out twice, none is lost, through any order of accepting,
\* draining, closing twice and shutting down.
PoolIsWhole ==
  /\ \A i, j \in DOMAIN free : free[i] = free[j] => i = j
  /\ \A i \in DOMAIN free : free[i] \notin live
  /\ \A c \in Conn \ live : \E i \in DOMAIN free : free[i] = c

\* Nothing leads to a connection that was given back: it is not registered,
\* not posted and not reusable, and no timer is left for it, unless it is the
\* connection of a listening socket of a worker that shuts down.
ClosedIsForgotten ==
  pc # "undefined" =>
  \A c \in Conn \ live :
    /\ Of(c) \cap (active \cup posted \cup accepts) = {}
    /\ c \notin reusable
    /\ Of(c) \cap tree # {} => exiting = 1 /\ c \in Sockets

\* reusable_connections_n, which says how many connections to drain, is the
\* length of the queue, which holds open connections only.
ReusableCounted == reusablen = Cardinality(reusable) /\ reusable \subseteq live

\* An event is handed to a handler of another life of its connection only when
\* the connection was taken an even number of times since epoll_wait()
\* returned, and never when events are posted.
StaleIsCaught == gap % 2 = 0 /\ (post = 1 => gap = 0)

\* The test drops no event of a connection that was not closed: with edge
\* triggered events it would not be reported again.
LiveIsKept ==
  \A i \in DOMAIN batch :
    batch[i].c \in live /\ life[batch[i].c] = batch[i].lf => ~Stale(batch[i])

\* No structure is cleared while it is linked in the timer tree or a queue.
NothingUndefined == pc # "undefined"
=============================================================================
