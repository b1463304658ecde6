------------------------- MODULE ConnectionsProofs -------------------------
(***************************************************************************)
(* Proofs about Connections, for any number of connections, of listening   *)
(* sockets and of events in a batch.                                       *)
(*                                                                         *)
(* The invariant that is inductive adds to the properties that the         *)
(* instance bit is the parity of the number of lives, that the batch       *)
(* carries that parity, what the lists may hold of a listening socket, and *)
(* that no handler runs while events are being posted.                     *)
(***************************************************************************)
EXTENDS Connections, FiniteSetTheorems, TLAPS

\* The instance bit is the parity of the lives, here and in the batch.
Parity ==
  /\ \A c \in Conn : instance[c] = (life[c] + 1) % 2
  /\ \A i \in DOMAIN batch : batch[i].inst = (batch[i].lf + 1) % 2

\* Listening sockets are open; they are read from, accepted from, and nothing
\* else; accept events are gone before the handlers of other events start.
Listening ==
  /\ ls \subseteq live
  /\ \A c \in ls : <<c, "w">> \notin active /\ c \notin reusable
  /\ \A c \in ls : Of(c) \cap posted = {}
  /\ accepts \subseteq ls \X {"r"}
  /\ accepts # {} => pc \in {"read", "write", "accepts", "undefined"}
  /\ pc = "close" => exiting = 1
  /\ pc = "idle" => ls = {}

\* Where a handler can run, and where an event of the past can matter.
Control ==
  /\ run = NoHandler => drain = -1
  /\ pc = "write" => batch # <<>>
  /\ run # NoHandler /\ pc # "undefined"
       => pc \in {"read", "write", "accepts", "expire", "posted"}
  /\ post = 1 => run = NoHandler /\ pc \in {"poll", "read", "write"}
  /\ gap # 0 => pc \in {"read", "write", "undefined"}

\* While events are posted the batch is about the connections as they are.
Posting ==
  post = 1 /\ pc \in {"read", "write"} =>
    \A i \in DOMAIN batch : batch[i].c \in live
                            /\ life[batch[i].c] = batch[i].lf

IInv == /\ TypeOK
        /\ PoolIsWhole
        /\ ClosedIsForgotten
        /\ ReusableCounted
        /\ Parity
        /\ Listening
        /\ Control
        /\ Posting
        /\ StaleIsCaught

-----------------------------------------------------------------------------
(* The free list as a stack *)

\* What is pushed is on top, and the rest is where it was, one further down.
LEMMA Push ==
  ASSUME NEW S, NEW s \in Seq(S), NEW c \in S
  PROVE  /\ <<c>> \o s \in Seq(S)
         /\ Len(<<c>> \o s) = Len(s) + 1
         /\ (<<c>> \o s)[1] = c
         /\ \A i \in 1..Len(s) : (<<c>> \o s)[i + 1] = s[i]
         /\ \A i \in 2..(Len(s) + 1) : (<<c>> \o s)[i] = s[i - 1]
  OBVIOUS

\* What is popped was on top, and the rest moves up.
LEMMA Pop ==
  ASSUME NEW S, NEW s \in Seq(S), s # <<>>
  PROVE  /\ Head(s) \in S
         /\ Head(s) = s[1]
         /\ Tail(s) \in Seq(S)
         /\ Len(s) \in Nat \ {0}
         /\ Len(Tail(s)) = Len(s) - 1
         /\ \A i \in 1..(Len(s) - 1) : Tail(s)[i] = s[i + 1]
  OBVIOUS

\* PoolIsWhole about any set of open connections and any free list.
Whole(open, list) ==
  /\ \A i, j \in DOMAIN list : list[i] = list[j] => i = j
  /\ \A i \in DOMAIN list : list[i] \notin open
  /\ \A c \in Conn \ open : \E i \in DOMAIN list : list[i] = c

\* Giving back an open connection keeps the pool whole.
LEMMA GiveBack ==
  ASSUME NEW open \in SUBSET Conn, NEW list \in Seq(Conn), Whole(open, list),
         NEW c \in open
  PROVE  Whole(open \ {c}, <<c>> \o list)
<1> DEFINE new == <<c>> \o list
<1>1. /\ new \in Seq(Conn)
      /\ Len(new) = Len(list) + 1
      /\ new[1] = c
      /\ \A i \in 1..Len(list) : new[i + 1] = list[i]
      /\ \A i \in 2..(Len(list) + 1) : new[i] = list[i - 1]
  BY Push
<1>2. DOMAIN new = 1..(Len(list) + 1) /\ DOMAIN list = 1..Len(list)
      /\ Len(list) \in Nat
  BY <1>1
<1> HIDE DEF new
<1>3. \A i \in DOMAIN list : list[i] # c
  BY DEF Whole
<1>4. ASSUME NEW i \in 1..(Len(list) + 1), NEW j \in 1..(Len(list) + 1),
             new[i] = new[j]
      PROVE  i = j
  <2>1. ASSUME NEW k \in 2..(Len(list) + 1)
        PROVE  k - 1 \in DOMAIN list /\ new[k] = list[k - 1] /\ new[k] # c
    <3>1. k - 1 \in 1..Len(list) /\ new[k] = list[k - 1]
      BY <1>1, <1>2
    <3> QED
      BY <3>1, <1>2, <1>3
  <2>2. CASE i = 1 \/ j = 1
    BY <2>1, <2>2, <1>1, <1>2, <1>4
  <2>3. CASE i # 1 /\ j # 1
    <3>1. i - 1 \in DOMAIN list /\ j - 1 \in DOMAIN list
          /\ list[i - 1] = list[j - 1]
      BY <2>1, <2>3, <1>4, <1>2
    <3>2. i - 1 = j - 1
      BY <3>1 DEF Whole
    <3> QED
      BY <3>2, <1>2
  <2> QED
    BY <2>2, <2>3
<1>5. ASSUME NEW i \in 1..(Len(list) + 1)
      PROVE  new[i] \notin open \ {c}
  <2>1. CASE i = 1
    BY <2>1, <1>1
  <2>2. CASE i # 1
    <3>1. i - 1 \in DOMAIN list /\ new[i] = list[i - 1]
      BY <2>2, <1>1, <1>2
    <3> QED
      BY <3>1 DEF Whole
  <2> QED
    BY <2>1, <2>2
<1>6. \A d \in Conn \ (open \ {c}) : \E i \in DOMAIN new : new[i] = d
  <2> SUFFICES ASSUME NEW d \in Conn \ (open \ {c})
               PROVE  \E i \in DOMAIN new : new[i] = d
    OBVIOUS
  <2>1. CASE d = c
    BY <2>1, <1>1, <1>2
  <2>2. CASE d # c
    <3>1. PICK i \in DOMAIN list : list[i] = d
      BY <2>2 DEF Whole
    <3>2. i + 1 \in DOMAIN new /\ new[i + 1] = d
      BY <3>1, <1>1, <1>2
    <3> QED
      BY <3>2
  <2> QED
    BY <2>1, <2>2
<1> QED
  BY <1>2, <1>4, <1>5, <1>6 DEF Whole, new

\* Taking the head of the free list keeps the pool whole.
LEMMA TakeOne ==
  ASSUME NEW open \in SUBSET Conn, NEW list \in Seq(Conn), Whole(open, list),
         list # <<>>
  PROVE  /\ Head(list) \in Conn \ open
         /\ Whole(open \cup {Head(list)}, Tail(list))
<1> DEFINE rest == Tail(list)
           c == Head(list)
<1>1. /\ c \in Conn
      /\ c = list[1]
      /\ rest \in Seq(Conn)
      /\ Len(list) \in Nat \ {0}
      /\ Len(rest) = Len(list) - 1
      /\ \A i \in 1..(Len(list) - 1) : rest[i] = list[i + 1]
  BY Pop
<1>2. DOMAIN rest = 1..(Len(list) - 1) /\ DOMAIN list = 1..Len(list)
  BY <1>1
<1> HIDE DEF rest, c
<1>3. c \notin open
  BY <1>1, <1>2 DEF Whole
<1>4. ASSUME NEW i \in 1..(Len(list) - 1), NEW j \in 1..(Len(list) - 1),
             rest[i] = rest[j]
      PROVE  i = j
  <2>1. i + 1 \in DOMAIN list /\ j + 1 \in DOMAIN list
        /\ list[i + 1] = list[j + 1]
    BY <1>1, <1>2, <1>4
  <2>2. i + 1 = j + 1
    BY <2>1 DEF Whole
  <2> QED
    BY <2>2, <1>1
<1>5. \A i \in DOMAIN rest : rest[i] \notin open \cup {c}
  <2> SUFFICES ASSUME NEW i \in DOMAIN rest PROVE rest[i] \notin open \cup {c}
    OBVIOUS
  <2>1. i + 1 \in DOMAIN list /\ 1 \in DOMAIN list /\ i + 1 # 1
        /\ rest[i] = list[i + 1]
    BY <1>1, <1>2
  <2> QED
    BY <2>1, <1>1 DEF Whole
<1>6. \A d \in Conn \ (open \cup {c}) : \E i \in DOMAIN rest : rest[i] = d
  <2> SUFFICES ASSUME NEW d \in Conn \ (open \cup {c})
               PROVE  \E i \in DOMAIN rest : rest[i] = d
    OBVIOUS
  <2>1. PICK i \in DOMAIN list : list[i] = d
    BY DEF Whole
  <2>2. i # 1
    BY <2>1, <1>1
  <2>3. i - 1 \in DOMAIN rest /\ rest[i - 1] = d
    BY <2>1, <2>2, <1>1, <1>2
  <2> QED
    BY <2>3
<1> QED
  BY <1>1, <1>2, <1>3, <1>4, <1>5, <1>6 DEF Whole, rest, c

LEMMA WholePool == PoolIsWhole <=> Whole(live, free)
  BY DEF PoolIsWhole, Whole

-----------------------------------------------------------------------------
(* Types *)

LEMMA SocketsAreConnections == Sockets \subseteq Conn
  BY PoolAssumption DEF Sockets, Conn

LEMMA TypeInit == ASSUME Init PROVE TypeOK
<1> USE PoolAssumption
<1>1. free \in Seq(Conn)
  <2>1. free \in [1..(N - L) -> Conn] /\ N - L \in Nat
    BY DEF Init, Conn
  <2> QED
    BY <2>1
<1>2. active \subseteq Events
  BY DEF Init, Events, Conn, Sockets, Side
<1>3. batch \in Seq(Returned)
  BY DEF Init
<1>4. reusablen \in Int /\ drain \in Int /\ gap \in Int /\ takes \in Nat
  BY DEF Init
<1>5. /\ live \subseteq Conn
      /\ instance \in [Conn -> 0..1]
      /\ life \in [Conn -> Nat]
  BY DEF Init, Conn, Sockets
<1>6. /\ accepts \subseteq Events
      /\ posted \subseteq Events
      /\ tree \subseteq Events
      /\ reusable \subseteq Conn
  BY DEF Init
<1>7. /\ ls \subseteq Sockets
      /\ mutex \in 0..1
      /\ exiting \in 0..1
      /\ post \in 0..1
  BY DEF Init
<1>8. pc \in Labels /\ run \in {NoHandler, Request} \cup Sockets
  BY DEF Init, Labels, NoHandler
<1> QED
  BY <1>1, <1>2, <1>3, <1>4, <1>5, <1>6, <1>7, <1>8 DEF TypeOK

\* Closing changes the lists of connections and events only.
LEMMA CloseType ==
  ASSUME TypeOK, NEW c \in Conn, CloseConnection(c)
  PROVE  /\ live' \subseteq Conn
         /\ free' \in Seq(Conn)
         /\ active' \subseteq Events
         /\ accepts' \subseteq Events
         /\ posted' \subseteq Events
         /\ tree' \subseteq Events
         /\ reusable' \subseteq Conn
         /\ reusablen' \in Int
<1>1. CASE c \in live
  <2>1. free' \in Seq(Conn)
    <3>1. free \in Seq(Conn) /\ free' = <<c>> \o free
      BY <1>1 DEF CloseConnection, TypeOK
    <3> QED
      BY <3>1, Push
  <2>2. reusablen' \in Int
    BY <1>1 DEF CloseConnection, TypeOK
  <2> QED
    BY <1>1, <2>1, <2>2 DEF CloseConnection, TypeOK
<1>2. CASE c \notin live
  BY <1>2 DEF CloseConnection, TypeOK, pool, lists, reuse
<1> QED
  BY <1>1, <1>2

\* Every step keeps the types.
LEMMA TypeNext == ASSUME TypeOK, Control, Next PROVE TypeOK'
<1> USE DEF TypeOK
<1>1. ASSUME NEW c \in Conn, DrainClose(c) PROVE TypeOK'
  BY <1>1, CloseType DEF DrainClose, taken, mode, loop
<1>2. ASSUME NEW c \in Conn, Close(c) PROVE TypeOK'
  BY <1>2, CloseType DEF Close, taken, mode, loop
<1>3. ASSUME NEW c \in Conn, CloseIdle(c) PROVE TypeOK'
  BY <1>3, CloseType DEF CloseIdle, taken, mode, loop
<1>4. CASE GetReturns
  <2> DEFINE c == Head(free)
  <2>1. c \in Conn /\ Tail(free) \in Seq(Conn)
    BY <1>4, Pop DEF GetReturns
  <2> HIDE DEF c
  <2>2. /\ free' \in Seq(Conn)
        /\ live' \subseteq Conn
        /\ instance' \in [Conn -> 0..1]
        /\ life' \in [Conn -> Nat]
        /\ takes' \in Nat
        /\ drain' \in Int
    BY <1>4, <2>1 DEF GetReturns, TakeConnection, Cleared, c
  <2>3. pc' \in Labels
    BY <1>4 DEF GetReturns, TakeConnection, Labels
  <2> QED
    BY <1>4, <2>2, <2>3 DEF GetReturns, lists, reuse, mode
<1>5. CASE GetConnection \/ DrainWaits \/ DrainEmpty \/ GetFails
  <2>1. drain' \in Int
    BY <1>5 DEF GetConnection, DrainWaits, DrainEmpty, GetFails, DrainCount
  <2> QED
    BY <1>5, <2>1 DEF GetConnection, DrainWaits, DrainEmpty, GetFails, pool,
       lists, reuse, taken, mode, loop
<1>6. CASE HandlerReturns
  BY <1>6 DEF HandlerReturns, pool, lists, reuse, taken, mode
<1>7. ASSUME NEW c \in Conn, AcceptNoFiles(c) PROVE TypeOK'
  <2>1. active' \subseteq Events /\ tree' \subseteq Events
    BY <1>7 DEF AcceptNoFiles, Events, Side
  <2> QED
    BY <1>7, <2>1 DEF AcceptNoFiles, reuse, taken, mode
<1>8. ASSUME NEW c \in Conn, NEW r \in 0..1, ReusableConnection(c, r)
      PROVE  TypeOK'
  BY <1>8 DEF ReusableConnection, lists, taken, mode, loop
<1>9. ASSUME NEW e \in Events, AddEvent(e) \/ DelEvent(e) PROVE TypeOK'
  BY <1>9 DEF AddEvent, DelEvent, lists, reuse, taken, mode, loop
<1>10. ASSUME NEW e \in Events, AddTimer(e) \/ DelTimer(e) PROVE TypeOK'
  BY <1>10 DEF AddTimer, DelTimer, reuse, taken, mode, loop
<1>11. ASSUME NEW e \in Events, PostEvent(e) PROVE TypeOK'
  BY <1>11 DEF PostEvent, reuse, taken, mode, loop
<1>12. CASE TrylockAcceptMutex
  <2>1. ls \X {"r"} \subseteq Events
    BY SocketsAreConnections DEF Events, Side
  <2>2. active' \subseteq Events /\ post' \in 0..1
    BY <1>12, <2>1 DEF TrylockAcceptMutex
  <2> QED
    BY <1>12, <2>2 DEF TrylockAcceptMutex, Goto, Labels, idle, lists, reuse,
       taken, mode
<1>13. CASE EpollWait
  <2>1. PICK n \in 0..MaxEvents :
        \E f \in [1..n -> {c \in live : Of(c) \cap active # {}}] :
        \E s \in [1..n -> SUBSET Side] :
          batch' = [i \in 1..n |-> [c |-> f[i], inst |-> instance[f[i]],
                                    lf |-> life[f[i]], ev |-> s[i]]]
    BY <1>13 DEF EpollWait
  <2>2. PICK f \in [1..n -> {c \in live : Of(c) \cap active # {}}] :
        \E s \in [1..n -> SUBSET Side] :
          batch' = [i \in 1..n |-> [c |-> f[i], inst |-> instance[f[i]],
                                    lf |-> life[f[i]], ev |-> s[i]]]
    BY <2>1
  <2>3. PICK s \in [1..n -> SUBSET Side] :
          batch' = [i \in 1..n |-> [c |-> f[i], inst |-> instance[f[i]],
                                    lf |-> life[f[i]], ev |-> s[i]]]
    BY <2>2
  <2>4. \A i \in 1..n : f[i] \in Conn /\ s[i] \in SUBSET Side
    OBVIOUS
  <2>5. \A i \in 1..n : [c |-> f[i], inst |-> instance[f[i]],
                         lf |-> life[f[i]], ev |-> s[i]] \in Returned
    BY <2>4 DEF Returned
  <2>6. batch' \in [1..n -> Returned] /\ n \in Nat
    BY <2>3, <2>5, BoundsAssumption
  <2>7. batch' \in Seq(Returned)
    BY <2>6
  <2> QED
    BY <1>13, <2>7 DEF EpollWait, Goto, Labels, idle, lists, reuse, taken, mode
<1>14. CASE ScanEnds
  BY <1>14 DEF ScanEnds, Goto, Labels, idle, lists, reuse, taken, mode
<1>15. CASE ScanStale
  BY <1>15 DEF ScanStale, idle, lists, reuse, taken, mode
<1>16. ASSUME NEW e \in Returned, NEW s \in Side, Deliver(e, s)
       PROVE  /\ gap' \in Int
              /\ run' \in {NoHandler, Request} \cup Sockets
              /\ accepts' \subseteq Events
              /\ posted' \subseteq Events
  <2>1. e.c \in Conn /\ e.lf \in Nat /\ <<e.c, s>> \in Events
    BY DEF Returned, Events
  <2>2. gap' \in Int
    BY <1>16, <2>1 DEF Deliver
  <2>3. run' \in {NoHandler, Request} \cup Sockets
    BY <1>16 DEF Deliver, Kind
  <2> QED
    BY <1>16, <2>1, <2>2, <2>3 DEF Deliver
<1>17. CASE ScanRead
  <2>1. Head(batch) \in Returned /\ "r" \in Side
    BY <1>17, Pop DEF ScanRead, Side
  <2>2. /\ gap' \in Int
        /\ run' \in {NoHandler, Request} \cup Sockets
        /\ accepts' \subseteq Events
        /\ posted' \subseteq Events
    BY <1>16, <1>17, <2>1 DEF ScanRead
  <2> QED
    BY <1>17, <2>2 DEF ScanRead, Goto, Labels, idle, reuse, taken, mode
<1>18. CASE ScanWrite
  <2>0. batch # <<>>
    BY <1>18 DEF ScanWrite, At, Control
  <2>1. /\ Head(batch) \in Returned
        /\ "w" \in Side
        /\ Tail(batch) \in Seq(Returned)
    BY <1>18, <2>0, Pop DEF Side
  <2>2. /\ gap' \in Int
        /\ run' \in {NoHandler, Request} \cup Sockets
        /\ accepts' \subseteq Events
        /\ posted' \subseteq Events
    BY <1>16, <1>18, <2>1 DEF ScanWrite
  <2> QED
    BY <1>18, <2>1, <2>2 DEF ScanWrite, Goto, Labels, idle, reuse, taken, mode
<1>19. CASE AcceptsEnd \/ ExpireEnds \/ PostedEnds
  BY <1>19 DEF AcceptsEnd, ExpireEnds, PostedEnds, Goto, Labels, idle, lists,
     reuse, taken, mode
<1>20. ASSUME NEW e \in Events, ProcessAccept(e) PROVE TypeOK'
  BY <1>20 DEF ProcessAccept, Kind, idle, reuse, taken, mode
<1>21. ASSUME NEW e \in Events, ExpireTimer(e) PROVE TypeOK'
  <2>1. ls \X {"r"} \subseteq Events
    BY SocketsAreConnections DEF Events, Side
  <2> QED
    BY <1>21, <2>1 DEF ExpireTimer, Kind, idle, reuse, taken, mode
<1>22. ASSUME NEW e \in Events, ProcessPosted(e) PROVE TypeOK'
  BY <1>22 DEF ProcessPosted, Kind, idle, reuse, taken, mode
<1>23. CASE Quit
  BY <1>23 DEF Quit, Goto, Labels, pool, lists, reuse, taken
<1>24. ASSUME NEW c \in Conn, CloseListening(c) PROVE TypeOK'
  <2>1. free' \in Seq(Conn)
    BY <1>24, Push DEF CloseListening
  <2> QED
    BY <1>24, <2>1 DEF CloseListening, lists, reuse, taken, loop
<1>25. CASE CloseListeningEnds \/ CloseIdleEnds \/ Exit
  BY <1>25 DEF CloseListeningEnds, CloseIdleEnds, Exit, Goto, Labels, idle,
     lists, reuse, taken, mode
<1> QED
  BY <1>1, <1>2, <1>3, <1>4, <1>5, <1>6, <1>7, <1>8, <1>9, <1>10, <1>11, <1>12,
     <1>13, <1>14, <1>15, <1>17, <1>18, <1>19, <1>20, <1>21, <1>22, <1>23,
     <1>24, <1>25 DEF Next, Handler, Loop, Cycle

-----------------------------------------------------------------------------
(* The pool and its counter *)

\* Steps of the loop touch neither the pool nor the lives of connections.
LEMMA LoopFrame ==
  ASSUME Loop \/ CloseListeningEnds \/ CloseIdleEnds \/ Exit
  PROVE  UNCHANGED <<live, free, reusable, reusablen, instance, life, drain,
                     ls, mutex, exiting>>
<1> USE DEF idle, reuse, taken, mode
<1>1. CASE TrylockAcceptMutex \/ EpollWait \/ ScanEnds \/ ScanStale
  BY <1>1 DEF TrylockAcceptMutex, EpollWait, ScanEnds, ScanStale
<1>2. CASE ScanRead \/ ScanWrite
  BY <1>2 DEF ScanRead, ScanWrite
<1>3. CASE AcceptsEnd \/ ExpireEnds \/ PostedEnds
  BY <1>3 DEF AcceptsEnd, ExpireEnds, PostedEnds
<1>4. ASSUME NEW e \in Events,
             ProcessAccept(e) \/ ExpireTimer(e) \/ ProcessPosted(e)
      PROVE  UNCHANGED <<live, free, reusable, reusablen, instance, life,
                         drain, ls, mutex, exiting>>
  BY <1>4 DEF ProcessAccept, ExpireTimer, ProcessPosted
<1>5. CASE CloseListeningEnds \/ CloseIdleEnds \/ Exit
  BY <1>5 DEF CloseListeningEnds, CloseIdleEnds, Exit
<1> QED
  BY <1>1, <1>2, <1>3, <1>4, <1>5 DEF Loop

\* What a handler does to the lists of events leaves the pool alone.
LEMMA HandlerFrame ==
  ASSUME \/ HandlerReturns \/ GetConnection \/ DrainWaits \/ DrainEmpty
         \/ GetFails
         \/ \E c \in Conn : AcceptNoFiles(c)
         \/ \E e \in Events : \/ AddEvent(e) \/ DelEvent(e) \/ AddTimer(e) \/ DelTimer(e)
                              \/ PostEvent(e)
         \/ Quit
  PROVE  UNCHANGED <<live, free, reusable, reusablen, instance, life, ls>>
<1> USE DEF pool, reuse, taken, mode
<1>1. CASE HandlerReturns \/ GetConnection \/ DrainWaits \/ DrainEmpty
           \/ GetFails
  BY <1>1 DEF HandlerReturns, GetConnection, DrainWaits, DrainEmpty, GetFails
<1>2. CASE \E c \in Conn : AcceptNoFiles(c)
  BY <1>2 DEF AcceptNoFiles
<1>3. CASE \E e \in Events : \/ AddEvent(e) \/ DelEvent(e) \/ AddTimer(e) \/ DelTimer(e)
                             \/ PostEvent(e)
  BY <1>3 DEF AddEvent, DelEvent, AddTimer, DelTimer, PostEvent
<1>4. CASE Quit
  BY <1>4 DEF Quit
<1> QED
  BY <1>1, <1>2, <1>3, <1>4

LEMMA ClosePool ==
  ASSUME TypeOK, PoolIsWhole, NEW c \in Conn, CloseConnection(c)
  PROVE  PoolIsWhole'
<1>1. CASE c \in live
  <2>1. Whole(live \ {c}, <<c>> \o free)
    BY <1>1, GiveBack, WholePool DEF TypeOK
  <2>2. live' = live \ {c} /\ free' = <<c>> \o free
    BY <1>1 DEF CloseConnection
  <2> QED
    BY <2>1, <2>2 DEF PoolIsWhole, Whole
<1>2. CASE c \notin live
  BY <1>2 DEF CloseConnection, pool, PoolIsWhole
<1> QED
  BY <1>1, <1>2

\* Every step keeps the pool whole.
LEMMA PoolNext == ASSUME IInv, Next PROVE PoolIsWhole'
<1> TypeOK /\ PoolIsWhole
  BY DEF IInv
<1>1. ASSUME NEW c \in Conn, DrainClose(c) \/ Close(c) \/ CloseIdle(c)
      PROVE  PoolIsWhole'
  BY <1>1, ClosePool DEF DrainClose, Close, CloseIdle
<1>2. CASE GetReturns
  <2>1. Whole(live \cup {Head(free)}, Tail(free))
    BY <1>2, TakeOne, WholePool DEF GetReturns, TypeOK
  <2>2. live' = live \cup {Head(free)} /\ free' = Tail(free)
    BY <1>2 DEF GetReturns, TakeConnection
  <2> QED
    BY <2>1, <2>2 DEF PoolIsWhole, Whole
<1>3. ASSUME NEW c \in Conn, CloseListening(c) PROVE PoolIsWhole'
  <2>1. c \in live
    BY <1>3 DEF CloseListening, IInv, Listening
  <2>2. Whole(live \ {c}, <<c>> \o free)
    BY <2>1, GiveBack, WholePool DEF TypeOK
  <2>3. live' = live \ {c} /\ free' = <<c>> \o free
    BY <1>3 DEF CloseListening
  <2> QED
    BY <2>2, <2>3 DEF PoolIsWhole, Whole
<1>4. ASSUME NEW c \in Conn, NEW r \in 0..1, ReusableConnection(c, r)
      PROVE  PoolIsWhole'
  BY <1>4 DEF ReusableConnection, PoolIsWhole
<1>5. CASE UNCHANGED <<live, free>>
  BY <1>5 DEF PoolIsWhole
<1> QED
  BY <1>1, <1>2, <1>3, <1>4, <1>5, LoopFrame, HandlerFrame DEF Next, Handler,
     Cycle

LEMMA FiniteConn == IsFiniteSet(Conn)
<1>1. 1 \in Int /\ N \in Int
  BY PoolAssumption
<1> QED
  BY <1>1, FS_Interval DEF Conn

LEMMA CloseReusable ==
  ASSUME TypeOK, ReusableCounted, NEW c \in Conn, CloseConnection(c)
  PROVE  ReusableCounted'
<1>1. CASE c \in live
  <2>1. IsFiniteSet(reusable)
    BY FiniteConn, FS_Subset DEF TypeOK
  <2>2. IF c \in reusable THEN Cardinality(reusable \ {c}) = reusablen - 1
                          ELSE reusable \ {c} = reusable
    BY <2>1, FS_RemoveElement DEF ReusableCounted
  <2>3. reusablen' = Cardinality(reusable \ {c}) /\ reusable' = reusable \ {c}
        /\ live' = live \ {c}
    BY <1>1, <2>2 DEF CloseConnection, ReusableCounted
  <2> QED
    BY <2>3 DEF ReusableCounted
<1>2. CASE c \notin live
  BY <1>2 DEF CloseConnection, pool, reuse, ReusableCounted
<1> QED
  BY <1>1, <1>2

\* Every step keeps the counter of reusable connections right.
LEMMA ReusableNext == ASSUME IInv, Next PROVE ReusableCounted'
<1> TypeOK /\ ReusableCounted
  BY DEF IInv
<1>1. ASSUME NEW c \in Conn, DrainClose(c) \/ Close(c) \/ CloseIdle(c)
      PROVE  ReusableCounted'
  BY <1>1, CloseReusable DEF DrainClose, Close, CloseIdle
<1>2. CASE GetReturns
  BY <1>2 DEF GetReturns, TakeConnection, reuse, ReusableCounted
<1>3. ASSUME NEW c \in Conn, CloseListening(c) PROVE ReusableCounted'
  BY <1>3 DEF CloseListening, reuse, ReusableCounted, IInv, Listening
<1>4. ASSUME NEW c \in Conn, NEW r \in 0..1, ReusableConnection(c, r)
      PROVE  ReusableCounted'
  <2>1. IsFiniteSet(reusable)
    BY FiniteConn, FS_Subset DEF TypeOK
  <2>2. Cardinality(reusable) \in Nat
    BY <2>1, FS_CardinalityType
  <2>3. CASE c \in reusable
    <3>1. Cardinality(reusable \ {c}) = Cardinality(reusable) - 1
          /\ reusable \cup {c} = reusable
      BY <2>1, <2>3, FS_RemoveElement
    <3>2. /\ c \in live
          /\ UNCHANGED live
          /\ reusablen = Cardinality(reusable)
          /\ reusable' = IF r = 1 THEN reusable \cup {c} ELSE reusable \ {c}
          /\ reusablen' = reusablen - 1 + r
      BY <1>4, <2>3 DEF ReusableConnection, ReusableCounted, Requests
    <3>3. reusablen' = Cardinality(reusable')
      <4>1. CASE r = 1
        <5>1. reusable' = reusable
          BY <3>1, <3>2, <4>1
        <5>2. reusablen' = reusablen
          BY <3>2, <4>1 DEF TypeOK
        <5> QED
          BY <3>2, <5>1, <5>2
      <4>2. CASE r = 0
        <5>1. reusable' = reusable \ {c}
          BY <3>2, <4>2
        <5> QED
          BY <2>2, <3>1, <3>2, <4>2, <5>1
      <4> QED
        BY <4>1, <4>2
    <3>4. reusable' \subseteq live'
      BY <3>2 DEF ReusableCounted
    <3> QED
      BY <3>3, <3>4 DEF ReusableCounted
  <2>4. CASE c \notin reusable
    <3>1. Cardinality(reusable \cup {c}) = Cardinality(reusable) + 1
          /\ reusable \ {c} = reusable
      BY <2>1, <2>4, FS_AddElement
    <3>2. /\ c \in live
          /\ UNCHANGED live
          /\ reusablen = Cardinality(reusable)
          /\ reusable' = IF r = 1 THEN reusable \cup {c} ELSE reusable \ {c}
          /\ reusablen' = reusablen + r
      BY <1>4, <2>4 DEF ReusableConnection, ReusableCounted, Requests
    <3>3. reusablen' = Cardinality(reusable')
      <4>1. CASE r = 1
        <5>1. reusable' = reusable \cup {c}
          BY <3>2, <4>1
        <5> QED
          BY <2>2, <3>1, <3>2, <4>1, <5>1
      <4>2. CASE r = 0
        <5>1. reusable' = reusable
          BY <3>1, <3>2, <4>2
        <5> QED
          BY <2>2, <3>1, <3>2, <4>2, <5>1
      <4> QED
        BY <4>1, <4>2
    <3>4. reusable' \subseteq live'
      BY <3>2 DEF ReusableCounted
    <3> QED
      BY <3>3, <3>4 DEF ReusableCounted
  <2> QED
    BY <2>3, <2>4
<1>5. CASE UNCHANGED <<live, reusable, reusablen>>
  BY <1>5 DEF ReusableCounted
<1> QED
  BY <1>1, <1>2, <1>3, <1>4, <1>5, LoopFrame, HandlerFrame DEF Next, Handler,
     Cycle

-----------------------------------------------------------------------------
(* The batch *)

\* Only epoll_wait() and the scan change the batch.
LEMMA BatchFrame ==
  ASSUME Next
  PROVE  EpollWait \/ ScanStale \/ ScanWrite \/ UNCHANGED batch
<1> USE DEF loop
<1>1. ASSUME Handler PROVE UNCHANGED batch
  BY <1>1 DEF Handler, GetConnection, DrainWaits, DrainEmpty, GetReturns,
     GetFails, HandlerReturns, DrainClose, Close, AcceptNoFiles,
     ReusableConnection, AddEvent, DelEvent, AddTimer, DelTimer, PostEvent
<1>2. ASSUME Cycle PROVE UNCHANGED batch
  BY <1>2 DEF Cycle, Quit, CloseListeningEnds, CloseIdleEnds, Exit,
     CloseListening, CloseIdle
<1>3. ASSUME Loop PROVE EpollWait \/ ScanStale \/ ScanWrite \/ UNCHANGED batch
  BY <1>3 DEF Loop, TrylockAcceptMutex, ScanEnds, ScanRead, AcceptsEnd,
     ExpireEnds, PostedEnds, ProcessAccept, ExpireTimer, ProcessPosted
<1> QED
  BY <1>1, <1>2, <1>3 DEF Next

\* The rest of a batch says of its events what the batch says of its own.
LEMMA TailBatch ==
  ASSUME TypeOK, batch # <<>>, batch' = Tail(batch)
  PROVE  /\ batch' \in Seq(Returned)
         /\ \A i \in DOMAIN batch' :
              i + 1 \in DOMAIN batch /\ batch'[i] = batch[i + 1]
<1>1. /\ Tail(batch) \in Seq(Returned)
      /\ Len(batch) \in Nat \ {0}
      /\ Len(Tail(batch)) = Len(batch) - 1
      /\ \A i \in 1..(Len(batch) - 1) : Tail(batch)[i] = batch[i + 1]
  BY Pop DEF TypeOK
<1>2. DOMAIN batch = 1..Len(batch) /\ DOMAIN Tail(batch) = 1..(Len(batch) - 1)
  BY <1>1 DEF TypeOK
<1> QED
  BY <1>1, <1>2

\* What epoll_wait() returns is about open connections as they are.
LEMMA FreshBatch ==
  ASSUME TypeOK, EpollWait
  PROVE  \A i \in DOMAIN batch' :
           /\ batch'[i].c \in live
           /\ batch'[i].inst = instance[batch'[i].c]
           /\ batch'[i].lf = life[batch'[i].c]
<1>1. PICK n \in 0..MaxEvents :
        \E f \in [1..n -> {c \in live : Of(c) \cap active # {}}] :
        \E s \in [1..n -> SUBSET Side] :
          batch' = [i \in 1..n |-> [c |-> f[i], inst |-> instance[f[i]],
                                    lf |-> life[f[i]], ev |-> s[i]]]
  BY DEF EpollWait
<1>2. PICK f \in [1..n -> {c \in live : Of(c) \cap active # {}}] :
        \E s \in [1..n -> SUBSET Side] :
          batch' = [i \in 1..n |-> [c |-> f[i], inst |-> instance[f[i]],
                                    lf |-> life[f[i]], ev |-> s[i]]]
  BY <1>1
<1>3. PICK s \in [1..n -> SUBSET Side] :
          batch' = [i \in 1..n |-> [c |-> f[i], inst |-> instance[f[i]],
                                    lf |-> life[f[i]], ev |-> s[i]]]
  BY <1>2
<1>4. \A i \in 1..n : f[i] \in live
  OBVIOUS
<1> QED
  BY <1>3, <1>4

\* The instance bit stays the parity of the lives.
LEMMA ParityNext == ASSUME IInv, Next PROVE Parity'
<1> TypeOK /\ Parity /\ Control
  BY DEF IInv
<1>1. ASSUME instance' = instance, life' = life
      PROVE  \A c \in Conn : instance'[c] = (life'[c] + 1) % 2
  BY <1>1 DEF Parity
<1>2. \A c \in Conn : instance'[c] = (life'[c] + 1) % 2
  <2>1. CASE GetReturns
    <3>1. Head(free) \in Conn
      BY <2>1, Pop DEF GetReturns, TypeOK
    <3> DEFINE c == Head(free)
    <3>2. instance' = [instance EXCEPT ![c] = 1 - instance[c]]
          /\ life' = [life EXCEPT ![c] = life[c] + 1]
      BY <2>1 DEF GetReturns, TakeConnection, Cleared
    <3> HIDE DEF c
    <3>3. life[c] \in Nat /\ instance[c] = (life[c] + 1) % 2
      BY <3>1 DEF TypeOK, Parity, c
    <3>4. 1 - instance[c] = (life[c] + 1 + 1) % 2
      BY <3>3
    <3> QED
      BY <3>1, <3>2, <3>4 DEF TypeOK, Parity, c
  <2>2. ASSUME NEW c \in Conn, DrainClose(c) \/ Close(c) \/ CloseIdle(c)
               \/ CloseListening(c) \/ \E r \in 0..1 : ReusableConnection(c, r)
        PROVE  instance' = instance /\ life' = life
    BY <2>2 DEF DrainClose, Close, CloseIdle, CloseListening,
       ReusableConnection, taken
  <2> QED
    BY <1>1, <2>1, <2>2, LoopFrame, HandlerFrame DEF Next, Handler, Cycle
<1>3. \A i \in DOMAIN batch' : batch'[i].inst = (batch'[i].lf + 1) % 2
  <2>1. CASE EpollWait
    BY <2>1, FreshBatch DEF Parity, TypeOK
  <2>2. CASE ScanStale \/ ScanWrite
    <3>1. batch # <<>> /\ batch' = Tail(batch)
      BY <2>2 DEF ScanStale, ScanWrite, At, Control
    <3> QED
      BY <3>1, TailBatch DEF Parity
  <2>3. CASE UNCHANGED batch
    BY <2>3 DEF Parity
  <2> QED
    BY <2>1, <2>2, <2>3, BatchFrame
<1> QED
  BY <1>2, <1>3 DEF Parity

\* Every step keeps to the places where handlers run.
LEMMA ControlNext == ASSUME IInv, Next PROVE Control'
<1> TypeOK /\ Control
  BY DEF IInv
<1> USE DEF Control, TypeOK
<1>1. ASSUME NEW c \in Conn, DrainClose(c) \/ Close(c) PROVE Control'
  BY <1>1 DEF DrainClose, Close, Handling, mode, loop
<1>2. ASSUME NEW c \in Conn, CloseIdle(c) \/ CloseListening(c) PROVE Control'
  BY <1>2 DEF CloseIdle, CloseListening, At, mode, loop
<1>3. CASE GetReturns
  BY <1>3 DEF GetReturns, TakeConnection
<1>4. CASE GetConnection
  BY <1>4 DEF GetConnection, Handling, loop
<1>5. CASE DrainWaits \/ DrainEmpty \/ GetFails
  BY <1>5 DEF DrainWaits, DrainEmpty, GetFails, loop
<1>6. CASE HandlerReturns
  BY <1>6 DEF HandlerReturns, Handling
<1>7. ASSUME NEW c \in Conn, AcceptNoFiles(c) PROVE Control'
  BY <1>7 DEF AcceptNoFiles, Handling
<1>8. ASSUME NEW c \in Conn, NEW r \in 0..1, ReusableConnection(c, r)
      PROVE  Control'
  BY <1>8 DEF ReusableConnection, loop
<1>9. ASSUME NEW e \in Events, AddEvent(e) \/ DelEvent(e) \/ AddTimer(e) \/ DelTimer(e)
             \/ PostEvent(e)
      PROVE  Control'
  BY <1>9 DEF AddEvent, DelEvent, AddTimer, DelTimer, PostEvent, loop
<1>10. CASE TrylockAcceptMutex
  BY <1>10 DEF TrylockAcceptMutex, At, Goto, idle
<1>11. CASE EpollWait
  <2>1. pc = "poll" /\ run = NoHandler /\ pc' = "read"
        /\ UNCHANGED <<run, post, gap, drain>>
    BY <1>11 DEF EpollWait, At, Goto, idle
  <2> QED
    BY <2>1
<1>12. CASE ScanEnds
  BY <1>12 DEF ScanEnds, At, Goto, idle
<1>13. CASE ScanStale
  BY <1>13 DEF ScanStale, At, idle
<1>14. CASE ScanRead
  BY <1>14 DEF ScanRead, At, Goto, Deliver, idle
<1>15. CASE ScanWrite
  BY <1>15 DEF ScanWrite, At, Goto, Deliver, idle
<1>16. CASE AcceptsEnd \/ ExpireEnds \/ PostedEnds
  BY <1>16 DEF AcceptsEnd, ExpireEnds, PostedEnds, At, Goto, idle
<1>17. ASSUME NEW e \in Events, ProcessAccept(e) \/ ExpireTimer(e)
              \/ ProcessPosted(e)
       PROVE  Control'
  BY <1>17 DEF ProcessAccept, ExpireTimer, ProcessPosted, At, idle
<1>18. CASE Quit
  BY <1>18 DEF Quit, At, Goto
<1>19. CASE CloseListeningEnds \/ CloseIdleEnds \/ Exit
  BY <1>19 DEF CloseListeningEnds, CloseIdleEnds, Exit, At, Goto, idle
<1> QED
  BY <1>1, <1>2, <1>3, <1>4, <1>5, <1>6, <1>7, <1>8, <1>9, <1>10, <1>11, <1>12,
     <1>13, <1>14, <1>15, <1>16, <1>17, <1>18, <1>19 DEF Next, Handler, Loop,
     Cycle

\* While events are posted nothing is closed and nothing is taken.
LEMMA PostingNext == ASSUME IInv, Next PROVE Posting'
<1> SUFFICES ASSUME post' = 1, pc' \in {"read", "write"}
             PROVE  \A i \in DOMAIN batch' : batch'[i].c \in live'
                              /\ life'[batch'[i].c] = batch'[i].lf
  BY DEF Posting
<1> TypeOK /\ Control /\ Posting
  BY DEF IInv
<1>1. CASE EpollWait
  <2>1. UNCHANGED <<live, life>>
    BY <1>1, LoopFrame DEF Loop
  <2> QED
    BY <1>1, <2>1, FreshBatch
<1>2. CASE ScanStale \/ ScanRead \/ ScanWrite
  <2>1. UNCHANGED <<live, life>>
    BY <1>2, LoopFrame DEF Loop
  <2>2. post = 1 /\ pc \in {"read", "write"}
    BY <1>2 DEF ScanStale, ScanRead, ScanWrite, At
  <2>3. \A i \in DOMAIN batch : batch[i].c \in live /\ life[batch[i].c] = batch[i].lf
    BY <2>2 DEF Posting
  <2>4. CASE ScanRead
    BY <2>1, <2>3, <2>4 DEF ScanRead
  <2>5. CASE ScanStale \/ ScanWrite
    <3>1. batch # <<>> /\ batch' = Tail(batch)
      BY <2>5 DEF ScanStale, ScanWrite, At, Control
    <3> QED
      BY <3>1, <2>1, <2>3, TailBatch
  <2> QED
    BY <1>2, <2>4, <2>5
<1>3. CASE Handler
  <2>1. post = 1
    BY <1>3 DEF Handler, GetConnection, DrainWaits, DrainEmpty, GetReturns,
       GetFails, HandlerReturns, DrainClose, Close, AcceptNoFiles,
       ReusableConnection, AddEvent, DelEvent, AddTimer, DelTimer, PostEvent,
       loop
  <2>2. run = NoHandler /\ drain = -1
    BY <2>1 DEF Control
  <2> QED
    BY <1>3, <2>2 DEF Handler, GetConnection, DrainWaits, DrainEmpty,
       GetReturns, GetFails, HandlerReturns, DrainClose, Close, AcceptNoFiles,
       ReusableConnection, AddEvent, DelEvent, AddTimer, DelTimer, PostEvent,
       Handling
<1>4. CASE Cycle
  BY <1>4 DEF Cycle, Quit, CloseListeningEnds, CloseIdleEnds, Exit,
     CloseListening, CloseIdle, At, Goto, loop
<1>5. CASE TrylockAcceptMutex \/ ScanEnds \/ AcceptsEnd \/ ExpireEnds
           \/ PostedEnds
  BY <1>5 DEF TrylockAcceptMutex, ScanEnds, AcceptsEnd, ExpireEnds, PostedEnds,
     Goto
<1>6. ASSUME NEW e \in Events, ProcessAccept(e) \/ ExpireTimer(e)
             \/ ProcessPosted(e)
      PROVE  FALSE
  BY <1>6 DEF ProcessAccept, ExpireTimer, ProcessPosted, At
<1> QED
  BY <1>1, <1>2, <1>3, <1>4, <1>5, <1>6 DEF Next, Loop

\* An event that passes the test is an even number of lives old.
LEMMA Even ==
  ASSUME NEW a \in Nat, NEW b \in Nat, (a + 1) % 2 = (b + 1) % 2
  PROVE  (a - b) % 2 = 0
  OBVIOUS

LEMMA DeliverGap ==
  ASSUME IInv, pc \in {"read", "write"}, batch # <<>>, NEW s \in Side,
         ~Stale(Head(batch)), Deliver(Head(batch), s)
  PROVE  gap' % 2 = 0 /\ (post = 1 => gap' = 0)
<1> DEFINE e == Head(batch)
<1>1. e \in Returned /\ e = batch[1] /\ 1 \in DOMAIN batch
  BY Pop DEF IInv, TypeOK
<1> HIDE DEF e
<1>2. e.c \in Conn /\ e.lf \in Nat /\ life[e.c] \in Nat
  BY <1>1 DEF Returned, IInv, TypeOK
<1>3. instance[e.c] = (life[e.c] + 1) % 2 /\ e.inst = (e.lf + 1) % 2
      /\ instance[e.c] = e.inst
  BY <1>1, <1>2 DEF IInv, Parity, Stale, e
<1>4. (life[e.c] - e.lf) % 2 = 0
  BY <1>2, <1>3, Even
<1>5. post = 1 => life[e.c] = e.lf
  BY <1>1 DEF IInv, Posting
<1>6. gap' = life[e.c] - e.lf
  BY DEF Deliver, e
<1> QED
  BY <1>2, <1>4, <1>5, <1>6

\* Every step keeps StaleIsCaught.
LEMMA StaleNext == ASSUME IInv, Next PROVE StaleIsCaught'
<1> TypeOK /\ Control /\ StaleIsCaught
  BY DEF IInv
<1>0. ASSUME gap' = gap, post' = post PROVE StaleIsCaught'
  BY <1>0 DEF StaleIsCaught
<1>1. CASE ScanRead
  <2>1. UNCHANGED post
    BY <1>1 DEF ScanRead
  <2>2. CASE "r" \in Head(batch).ev /\ <<Head(batch).c, "r">> \in active
    <3>1. gap' % 2 = 0 /\ (post = 1 => gap' = 0)
      BY <1>1, <2>2, DeliverGap DEF ScanRead, At, Side
    <3> QED
      BY <2>1, <3>1 DEF StaleIsCaught
  <2>3. CASE ~("r" \in Head(batch).ev /\ <<Head(batch).c, "r">> \in active)
    BY <1>0, <1>1, <2>1, <2>3 DEF ScanRead
  <2> QED
    BY <2>2, <2>3
<1>2. CASE ScanWrite
  <2>1. UNCHANGED post
    BY <1>2 DEF ScanWrite
  <2>2. CASE /\ "w" \in Head(batch).ev /\ <<Head(batch).c, "w">> \in active
             /\ ~Stale(Head(batch))
    <3>1. gap' % 2 = 0 /\ (post = 1 => gap' = 0)
      BY <1>2, <2>2, DeliverGap DEF ScanWrite, At, Side, Control
    <3> QED
      BY <2>1, <3>1 DEF StaleIsCaught
  <2>3. CASE ~( /\ "w" \in Head(batch).ev /\ <<Head(batch).c, "w">> \in active
                /\ ~Stale(Head(batch)))
    BY <1>0, <1>2, <2>1, <2>3 DEF ScanWrite
  <2> QED
    BY <2>2, <2>3
<1>3. CASE TrylockAcceptMutex
  BY <1>3 DEF TrylockAcceptMutex, At, Control, StaleIsCaught
<1>4. CASE ScanEnds \/ HandlerReturns
  BY <1>4 DEF ScanEnds, HandlerReturns, StaleIsCaught
<1>5. CASE EpollWait \/ ScanStale \/ AcceptsEnd \/ ExpireEnds \/ PostedEnds
  BY <1>0, <1>5 DEF EpollWait, ScanStale, AcceptsEnd, ExpireEnds, PostedEnds
<1>6. ASSUME NEW e \in Events, ProcessAccept(e) \/ ExpireTimer(e)
             \/ ProcessPosted(e)
      PROVE  StaleIsCaught'
  BY <1>0, <1>6 DEF ProcessAccept, ExpireTimer, ProcessPosted
<1>7. CASE Handler /\ ~HandlerReturns
  BY <1>0, <1>7 DEF Handler, GetConnection, DrainWaits, DrainEmpty, GetReturns,
     GetFails, DrainClose, Close, AcceptNoFiles, ReusableConnection, AddEvent,
     DelEvent,
     AddTimer, DelTimer, PostEvent, loop
<1>8. CASE Cycle
  BY <1>0, <1>8 DEF Cycle, Quit, CloseListeningEnds, CloseIdleEnds, Exit,
     CloseListening, CloseIdle, loop
<1> QED
  BY <1>1, <1>2, <1>3, <1>4, <1>5, <1>6, <1>7, <1>8 DEF Next, Loop

-----------------------------------------------------------------------------
(* Listening sockets, and what is left of closed connections *)

\* Every step keeps listening sockets apart from the connections of requests.
LEMMA ListeningNext == ASSUME IInv, Next PROVE Listening'
<1> TypeOK /\ Listening /\ Control /\ PoolIsWhole
  BY DEF IInv
<1> USE DEF Listening
<1>1. ASSUME NEW c \in Conn \ ls, CloseConnection(c), UNCHANGED <<mode, pc>>
      PROVE  Listening'
  <2>1. CASE c \in live
    BY <1>1, <2>1 DEF CloseConnection, mode, Of
  <2>2. CASE c \notin live
    BY <1>1, <2>2 DEF CloseConnection, mode, pool, lists, reuse
  <2> QED
    BY <2>1, <2>2
<1>2. ASSUME NEW c \in Conn, DrainClose(c) \/ Close(c) \/ CloseIdle(c)
      PROVE  Listening'
  <2>1. CASE DrainClose(c)
    BY <1>1, <2>1 DEF DrainClose, loop
  <2>2. CASE Close(c)
    BY <1>1, <2>2 DEF Close, loop
  <2>3. CASE CloseIdle(c)
    <3>1. CASE c \notin ls
      BY <1>1, <2>3, <3>1 DEF CloseIdle, loop
    <3>2. CASE c \in ls
      BY <2>3, <3>2 DEF CloseIdle, At
    <3> QED
      BY <3>1, <3>2
  <2> QED
    BY <1>2, <2>1, <2>2, <2>3
<1>3. CASE GetReturns
  BY <1>3 DEF GetReturns, TakeConnection, lists, reuse, mode
<1>4. CASE GetConnection \/ DrainWaits \/ DrainEmpty \/ GetFails
  BY <1>4 DEF GetConnection, DrainWaits, DrainEmpty, GetFails, pool, lists,
     reuse, mode, loop
<1>5. CASE HandlerReturns
  BY <1>5 DEF HandlerReturns, pool, lists, reuse, mode
<1>6. ASSUME NEW c \in Conn, AcceptNoFiles(c) PROVE Listening'
  BY <1>6 DEF AcceptNoFiles, reuse, mode
<1>7. ASSUME NEW c \in Conn, NEW r \in 0..1, ReusableConnection(c, r)
      PROVE  Listening'
  BY <1>7 DEF ReusableConnection, Requests, lists, mode, loop
<1>8. ASSUME NEW e \in Events, AddEvent(e) \/ DelEvent(e) PROVE Listening'
  BY <1>8 DEF AddEvent, DelEvent, Requests, lists, reuse, mode, loop
<1>9. ASSUME NEW e \in Events, AddTimer(e) \/ DelTimer(e) PROVE Listening'
  BY <1>9 DEF AddTimer, DelTimer, reuse, mode, loop
<1>10. ASSUME NEW e \in Events, PostEvent(e) PROVE Listening'
  BY <1>10 DEF PostEvent, Requests, reuse, mode, loop, Of
<1>11. CASE TrylockAcceptMutex
  BY <1>11 DEF TrylockAcceptMutex, At, Goto, idle, lists, reuse, mode
<1>12. CASE EpollWait \/ ScanEnds \/ ScanStale \/ AcceptsEnd \/ ExpireEnds
            \/ PostedEnds
  BY <1>12 DEF EpollWait, ScanEnds, ScanStale, AcceptsEnd, ExpireEnds,
     PostedEnds, At, Goto, idle, lists, reuse, mode
<1>13. ASSUME NEW e \in Returned, NEW s \in Side, Deliver(e, s),
              <<e.c, s>> \in active,
              UNCHANGED <<idle, active>>, pc' \in {"read", "write"}
       PROVE  Listening'
  <2>1. s = "r" \/ e.c \notin ls
    BY <1>13 DEF Side
  <2>2. UNCHANGED <<live, ls, reusable, active, exiting>>
    BY <1>13 DEF idle, reuse, mode
  <2>3. accepts' \subseteq ls \X {"r"}
    BY <1>13 DEF Deliver
  <2>4. \A c \in ls : Of(c) \cap posted' = {}
    BY <1>13, <2>1 DEF Deliver, Of
  <2> QED
    BY <1>13, <2>2, <2>3, <2>4
<1>14. CASE ScanRead
  <2>1. Head(batch) \in Returned /\ "r" \in Side
    BY <1>14, Pop DEF ScanRead, Side, TypeOK
  <2>2. CASE "r" \in Head(batch).ev /\ <<Head(batch).c, "r">> \in active
    BY <1>13, <1>14, <2>1, <2>2 DEF ScanRead, Goto
  <2>3. CASE ~("r" \in Head(batch).ev /\ <<Head(batch).c, "r">> \in active)
    BY <1>14, <2>3 DEF ScanRead, Goto, idle, reuse, mode
  <2> QED
    BY <2>2, <2>3
<1>15. CASE ScanWrite
  <2>0. batch # <<>>
    BY <1>15 DEF ScanWrite, At, Control
  <2>1. Head(batch) \in Returned /\ "w" \in Side
    BY <2>0, Pop DEF Side, TypeOK
  <2>2. CASE /\ "w" \in Head(batch).ev /\ <<Head(batch).c, "w">> \in active
             /\ ~Stale(Head(batch))
    BY <1>13, <1>15, <2>1, <2>2 DEF ScanWrite, Goto
  <2>3. CASE ~( /\ "w" \in Head(batch).ev /\ <<Head(batch).c, "w">> \in active
                /\ ~Stale(Head(batch)))
    BY <1>15, <2>3 DEF ScanWrite, Goto, idle, reuse, mode
  <2> QED
    BY <2>2, <2>3
<1>16. ASSUME NEW e \in Events, ProcessAccept(e) PROVE Listening'
  BY <1>16 DEF ProcessAccept, At, idle, reuse, mode
<1>17. ASSUME NEW e \in Events, ExpireTimer(e) PROVE Listening'
  BY <1>17 DEF ExpireTimer, At, idle, reuse, mode
<1>18. ASSUME NEW e \in Events, ProcessPosted(e) PROVE Listening'
  BY <1>18 DEF ProcessPosted, At, idle, reuse, mode
<1>19. CASE Quit
  BY <1>19 DEF Quit, At, Goto, pool, lists, reuse
<1>20. ASSUME NEW c \in Conn, CloseListening(c) PROVE Listening'
  <2>1. accepts = {}
    BY <1>20 DEF CloseListening, At
  <2> QED
    BY <1>20, <2>1 DEF CloseListening, lists, reuse, loop
<1>21. CASE CloseListeningEnds \/ CloseIdleEnds \/ Exit
  BY <1>21 DEF CloseListeningEnds, CloseIdleEnds, Exit, At, Goto, idle, lists,
     reuse, mode
<1> QED
  BY <1>2, <1>3, <1>4, <1>5, <1>6, <1>7, <1>8, <1>9, <1>10, <1>11, <1>12,
     <1>14,
     <1>15, <1>16, <1>17, <1>18, <1>19, <1>20, <1>21 DEF Next, Handler, Loop,
     Cycle

\* ClosedIsForgotten, with the sets it is about as parameters.
Forgotten(open, act, pst, acc, tr, reus, ex) ==
  \A c \in Conn \ open :
    /\ Of(c) \cap (act \cup pst \cup acc) = {}
    /\ c \notin reus
    /\ Of(c) \cap tr # {} => ex = 1 /\ c \in Sockets

\* A list that loses events, or gets events of open connections only.
LEMMA ForgottenStep ==
  ASSUME pc # "undefined" => Forgotten(live, active, posted, accepts, tree,
                                       reusable, exiting),
         pc = "undefined" => pc' = "undefined",
         live' = live,
         exiting = 1 => exiting' = 1,
         reusable' \subseteq reusable \cup live,
         \A e \in active' : e \in active \/ e[1] \in live,
         \A e \in posted' : e \in posted \/ e[1] \in live,
         \A e \in accepts' : e \in accepts \/ e[1] \in live,
         \A e \in tree' : e \in tree \/ e[1] \in live
  PROVE  ClosedIsForgotten'
  BY DEF ClosedIsForgotten, Forgotten, Of

\* Every step leaves nothing behind of a connection it closes.
LEMMA ForgottenNext == ASSUME IInv, Next PROVE ClosedIsForgotten'
<1> TypeOK /\ Listening /\ Control /\ PoolIsWhole /\ ClosedIsForgotten
    /\ ReusableCounted
  BY DEF IInv
<1>0. pc # "undefined" => Forgotten(live, active, posted, accepts, tree,
                                    reusable, exiting)
  BY DEF ClosedIsForgotten, Forgotten
<1>1. ASSUME NEW c \in Conn, CloseConnection(c), UNCHANGED <<mode, loop>>
      PROVE  ClosedIsForgotten'
  <2>1. CASE c \in live
    BY <1>1, <2>1 DEF CloseConnection, ClosedIsForgotten, mode, loop
  <2>2. CASE c \notin live
    BY <1>1, <2>2 DEF CloseConnection, ClosedIsForgotten, pool, lists, reuse,
       mode, loop
  <2> QED
    BY <2>1, <2>2
<1>2. ASSUME NEW c \in Conn, DrainClose(c) \/ Close(c) \/ CloseIdle(c)
      PROVE  ClosedIsForgotten'
  BY <1>1, <1>2 DEF DrainClose, Close, CloseIdle
<1>3. CASE GetReturns
  <2>1. UNCHANGED <<active, posted, accepts, tree, reusable, exiting>>
        /\ live \subseteq live' /\ (pc' # "undefined" => pc # "undefined")
    BY <1>3 DEF GetReturns, TakeConnection, lists, reuse, mode
  <2> QED
    BY <2>1 DEF ClosedIsForgotten
<1>4. CASE GetConnection \/ DrainWaits \/ DrainEmpty \/ GetFails
  BY <1>4 DEF GetConnection, DrainWaits, DrainEmpty, GetFails, pool, lists,
     reuse, mode, loop, ClosedIsForgotten
<1>5. CASE HandlerReturns
  BY <1>5 DEF HandlerReturns, pool, lists, reuse, mode, ClosedIsForgotten
<1>6. ASSUME NEW c \in Conn, AcceptNoFiles(c) PROVE ClosedIsForgotten'
  <2>1. /\ UNCHANGED <<live, accepts, posted, reusable, exiting, pc>>
        /\ active' \subseteq active
        /\ tree' \subseteq tree \cup {<<c, "r">>}
        /\ c \in live
    BY <1>6 DEF AcceptNoFiles, reuse, mode, Listening
  <2> QED
    BY <1>0, <2>1, ForgottenStep
<1>7. ASSUME NEW c \in Conn, NEW r \in 0..1, ReusableConnection(c, r)
      PROVE  ClosedIsForgotten'
  <2>1. /\ UNCHANGED <<live, active, accepts, posted, tree, exiting, pc>>
        /\ reusable' \subseteq reusable \cup live
    BY <1>7 DEF ReusableConnection, Requests, lists, mode, loop
  <2> QED
    BY <1>0, <2>1, ForgottenStep
<1>8. ASSUME NEW e \in Events, AddEvent(e) \/ DelEvent(e) \/ AddTimer(e) \/ DelTimer(e)
             \/ PostEvent(e)
      PROVE  ClosedIsForgotten'
  <2>1. /\ UNCHANGED <<live, accepts, reusable, exiting, pc>>
        /\ active' \subseteq active \cup {e}
        /\ posted' \subseteq posted \cup {e}
        /\ tree' \subseteq tree \cup {e}
        /\ e[1] \in live
    BY <1>8 DEF AddEvent, DelEvent, AddTimer, DelTimer, PostEvent, Requests,
       lists,
       reuse, mode, loop
  <2> QED
    BY <1>0, <2>1, ForgottenStep
<1>9. CASE TrylockAcceptMutex
  <2>1. /\ UNCHANGED <<live, accepts, posted, tree, reusable, exiting>>
        /\ pc = "wait"
        /\ active' \subseteq active \cup (ls \X {"r"})
        /\ ls \subseteq live
    BY <1>9 DEF TrylockAcceptMutex, At, idle, lists, reuse, mode, Listening
  <2>2. \A e \in active' : e \in active \/ e[1] \in live
    BY <2>1
  <2> QED
    BY <1>0, <2>1, <2>2, ForgottenStep
<1>10. CASE EpollWait \/ ScanEnds \/ ScanStale \/ AcceptsEnd \/ ExpireEnds
            \/ PostedEnds
  <2>1. UNCHANGED <<live, active, accepts, posted, tree, reusable, exiting>>
        /\ pc # "undefined"
    BY <1>10 DEF EpollWait, ScanEnds, ScanStale, AcceptsEnd, ExpireEnds,
       PostedEnds, At, idle, lists, reuse, mode
  <2> QED
    BY <2>1 DEF ClosedIsForgotten
<1>11. CASE ScanRead \/ ScanWrite
  <2> DEFINE e == Head(batch)
  <2>1. UNCHANGED <<live, active, tree, reusable, exiting>> /\ pc # "undefined"
    BY <1>11 DEF ScanRead, ScanWrite, At, idle, reuse, mode
  <2>2. ASSUME NEW s \in Side, ~Stale(e), Deliver(e, s)
        PROVE  /\ e.c \in live
               /\ posted' \subseteq posted \cup {<<e.c, s>>}
               /\ accepts' \subseteq accepts \cup {<<e.c, s>>}
    BY <2>2 DEF Deliver, Stale
  <2>3. "r" \in Side /\ "w" \in Side
    BY DEF Side
  <2>4. /\ \A x \in posted' : x \in posted \/ x[1] \in live
        /\ \A x \in accepts' : x \in accepts \/ x[1] \in live
    <3>1. CASE UNCHANGED <<accepts, posted>>
      BY <3>1
    <3>2. CASE ~Stale(e) /\ \E s \in Side : Deliver(e, s)
      BY <2>2, <3>2
    <3> HIDE DEF e
    <3> QED
      BY <1>11, <2>3, <3>1, <3>2 DEF ScanRead, ScanWrite, e
  <2> QED
    BY <1>0, <2>1, <2>4, ForgottenStep
<1>12. ASSUME NEW e \in Events, ProcessAccept(e) \/ ProcessPosted(e)
       PROVE  ClosedIsForgotten'
  <2>1. /\ UNCHANGED <<live, active, tree, reusable, exiting, pc>>
        /\ posted' \subseteq posted
        /\ accepts' \subseteq accepts
    BY <1>12 DEF ProcessAccept, ProcessPosted, idle, reuse, mode
  <2> QED
    BY <1>0, <2>1, ForgottenStep
<1>13. ASSUME NEW e \in Events, ExpireTimer(e) PROVE ClosedIsForgotten'
  <2>1. /\ UNCHANGED <<live, accepts, posted, reusable, exiting, pc>>
        /\ tree' \subseteq tree
        /\ active' \subseteq active \cup (ls \X {"r"})
        /\ ls \subseteq live
    BY <1>13 DEF ExpireTimer, idle, reuse, mode, Listening
  <2>2. \A x \in active' : x \in active \/ x[1] \in live
    BY <2>1
  <2> QED
    BY <1>0, <2>1, <2>2, ForgottenStep
<1>14. CASE Quit
  <2>1. UNCHANGED <<live, active, accepts, posted, tree, reusable>>
        /\ pc # "undefined" /\ exiting' = 1
    BY <1>14 DEF Quit, At, pool, lists, reuse
  <2> QED
    BY <2>1 DEF ClosedIsForgotten
<1>15. ASSUME NEW c \in Conn, CloseListening(c) PROVE ClosedIsForgotten'
  <2>1. /\ c \in ls /\ c \in Sockets /\ accepts = {} /\ exiting = 1
        /\ <<c, "w">> \notin active /\ c \notin reusable
        /\ Of(c) \cap posted = {}
        /\ pc # "undefined"
    BY <1>15 DEF CloseListening, At, Listening, TypeOK
  <2>2. /\ UNCHANGED <<accepts, posted, tree, reusable, exiting, pc>>
        /\ live' = live \ {c}
        /\ active' = active \ {<<c, "r">>}
    BY <1>15 DEF CloseListening, lists, reuse, loop
  <2>3. Of(c) \cap active' = {}
    BY <2>1, <2>2 DEF Of, Side
  <2> QED
    BY <2>1, <2>2, <2>3 DEF ClosedIsForgotten
<1>16. CASE CloseListeningEnds \/ CloseIdleEnds \/ Exit
  <2>1. UNCHANGED <<live, active, accepts, posted, tree, reusable, exiting>>
        /\ pc # "undefined"
    BY <1>16 DEF CloseListeningEnds, CloseIdleEnds, Exit, At, idle, lists,
       reuse, mode
  <2> QED
    BY <2>1 DEF ClosedIsForgotten
<1> QED
  BY <1>2, <1>3, <1>4, <1>5, <1>6, <1>7, <1>8, <1>9, <1>10, <1>11, <1>12,
     <1>13,
     <1>14, <1>15, <1>16 DEF Next, Handler, Loop, Cycle

-----------------------------------------------------------------------------
(* The theorems *)

LEMMA InitIInv == ASSUME Init PROVE IInv
<1>1. TypeOK
  BY TypeInit
<1>2. PoolIsWhole
  <2>1. \A i, j \in DOMAIN free : free[i] = free[j] => i = j
    BY PoolAssumption DEF Init
  <2>2. \A i \in DOMAIN free : free[i] \notin live
    BY PoolAssumption DEF Init, Sockets
  <2>3. ASSUME NEW c \in Conn \ live PROVE \E i \in DOMAIN free : free[i] = c
    <3>1. c - L \in DOMAIN free /\ free[c - L] = c
      BY PoolAssumption DEF Init, Sockets, Conn
    <3> QED
      BY <3>1
  <2> QED
    BY <2>1, <2>2, <2>3 DEF PoolIsWhole
<1>3. ReusableCounted
  BY FS_EmptySet DEF Init, ReusableCounted
<1>4. Parity
  <2>1. \A c \in Conn : instance[c] = (life[c] + 1) % 2
    BY DEF Init
  <2>2. DOMAIN batch = {}
    BY DEF Init
  <2> QED
    BY <2>1, <2>2 DEF Parity
<1>5. ClosedIsForgotten
  BY DEF Init, ClosedIsForgotten, Of, Sockets
<1>6. Listening
  BY DEF Init, Listening, Of
<1>7. Control /\ Posting /\ StaleIsCaught
  BY DEF Init, Control, Posting, StaleIsCaught
<1> QED
  BY <1>1, <1>2, <1>3, <1>4, <1>5, <1>6, <1>7 DEF IInv

LEMMA NextIInv == ASSUME IInv, [Next]_vars PROVE IInv'
<1>1. CASE Next
  <2>1. TypeOK'
    BY <1>1, TypeNext DEF IInv
  <2> QED
    BY <1>1, <2>1, PoolNext, ReusableNext, ParityNext, ControlNext,
       PostingNext, StaleNext, ListeningNext, ForgottenNext DEF IInv
<1>2. CASE UNCHANGED vars
  <2> USE <1>2 DEF vars, pool, lists, reuse, taken, mode, loop
  <2>1. TypeOK' /\ PoolIsWhole' /\ ClosedIsForgotten' /\ ReusableCounted'
    BY DEF IInv, TypeOK, PoolIsWhole, ClosedIsForgotten, ReusableCounted
  <2>2. Parity' /\ Listening' /\ Control' /\ Posting' /\ StaleIsCaught'
    BY DEF IInv, Parity, Listening, Control, Posting, StaleIsCaught
  <2> QED
    BY <2>1, <2>2 DEF IInv
<1> QED
  BY <1>1, <1>2

LEMMA Inductive == Spec => []IInv
  BY InitIInv, NextIInv, PTL DEF Spec

\* The types of the variables of the connection pool and of the event loop.
THEOREM TypeCorrect == Spec => []TypeOK
<1>1. IInv => TypeOK
  BY DEF IInv
<1> QED
  BY <1>1, Inductive, PTL

\* However connections are accepted, drained, closed and closed again, each is
\* open or once in the free list.
THEOREM PoolCorrect == Spec => []PoolIsWhole
<1>1. IInv => PoolIsWhole
  BY DEF IInv
<1> QED
  BY <1>1, Inductive, PTL

\* Nothing of the event loop leads to a connection that was given back, but
\* the timer of a listening socket of a worker that shuts down.
THEOREM ForgottenCorrect == Spec => []ClosedIsForgotten
<1>1. IInv => ClosedIsForgotten
  BY DEF IInv
<1> QED
  BY <1>1, Inductive, PTL

\* The number that decides how much is drained is that of the queue.
THEOREM ReusableCorrect == Spec => []ReusableCounted
<1>1. IInv => ReusableCounted
  BY DEF IInv
<1> QED
  BY <1>1, Inductive, PTL

\* The instance bit lets an event of another life through only after an even
\* number of lives, and never while events are posted.
THEOREM StaleCorrect == Spec => []StaleIsCaught
<1>1. IInv => StaleIsCaught
  BY DEF IInv
<1> QED
  BY <1>1, Inductive, PTL

\* The test for stale events drops no event of a connection that stayed open.
THEOREM LiveCorrect == Spec => []LiveIsKept
<1>1. IInv => LiveIsKept
  <2> SUFFICES ASSUME IInv, NEW i \in DOMAIN batch, batch[i].c \in live,
                      life[batch[i].c] = batch[i].lf
               PROVE  ~Stale(batch[i])
    BY DEF LiveIsKept
  <2>1. batch[i].c \in Conn
    BY DEF IInv, TypeOK, Returned
  <2> QED
    BY <2>1 DEF IInv, Parity, Stale
<1> QED
  BY <1>1, Inductive, PTL

-----------------------------------------------------------------------------
(***************************************************************************)
(* What is undefined, and when.  A structure is cleared while it is in the *)
(* timer tree only if ngx_close_listening_sockets() has freed it while its *)
(* socket was paused: if no listening socket has a timer at that time, no  *)
(* connection that is given back is ever in the tree.                      *)
(***************************************************************************)
NobodyIsPaused == pc = "close" => tree \cap (ls \X Side) = {}

TreeIsOpen == \A c \in Conn \ live : Of(c) \cap tree = {}

\* The step that takes a connection finds it in no list.
LEMMA TakenIsUnlinked ==
  ASSUME IInv, NothingUndefined, TreeIsOpen, GetReturns
  PROVE  NothingUndefined' /\ TreeIsOpen'
<1> DEFINE c == Head(free)
<1>1. c \in Conn \ live
  <2>1. c = free[1] /\ 1 \in DOMAIN free /\ free[1] \in Conn
    BY DEF GetReturns, IInv, TypeOK
  <2> QED
    BY <2>1 DEF IInv, PoolIsWhole
<1>2. Of(c) \cap (posted \cup accepts) = {} /\ Of(c) \cap tree = {}
  BY <1>1 DEF IInv, ClosedIsForgotten, NothingUndefined, TreeIsOpen
<1>3. ~Linked(c)
  BY <1>2 DEF Linked
<1>4. pc' = pc /\ live' = live \cup {c} /\ tree' = tree
  BY <1>3 DEF GetReturns, TakeConnection, lists
<1> QED
  BY <1>4 DEF NothingUndefined, TreeIsOpen

\* A step that does not close a connection and puts timers of open ones only
\* into the tree.
LEMMA TreeStaysOpen ==
  ASSUME TreeIsOpen, live' = live, \A e \in tree' : e \in tree \/ e[1] \in live
  PROVE  TreeIsOpen'
  BY DEF TreeIsOpen, Of

LEMMA CloseLeavesNoTimer ==
  ASSUME TreeIsOpen, NEW c \in Conn, CloseConnection(c)
  PROVE  TreeIsOpen'
<1>1. CASE c \in live
  BY <1>1 DEF CloseConnection, TreeIsOpen
<1>2. CASE c \notin live
  BY <1>2 DEF CloseConnection, TreeIsOpen, pool, lists
<1> QED
  BY <1>1, <1>2

LEMMA DefinedNext ==
  ASSUME IInv, NobodyIsPaused, NothingUndefined, TreeIsOpen, Next
  PROVE  NothingUndefined' /\ TreeIsOpen'
<1> TypeOK /\ Listening
  BY DEF IInv
<1>1. CASE GetReturns
  BY <1>1, TakenIsUnlinked
<1>2. ASSUME NEW c \in Conn, DrainClose(c) \/ Close(c) \/ CloseIdle(c)
      PROVE  NothingUndefined' /\ TreeIsOpen'
  BY <1>2, CloseLeavesNoTimer
  DEF DrainClose, Close, CloseIdle, loop, NothingUndefined
<1>3. CASE GetConnection \/ DrainWaits \/ DrainEmpty \/ GetFails
           \/ HandlerReturns
  <2>1. UNCHANGED <<live, tree, pc>>
    BY <1>3 DEF GetConnection, DrainWaits, DrainEmpty, GetFails,
                HandlerReturns, pool, lists, loop
  <2> QED
    BY <2>1, TreeStaysOpen DEF NothingUndefined
<1>4. ASSUME NEW c \in Conn, AcceptNoFiles(c)
      PROVE  NothingUndefined' /\ TreeIsOpen'
  <2>1. /\ UNCHANGED <<live, pc>> /\ c \in live
        /\ tree' \subseteq tree \cup {<<c, "r">>}
    BY <1>4 DEF AcceptNoFiles, Listening
  <2> QED
    BY <2>1, TreeStaysOpen DEF NothingUndefined
<1>5. ASSUME NEW c \in Conn, NEW r \in 0..1, ReusableConnection(c, r)
      PROVE  NothingUndefined' /\ TreeIsOpen'
  <2>1. UNCHANGED <<live, tree, pc>>
    BY <1>5 DEF ReusableConnection, lists, loop
  <2> QED
    BY <2>1, TreeStaysOpen DEF NothingUndefined
<1>6. ASSUME NEW e \in Events, \/ AddEvent(e) \/ DelEvent(e) \/ AddTimer(e)
                               \/ DelTimer(e) \/ PostEvent(e)
      PROVE  NothingUndefined' /\ TreeIsOpen'
  <2>1. /\ UNCHANGED <<live, pc>> /\ e[1] \in live
        /\ tree' \subseteq tree \cup {e}
    BY <1>6 DEF AddEvent, DelEvent, AddTimer, DelTimer, PostEvent, Requests,
                lists, loop
  <2> QED
    BY <2>1, TreeStaysOpen DEF NothingUndefined
<1>7. CASE TrylockAcceptMutex \/ EpollWait \/ ScanEnds \/ ScanStale
           \/ ScanRead \/ ScanWrite \/ AcceptsEnd \/ ExpireEnds \/ PostedEnds
           \/ CloseListeningEnds \/ CloseIdleEnds \/ Exit
  <2>1. UNCHANGED <<live, tree>> /\ pc' # "undefined"
    BY <1>7 DEF TrylockAcceptMutex, EpollWait, ScanEnds, ScanStale, ScanRead,
                ScanWrite, AcceptsEnd, ExpireEnds, PostedEnds,
                CloseListeningEnds, CloseIdleEnds, Exit, At, Goto, idle,
                lists, NothingUndefined
  <2> QED
    BY <2>1, TreeStaysOpen DEF NothingUndefined
<1>8. ASSUME NEW e \in Events,
             ProcessAccept(e) \/ ExpireTimer(e) \/ ProcessPosted(e)
      PROVE  NothingUndefined' /\ TreeIsOpen'
  <2>1. UNCHANGED <<live, pc>> /\ tree' \subseteq tree
    BY <1>8 DEF ProcessAccept, ExpireTimer, ProcessPosted, idle
  <2> QED
    BY <2>1, TreeStaysOpen DEF NothingUndefined
<1>9. CASE Quit
  <2>1. UNCHANGED <<live, tree>> /\ pc' # "undefined"
    BY <1>9 DEF Quit, Goto, pool, lists
  <2> QED
    BY <2>1, TreeStaysOpen DEF NothingUndefined
<1>10. ASSUME NEW c \in Conn, CloseListening(c)
       PROVE  NothingUndefined' /\ TreeIsOpen'
  <2>1. /\ UNCHANGED <<pc, tree>> /\ live' = live \ {c}
        /\ pc = "close" /\ c \in ls
    BY <1>10 DEF CloseListening, At, lists, loop
  <2>2. Of(c) \cap tree = {}
    BY <2>1 DEF NobodyIsPaused, Of
  <2> QED
    BY <2>1, <2>2 DEF NothingUndefined, TreeIsOpen
<1> QED
  BY <1>1, <1>2, <1>3, <1>4, <1>5, <1>6, <1>7, <1>8, <1>9, <1>10
  DEF Next, Handler, Loop, Cycle

\* If no listening socket is paused while the worker closes them, no structure
\* is ever cleared in a list: the missing ngx_del_timer() of
\* ngx_close_listening_sockets() is the only way to clear one.
THEOREM DefinedUnlessPaused ==
  Spec /\ []NobodyIsPaused => []NothingUndefined
<1> DEFINE Inv == NothingUndefined /\ TreeIsOpen
<1>1. Init => Inv
  BY DEF Init, NothingUndefined, TreeIsOpen
<1>2. IInv /\ NobodyIsPaused /\ Inv /\ [Next]_vars => Inv'
  <2>1. CASE Next
    BY <2>1, DefinedNext
  <2>2. CASE UNCHANGED vars
    BY <2>2 DEF vars, pool, lists, loop, NothingUndefined, TreeIsOpen
  <2> QED
    BY <2>1, <2>2
<1>3. Inv => NothingUndefined
  OBVIOUS
<1> QED
  BY <1>1, <1>2, <1>3, Inductive, PTL DEF Spec

(***************************************************************************)
(* With the accept mutex a shortage of descriptors sets no timer, and the  *)
(* mutex is given up only when the listening sockets are closed at once.   *)
(***************************************************************************)
MutexIsKept ==
  /\ exiting = 0 => mutex = 1
  /\ exiting = 1 => pc = "close" \/ ls = {}
  /\ tree \cap (ls \X Side) = {}

LEMMA MutexIsKeptNext ==
  ASSUME IInv, NothingUndefined, MutexIsKept, Next
  PROVE  MutexIsKept'
<1> USE DEF MutexIsKept
<1> TypeOK /\ Listening /\ Control
  BY DEF IInv
<1>1. ASSUME UNCHANGED mode, tree' \subseteq tree, pc = "close" => pc' = pc
      PROVE  MutexIsKept'
  BY <1>1 DEF mode
<1>2. run # NoHandler => pc # "close"
  BY DEF Control, NothingUndefined
<1>3. CASE GetReturns
  BY <1>1, <1>2, <1>3 DEF GetReturns, lists, Control
<1>4. ASSUME NEW c \in Conn, DrainClose(c) \/ Close(c) \/ CloseIdle(c)
      PROVE  MutexIsKept'
  BY <1>1, <1>4 DEF DrainClose, Close, CloseIdle, CloseConnection, pool,
                    lists, loop
<1>5. CASE GetConnection \/ DrainWaits \/ DrainEmpty \/ GetFails
           \/ HandlerReturns
  BY <1>1, <1>5 DEF GetConnection, DrainWaits, DrainEmpty, GetFails,
                    HandlerReturns, pool, lists, loop
<1>6. ASSUME NEW c \in Conn, AcceptNoFiles(c) PROVE MutexIsKept'
  <2>1. c \in ls /\ pc # "close" /\ UNCHANGED <<mode, pc>>
    BY <1>2, <1>6 DEF AcceptNoFiles, Handling
  <2>2. mutex = 1
    BY <2>1 DEF TypeOK
  <2> QED
    BY <1>1, <1>6, <2>1, <2>2 DEF AcceptNoFiles
<1>7. ASSUME NEW c \in Conn, NEW r \in 0..1, ReusableConnection(c, r)
      PROVE  MutexIsKept'
  BY <1>1, <1>7 DEF ReusableConnection, lists, loop
<1>8. ASSUME NEW e \in Events, \/ AddEvent(e) \/ DelEvent(e) \/ AddTimer(e)
                               \/ DelTimer(e) \/ PostEvent(e)
      PROVE  MutexIsKept'
  <2>1. /\ UNCHANGED <<mode, pc>> /\ e[1] \notin ls
        /\ tree' \subseteq tree \cup {e}
    BY <1>8 DEF AddEvent, DelEvent, AddTimer, DelTimer, PostEvent, Requests,
                lists, loop
  <2> QED
    BY <2>1 DEF mode
<1>9. CASE TrylockAcceptMutex \/ EpollWait \/ ScanEnds \/ ScanStale
           \/ ScanRead \/ ScanWrite \/ AcceptsEnd \/ ExpireEnds \/ PostedEnds
           \/ CloseIdleEnds \/ Exit
  <2>1. UNCHANGED <<mode, tree>> /\ pc # "close"
    BY <1>9 DEF TrylockAcceptMutex, EpollWait, ScanEnds, ScanStale, ScanRead,
                ScanWrite, AcceptsEnd, ExpireEnds, PostedEnds, CloseIdleEnds,
                Exit, At, idle, lists
  <2> QED
    BY <1>1, <2>1
<1>10. ASSUME NEW e \in Events,
              ProcessAccept(e) \/ ExpireTimer(e) \/ ProcessPosted(e)
       PROVE  MutexIsKept'
  BY <1>1, <1>10 DEF ProcessAccept, ExpireTimer, ProcessPosted, idle
<1>11. CASE Quit
  BY <1>11 DEF Quit, Goto, pool, lists
<1>12. CASE CloseListeningEnds
  BY <1>12 DEF CloseListeningEnds, idle, lists, mode
<1>13. ASSUME NEW c \in Conn, CloseListening(c) PROVE MutexIsKept'
  BY <1>13 DEF CloseListening, At, lists, loop
<1> QED
  BY <1>3, <1>4, <1>5, <1>6, <1>7, <1>8, <1>9, <1>10, <1>11, <1>12, <1>13
  DEF Next, Handler, Loop, Cycle

\* With accept_mutex on, no structure is ever cleared in a list.
THEOREM DefinedWithMutex == Spec /\ mutex = 1 => []NothingUndefined
<1> DEFINE Inv == NothingUndefined /\ TreeIsOpen /\ MutexIsKept
<1>1. Init /\ mutex = 1 => Inv
  BY DEF Init, NothingUndefined, TreeIsOpen, MutexIsKept
<1>2. IInv /\ Inv /\ [Next]_vars => Inv'
  <2> SUFFICES ASSUME IInv, Inv, [Next]_vars PROVE Inv'
    OBVIOUS
  <2>1. CASE Next
    <3>1. NobodyIsPaused
      BY DEF MutexIsKept, NobodyIsPaused
    <3> QED
      BY <2>1, <3>1, DefinedNext, MutexIsKeptNext
  <2>2. CASE UNCHANGED vars
    BY <2>2 DEF vars, pool, lists, mode, loop, NothingUndefined, TreeIsOpen,
                MutexIsKept
  <2> QED
    BY <2>1, <2>2
<1>3. Inv => NothingUndefined
  OBVIOUS
<1> QED
  BY <1>1, <1>2, <1>3, Inductive, PTL DEF Spec
=============================================================================
