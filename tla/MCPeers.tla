------------------------------ MODULE MCPeers ------------------------------
(***************************************************************************)
(* Small instances of Peers: two servers and a backup server, a single     *)
(* server with a limit, a list with a server that is down and one try, and *)
(* a backup server that is down.                                           *)
(***************************************************************************)
EXTENDS Peers

Two == [primary |-> 2, backup |-> 1, weight |-> <<3, 1, 1>>,
        max_fails |-> <<1, 0, 1>>, max_conns |-> <<0, 1, 1>>,
        down |-> {}, limit |-> 0]
One == [primary |-> 1, backup |-> 0, weight |-> <<1, 1, 1>>,
        max_fails |-> <<1, 1, 1>>, max_conns |-> <<1, 0, 0>>,
        down |-> {}, limit |-> 0]
Three == [primary |-> 2, backup |-> 0, weight |-> <<2, 1, 1>>,
          max_fails |-> <<1, 1, 1>>, max_conns |-> <<0, 0, 0>>,
          down |-> {2}, limit |-> 1]

Down == [primary |-> 1, backup |-> 1, weight |-> <<1, 1, 1>>,
         max_fails |-> <<1, 1, 1>>, max_conns |-> <<0, 0, 0>>,
         down |-> {2}, limit |-> 0]

MCUpstreams == {Two, One, Three, Down}
MCPeer == 1..3
=============================================================================
