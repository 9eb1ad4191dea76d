------------------------------ MODULE MCAccess -----------------------------
(* Model checking the start and the guards: see Access.cfg, ConfigZero.cfg. *)
EXTENDS Access

CONSTANTS u1, p1, p2, t1, h2

\* The keys a test case does not set.
Keys == [interval |-> Unset, user |-> Unset, password |-> Unset,
         token |-> Unset, allowed |-> Unset, mem_cap |-> Unset, host |-> <<>>]
Unix(n) == [name |-> n, docker |-> "unix", dockdoe |-> Unset, token |-> Unset,
            node_host |-> Unset, interval |-> Unset]
Node(n) == [Unix(n) EXCEPT !.docker = Unset, !.dockdoe = "http", !.token = t1]

MCFlags ==
    {[interval |-> i, user |-> u, password |-> p, token |-> Unset, allowed |-> {},
      mem_cap |-> 4] :
        <<i, u, p>> \in {<<3, Unset, Unset>>, <<3, Unset, p1>>, <<0, u1, p1>>}}

\* Hosts the validation refuses.
Refused ==
    {[Unix("local") EXCEPT !.interval = 0],
     [Unix("local") EXCEPT !.token = t1],
     [Node(h2) EXCEPT !.docker = "tcp"]}

\* Served: without a login, with a zero interval, behind a login over two
\* hosts, and with a token.
\* Refused: half a pair unless the flags hold the other half, a blank token,
\* a memory cap below the floor, a name twice, and the hosts above.
MCFiles ==
    {Keys,
     [Keys EXCEPT !.interval = 0],
     [Keys EXCEPT !.user = u1],
     [Keys EXCEPT !.user = u1, !.password = p2, !.allowed = {"lan"},
                  !.host = <<Unix("local"), Node(h2)>>],
     [Keys EXCEPT !.token = t1, !.host = <<Node(h2)>>],
     [Keys EXCEPT !.token = Blank],
     [Keys EXCEPT !.mem_cap = 1],
     [Keys EXCEPT !.host = <<Node(h2), Node(h2)>>]}
    \union {[Keys EXCEPT !.host = <<h>>] : h \in Refused}

MCPairs == {<<u1, p1>>, <<u1, p2>>}
=============================================================================
