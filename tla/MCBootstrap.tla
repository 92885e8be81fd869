---------------------------- MODULE MCBootstrap ----------------------------
(***************************************************************************)
(* The spam tables in small: the rx bucket holds three datagrams, a ping    *)
(* costs a whole bucket and an epoch gives a third of it back.              *)
(***************************************************************************)
EXTENDS Bootstrap

MCContact(c, i) == [nid |-> [cell |-> c, body |-> 1, checksum |-> 1], ip |-> i, port |-> 1]

MCPeerNode == MCContact(1, 1)
MCBootstrapNode == MCContact(0, 2)
MCValidAddr == {<<1, 1>>, <<2, 1>>}

MCRX == [max |-> 3, withdraw |-> 1, replenish |-> 1]
MCPG == [max |-> 3, withdraw |-> 3, replenish |-> 1]

=============================================================================
