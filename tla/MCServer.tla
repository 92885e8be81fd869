------------------------------ MODULE MCServer ------------------------------
(***************************************************************************)
(* Three contacts, two of them in the same cell and one at an address that  *)
(* does not validate, one infohash in the cell of the first, and one or two *)
(* messages of each kind.                                                   *)
(***************************************************************************)
EXTENDS Server

Contact(c, s, i, p) == [nid |-> [cell |-> c, body |-> s, checksum |-> s], ip |-> i, port |-> p]

p1 == Contact(0, 1, 1, 1)
p2 == Contact(1, 2, 2, 1)
p3 == Contact(1, 3, 3, 2)

MCPeer == {p1, p2, p3}
MCValidAddr == {<<1, 1>>, <<2, 1>>}

h1 == [cell |-> 0, body |-> 9, checksum |-> 9]

MCIh == {h1}
MCDKAD == [h \in MCIh |-> [n \in {p.nid : p \in MCPeer} |-> IF n = p1.nid THEN 3 ELSE 2]]
MCGPKEY == [k \in MCIh \X {1, 2, 3} |-> k[2]]

Rcv(method, from, nodes, values) ==
    [method |-> method, from |-> from, target |-> h1, tok |-> 0, nodes |-> nodes,
     values |-> values, badName |-> FALSE]

MCRx ==
    {Rcv("q_pg", p1, << >>, FALSE), Rcv("q_fn", p2, << >>, FALSE), Rcv("r_pg", p3, << >>, FALSE),
     Rcv("q_gp", p1, << >>, FALSE), Rcv("q_gp", p2, << >>, FALSE),
     Rcv("q_ap", p1, << >>, FALSE), [Rcv("q_ap", p1, << >>, FALSE) EXCEPT !.badName = TRUE],
     Rcv("r_fn", p1, <<p1, p2>>, FALSE), Rcv("r_fn", p1, << >>, FALSE),
     Rcv("r_gp", p1, <<p3, p2>>, FALSE), Rcv("r_gp", p1, << >>, TRUE),
     Rcv("r_gp", p2, <<p1>>, TRUE)}

MCTable(max, withdraw, replenish) ==
    [max |-> max, withdraw |-> withdraw, replenish |-> replenish]
MCRX == MCTable(2, 1, 1)
MCPG == MCTable(2, 2, 1)
MCGP == MCTable(2, 2, 1)

MCTables == {EmptyTable, Inserted(EmptyTable, p1)}
MCDrops == {{}, {1, 2}}

=============================================================================
