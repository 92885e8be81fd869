------------------------------- MODULE MCWire -------------------------------
(***************************************************************************)
(* What anybody's datagrams are made of: every known key, unknown keys of   *)
(* one byte and of a length that no known key has, the queries, and values  *)
(* of good and of bad lengths: 20 bytes, three nodes, of which one is kept, *)
(* and 6 bytes as the keys values and target have them.                     *)
(***************************************************************************)
EXTENDS Wire

MCStr ==
    {S("a", 1), S("r", 1), S("t", 1), S("q", 1), S("y", 1), S("v", 1),
     S("id", 2), S("name", 4), S("port", 4), S("nodes", 5), S("token", 5), S("values", 6),
     S("target", 6), S("info_hash", 9), S("implied_port", 12), S("other", 3),
     S("ping", 4), S("get_peers", 9), S("find_node", 9), S("announce_peer", 13),
     S("hash", 20), S("nodes3", 78),
     S("gp", 3), S("fn", 1), S("pg", 1), S("ours", 2)}

=============================================================================
