----------------------------- MODULE MCGetPeers -----------------------------
(***************************************************************************)
(* Two tokens, two nodes with different checksums, two infohashes, replies  *)
(* with up to two next hops and hops up to GP_MAX_HOPS + 1 = 2.             *)
(***************************************************************************)
EXTENDS GetPeers

CONSTANTS n1, n2

MCChecksum == (n1 :> 1) @@ (n2 :> 2)

=============================================================================
