--------------------------- MODULE MCRoutingTable ---------------------------
(***************************************************************************)
(* Two cells of three bytes; an id has one byte between its cell and the    *)
(* two of its checksum.  Three ids compete for cell 0, one of them with a   *)
(* zero checksum, and one sits in cell 1 behind an address that             *)
(* validate_addr refuses.  Two checksums differ in both bytes, so that a    *)
(* death in the middle leaves one that nobody has.                          *)
(***************************************************************************)
EXTENDS RoutingTable

MCContact(c, b, s, i, p) ==
    [nid |-> [cell |-> c, body |-> <<b>>, checksum |-> s], ip |-> i, port |-> p]

MCAnnounced ==
    {MCContact(0, 1, <<1, 1>>, 1, 1), MCContact(0, 2, <<2, 0>>, 2, 1),
     MCContact(0, 2, <<0, 0>>, 2, 1), MCContact(1, 1, <<1, 1>>, 2, 2)}

MCNoBody == <<0>>
MCNoChecksum == <<0, 0>>

MCValidAddr == {<<1, 1>>, <<2, 1>>}

=============================================================================
