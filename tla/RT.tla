--------------------------------- MODULE RT ---------------------------------
(***************************************************************************)
(* The class RT of cht/rt.cpp as operators on a table: one cell for each    *)
(* value of the first two bytes of a node id, holding the other bytes and   *)
(* the contact's address.  The table is the memory map of a file, so its    *)
(* first content is zero bytes, which read as empty cells.                  *)
(*                                                                          *)
(* A node id is [cell, body, checksum]: its first two bytes, its last four  *)
(* and those between.  A contact is [nid, ip, port].  The quality arguments *)
(* are unused by the source and adj_quality changes nothing: both are left  *)
(* out.                                                                     *)
(***************************************************************************)
EXTENDS Integers, FiniteSetsExt

CONSTANTS NCells,       \* 256 * 256 cells
          CELL_BYTES,   \* sizeof(Nodeinfo)
          NoBody,       \* zero bytes in the middle of an id
          NoChecksum,   \* zero bytes at its end
          ValidAddr     \* the <<ip, port>> pairs that validate_addr accepts

ASSUME RTAssumption ==
    /\ NCells \in Nat \ {0}
    /\ CELL_BYTES \in Nat \ {0}

Cells == 0..(NCells - 1)

\* RT_SIZE is the size of the table in bytes.
RT_SIZE == CELL_BYTES * NCells

ZeroCell == [body |-> NoBody, checksum |-> NoChecksum, ip |-> 0, port |-> 0]

\* load_rt on a file that is not there: open creates it, ftruncate fills it.
EmptyTable == [c \in Cells |-> ZeroCell]

\* What return {{0}} hands out.
NoContact ==
    [nid |-> [cell |-> 0, body |-> NoBody, checksum |-> NoChecksum], ip |-> 0, port |-> 0]

validate_addr(ip, port) == <<ip, port>> \in ValidAddr

is_empty(cell) == cell.checksum = NoChecksum

\* The contact whose nid has the bytes of cell c in front of the stored ones.
ContactAt(rt, c) ==
    [nid  |-> [cell |-> c, body |-> rt[c].body, checksum |-> rt[c].checksum],
     ip   |-> rt[c].ip,
     port |-> rt[c].port]

\* What set_cell stores, once it completes.
CellOf(contact) ==
    [body |-> contact.nid.body, checksum |-> contact.nid.checksum,
     ip |-> contact.ip, port |-> contact.port]

\* Mutation: insert_contact forgets the port.
InsertedNoPort(rt, contact) ==
    [rt EXCEPT ![contact.nid.cell] = [CellOf(contact) EXCEPT !.port = rt[contact.nid.cell].port]]

\* insert_contact: an address that does not validate is only counted.
Inserted(rt, contact) == [rt EXCEPT ![contact.nid.cell] = CellOf(contact)]

\* delete_node: only when the cell still holds the node.
Deleted(rt, nid) ==
    IF rt[nid.cell].checksum = nid.checksum
    THEN [rt EXCEPT ![nid.cell].checksum = NoChecksum]
    ELSE rt

\* What randint(0, RT_SIZE) may return.
Starts == 0..(RT_SIZE - 1)

\* Mutation: the node id is given the byte count instead of the cell.
random_valid_node_wide(rt, start) ==
    LET hits == {ix \in start..(RT_SIZE - 1) : start > 0 /\ ~ is_empty(rt[ix % NCells])}
    IN  IF hits = {} THEN NoContact
        ELSE [ContactAt(rt, Min(hits) % NCells) EXCEPT !.nid.cell = Min(hits)]

\* Mutation: the scan of a non-zero start stops at the last cell's index.
random_valid_node_short(rt, start) ==
    LET hits == {ix \in start..(NCells - 1) : start > 0 /\ ~ is_empty(rt[ix % NCells])}
    IN  IF hits = {} THEN NoContact ELSE ContactAt(rt, Min(hits) % NCells)

\* get_random_valid_node after it has drawn start.  The outer loop runs once
\* when start > 0 and never when start = 0; ix counts bytes and its two low
\* bytes name the cell.
random_valid_node(rt, start) ==
    LET hits == {ix \in start..(RT_SIZE - 1) : start > 0 /\ ~ is_empty(rt[ix % NCells])}
    IN  IF hits = {} THEN NoContact ELSE ContactAt(rt, Min(hits) % NCells)

\* Mutation: the node id is not given the target's first bytes.
neighbor_contact_misplaced(rt, target, start) ==
    IF is_empty(rt[target.cell])
    THEN random_valid_node(rt, start)
    ELSE [ContactAt(rt, target.cell) EXCEPT !.nid.cell = 0]

\* get_neighbor_contact, with the start its random lookup would draw.
neighbor_contact(rt, target, start) ==
    IF is_empty(rt[target.cell])
    THEN random_valid_node(rt, start)
    ELSE ContactAt(rt, target.cell)

=============================================================================
