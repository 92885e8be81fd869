---------------------------- MODULE RoutingTable ----------------------------
(***************************************************************************)
(* The routing table as a state machine: inserts, deletes and lookups, and  *)
(* the death of the process, which may fall into the stores of set_cell.    *)
(* The table is a MAP_SHARED mapping of ./data/rt.dat, so what was stored   *)
(* before the death is what load_rt finds.                                  *)
(*                                                                          *)
(* Of an id set_cell stores 18 bytes by one assignment of a struct, which   *)
(* the machine does in pieces: bodies and checksums are strings of bytes    *)
(* here, and a death may leave any of them unstored.  Port and ip are an    *)
(* integer each and stored at once.                                         *)
(***************************************************************************)
EXTENDS RT

CONSTANTS Announced,    \* the contacts that callers may insert
          Byte,
          BODY_LEN,     \* 14 bytes in the middle of a node id
          SUM_LEN,      \* and four at its end
          Ip, Port,
          MaxCrashes    \* bound on the deaths of a behaviour

BodyBytes == 1..BODY_LEN
SumBytes == 1..SUM_LEN
Body == [BodyBytes -> Byte]
Checksum == [SumBytes -> Byte]

Nid == [cell : Cells, body : Body, checksum : Checksum]
Contact == [nid : Nid, ip : Ip, port : Port]

ASSUME ContactAssumption ==
    /\ Announced \subseteq Contact
    /\ BODY_LEN \in Nat /\ SUM_LEN \in Nat
    /\ NoBody = [i \in BodyBytes |-> 0] /\ NoChecksum = [i \in SumBytes |-> 0]
    /\ 0 \in Byte /\ 0 \in Ip /\ 0 \in Port
    /\ MaxCrashes \in Nat

VARIABLES rt,       \* the mapped file
          running,  \* is the process alive?
          out,      \* the contact that the last lookup handed out
          heard,    \* history: the contacts that insert_contact was called with
          crashes,  \* history: deaths inside set_cell
          cut,      \* history: the cells with such a death in their last store
          doubtful  \* history: out came from a cell that was cut then

vars == <<rt, running, out, heard, crashes, cut, doubtful>>

Init ==
    /\ rt = EmptyTable
    /\ running = TRUE
    /\ out = NoContact
    /\ heard = {}
    /\ crashes = 0
    /\ cut = {}
    /\ doubtful = FALSE

InsertContact(contact) ==
    /\ running
    /\ rt' = Inserted(rt, contact)
    /\ heard' = heard \cup {contact}
    /\ cut' = cut \ {contact.nid.cell}
    /\ UNCHANGED <<running, out, crashes, doubtful>>

DeleteNode(nid) ==
    /\ running
    /\ rt' = Deleted(rt, nid)
    /\ UNCHANGED <<running, out, heard, crashes, cut, doubtful>>

\* A lookup hands out a contact.
HandOut(contact) ==
    /\ running
    /\ out' = contact
    /\ doubtful' = (contact.nid.cell \in cut)
    /\ UNCHANGED <<rt, running, heard, crashes, cut>>

GetNeighborContact(target, start) == HandOut(neighbor_contact(rt, target, start))

GetRandomValidNode(start) == HandOut(random_valid_node(rt, start))

\* Bytes of which those at the given places were overwritten.
Spliced(old, new, places) == [i \in DOMAIN new |-> IF i \in places THEN new[i] ELSE old[i]]

\* A cell after the stores of set_cell to some bytes of body and checksum and
\* to some of ip and port.
StoredInPart(cell, contact, body, sum, words) ==
    [body     |-> Spliced(cell.body, contact.nid.body, body),
     checksum |-> Spliced(cell.checksum, contact.nid.checksum, sum),
     ip       |-> IF "ip" \in words THEN contact.ip ELSE cell.ip,
     port     |-> IF "port" \in words THEN contact.port ELSE cell.port]

\* The process dies inside insert_contact.  The compiler may order the stores
\* of set_cell as it likes and split the copy of the id where it likes, so any
\* of the bytes may have arrived.
CrashInSetCell(contact, body, sum, words) ==
    /\ running
    /\ crashes < MaxCrashes
    /\ rt' = [rt EXCEPT ![contact.nid.cell] = StoredInPart(@, contact, body, sum, words)]
    /\ heard' = heard \cup {contact}
    /\ crashes' = crashes + 1
    /\ cut' = cut \cup {contact.nid.cell}
    /\ running' = FALSE
    /\ out' = NoContact
    /\ doubtful' = FALSE

\* load_rt on a file of the right size maps it as it is.
Restart ==
    /\ ~ running
    /\ running' = TRUE
    /\ UNCHANGED <<rt, out, heard, crashes, cut, doubtful>>

Next ==
    \/ \E contact \in Announced :
          \/ InsertContact(contact)
          \/ DeleteNode(contact.nid)
          \/ \E start \in Starts : GetNeighborContact(contact.nid, start)
          \/ \E body \in SUBSET BodyBytes, sum \in SUBSET SumBytes, words \in SUBSET {"ip", "port"} :
                CrashInSetCell(contact, body, sum, words)
    \/ \E start \in Starts : GetRandomValidNode(start)
    \/ Restart

Spec == Init /\ [][Next]_vars

-----------------------------------------------------------------------------
\* Types.
TypeOK ==
    /\ rt \in [Cells -> [body : Body, checksum : Checksum, ip : Ip, port : Port]]
    /\ running \in BOOLEAN
    /\ out \in Contact
    /\ heard \subseteq Announced
    /\ crashes \in 0..MaxCrashes
    /\ cut \subseteq Cells
    /\ doubtful \in BOOLEAN

\* Every byte of the id of contact p, its ip and its port are zero or those of
\* a known contact of the same cell.
MadeFrom(p, known) ==
    LET ours == {h \in known : h.nid.cell = p.nid.cell}
    IN  /\ \A i \in BodyBytes : p.nid.body[i] \in {0} \cup {h.nid.body[i] : h \in ours}
        /\ \A i \in SumBytes : p.nid.checksum[i] \in {0} \cup {h.nid.checksum[i] : h \in ours}
        /\ p.ip \in {0} \cup {h.ip : h \in ours}
        /\ p.port \in {0} \cup {h.port : h \in ours}

\* What a lookup hands out was announced, id and address together, although
\* the cell keeps only a part of the id and other contacts were inserted,
\* deleted and torn around it.  The exception is a cell of which a death cut
\* short the last store: what comes from there may be nobody's id with
\* nobody's address, but it is put together from contacts announced for that
\* same cell.
Origin ==
    out # NoContact =>
        /\ ~ doubtful => out \in heard
        /\ doubtful => MadeFrom(out, heard)

\* The cells that pair an id with an address it was not announced with.
Torn == {c \in Cells : ~ is_empty(rt[c]) /\ ContactAt(rt, c) \notin heard}

\* A death inside set_cell can leave a contact that nobody announced, but
\* each death at most one, and restarts, inserts and deletes add none.
TornBound == Cardinality(Torn) <= crashes

\* A scan that starts above zero and leaves a whole table's length before
\* RT_SIZE finds a node exactly when there is one.
ScanComplete ==
    \A start \in 1..(RT_SIZE - NCells) :
        random_valid_node(rt, start) = NoContact <=> \A c \in Cells : is_empty(rt[c])

=============================================================================
