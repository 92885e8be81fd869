------------------------- MODULE RoutingTableProofs -------------------------
(***************************************************************************)
(* The invariants of RoutingTable, for every number of cells, every size of *)
(* a cell and of the parts of an id, every set of contacts and any number   *)
(* of crashes.                                                              *)
(*                                                                          *)
(* Origin is about what a lookup handed out, perhaps many steps ago; what   *)
(* carries it is the same statement about the cells of the table, which     *)
(* inserts, deletes and stores cut short keep.                              *)
(***************************************************************************)
EXTENDS RoutingTable, FiniteSetTheorems, WellFoundedInduction, TLAPS

Info == [body : Body, checksum : Checksum, ip : Ip, port : Port]

\* Every cell whose last store completed is empty or holds a contact that was
\* announced.
CellsHeard ==
    \A c \in Cells \ cut : ~ is_empty(rt[c]) => ContactAt(rt, c) \in heard

\* Every cell is made of bytes of contacts announced for it, or of zeros.
CellsMade == \A c \in Cells : MadeFrom(ContactAt(rt, c), heard)

CutBound == Cardinality(cut) <= crashes

\* The inductive invariant.
IInv == TypeOK /\ CellsHeard /\ CellsMade /\ CutBound /\ Origin

-----------------------------------------------------------------------------
(* The scan of get_random_valid_node.                                      *)

\* The least element of a non-empty set of naturals.
LEMMA MinIsLeast ==
    ASSUME NEW S, S \subseteq Nat, S # {}
    PROVE  Min(S) \in S /\ \A y \in S : Min(S) <= y
<1> DEFINE R == OpToRel(<, Nat)
<1>1. IsWellFoundedOn(R, Nat) /\ \A x, y \in Nat : y < x => <<y, x>> \in R
  BY NatLessThanWellFounded, Zenon DEF OpToRel
<1> HIDE DEF R
<1>2. PICK x \in S : \A y \in S : ~ (<<y, x>> \in R)
  BY <1>1, WFMin
<1>3. \A y \in S : ~ (y < x)
  BY <1>1, <1>2, Zenon
<1>4. \A y \in S : x <= y
  BY <1>3
<1>5. QED
  BY <1>4 DEF Min

\* A multiple of n that is nearer to zero than n is zero.
LEMMA SmallMultiple ==
    ASSUME NEW k \in Int, NEW n \in Nat \ {0}, k * n < n, - n < k * n
    PROVE  k = 0
<1>1. CASE k >= 1
  <2>1. k * n >= n
    BY <1>1
  <2>2. QED
    BY <2>1
<1>2. CASE k <= -1
  <2>1. k * n <= - n
    BY <1>2
  <2>2. QED
    BY <2>1
<1>3. QED
  BY <1>1, <1>2

\* The remainder of c more than a multiple of n.
LEMMA ModOf ==
    ASSUME NEW q \in Int, NEW n \in Nat \ {0}, NEW c \in 0..(n - 1)
    PROVE  (q * n + c) % n = c
<1> DEFINE x == q * n + c
           d == x \div n
           m == x % n
<1>1. x \in Int /\ q * n \in Int
  OBVIOUS
<1> HIDE DEF x
<1>2. d \in Int /\ m \in 0..(n - 1) /\ x = n * d + m
  BY <1>1
<1> HIDE DEF d, m
<1>3. (q - d) * n = m - c
  <2>1. (q - d) * n = q * n - n * d
    BY <1>2
  <2>2. n * d \in Int
    BY <1>2
  <2>3. QED
    BY <1>1, <1>2, <2>1, <2>2 DEF x
<1>4. q - d = 0
  <2>1. q - d \in Int
    BY <1>2
  <2>2. m - c < n /\ - n < m - c
    BY <1>2
  <2>3. QED
    BY <1>3, <2>1, <2>2, SmallMultiple
<1>5. (q - d) * n = 0
  BY <1>4
<1>6. QED
  BY <1>2, <1>3, <1>5 DEF m, x

LEMMA CellsFacts == Cells \subseteq Nat /\ 0 \in Cells /\ IsFiniteSet(Cells)
<1>1. IsFiniteSet(Cells)
  BY RTAssumption, FS_Interval DEF Cells
<1>2. QED
  BY <1>1, RTAssumption DEF Cells

LEMMA ModIsCell == ASSUME NEW ix \in Nat PROVE ix % NCells \in Cells
  BY RTAssumption DEF Cells

LEMMA SizeFacts == RT_SIZE \in Nat /\ RT_SIZE >= NCells
  BY RTAssumption DEF RT_SIZE

\* A scan hands out nothing, or the content of a cell that is not empty.
LEMMA ScanFacts ==
    ASSUME NEW table, NEW start \in Nat
    PROVE  \/ random_valid_node(table, start) = NoContact
           \/ \E c \in Cells : /\ ~ is_empty(table[c])
                              /\ random_valid_node(table, start) = ContactAt(table, c)
<1> DEFINE hits == {ix \in start..(RT_SIZE - 1) : start > 0 /\ ~ is_empty(table[ix % NCells])}
<1>1. random_valid_node(table, start) =
          IF hits = {} THEN NoContact ELSE ContactAt(table, Min(hits) % NCells)
  BY DEF random_valid_node
<1>2. CASE hits # {}
  <2>1. hits \subseteq Nat
    BY SizeFacts
  <2>2. Min(hits) \in hits
    <3> HIDE DEF hits
    <3> QED
      BY <1>2, <2>1, MinIsLeast
  <2>3. Min(hits) % NCells \in Cells /\ ~ is_empty(table[Min(hits) % NCells])
    <3>1. \A ix \in hits : ix \in Nat /\ ~ is_empty(table[ix % NCells])
      BY <2>1
    <3> HIDE DEF hits
    <3> QED
      BY <2>2, <3>1, ModIsCell
  <2>4. random_valid_node(table, start) = ContactAt(table, Min(hits) % NCells)
    <3> HIDE DEF hits
    <3> QED
      BY <1>1, <1>2
  <2> HIDE DEF hits
  <2>5. QED
    BY <2>3, <2>4
<1>3. QED
  BY <1>1, <1>2

\* From start on, a table's length of bytes passes every cell.
LEMMA ScanPasses ==
    ASSUME NEW start \in 1..(RT_SIZE - NCells), NEW c \in Cells
    PROVE  \E ix \in start..(RT_SIZE - 1) : ix % NCells = c
<1> DEFINE q == start \div NCells
           r == start % NCells
<1>1. /\ NCells \in Nat \ {0} /\ RT_SIZE \in Nat
      /\ start \in Nat /\ start <= RT_SIZE - NCells
      /\ c \in 0..(NCells - 1)
  BY RTAssumption, SizeFacts DEF Cells
<1>2. q \in Int /\ r \in 0..(NCells - 1) /\ start = NCells * q + r
  BY <1>1
<1> HIDE DEF q, r
<1>3. q * NCells = NCells * q /\ NCells * q \in Int /\ (q + 1) * NCells = NCells * q + NCells
  BY <1>1, <1>2
<1>4. CASE c >= r
  <2>1. (q * NCells + c) % NCells = c
    BY <1>1, <1>2, ModOf
  <2>2. q * NCells + c \in start..(RT_SIZE - 1)
    BY <1>1, <1>2, <1>3, <1>4
  <2>3. QED
    BY <2>1, <2>2
<1>5. CASE c < r
  <2>1. ((q + 1) * NCells + c) % NCells = c
    <3>1. q + 1 \in Int
      BY <1>2
    <3>2. QED
      BY <1>1, <3>1, ModOf
  <2>2. (q + 1) * NCells + c \in start..(RT_SIZE - 1)
    BY <1>1, <1>2, <1>3, <1>5
  <2>3. QED
    BY <2>1, <2>2
<1>6. QED
  BY <1>1, <1>2, <1>4, <1>5

LEMMA TypesScanComplete == TypeOK => ScanComplete
<1> SUFFICES ASSUME TypeOK, NEW start \in 1..(RT_SIZE - NCells)
             PROVE  random_valid_node(rt, start) = NoContact <=> \A c \in Cells : is_empty(rt[c])
  BY DEF ScanComplete
<1> DEFINE hits == {ix \in start..(RT_SIZE - 1) : start > 0 /\ ~ is_empty(rt[ix % NCells])}
<1>1. random_valid_node(rt, start) =
          IF hits = {} THEN NoContact ELSE ContactAt(rt, Min(hits) % NCells)
  BY DEF random_valid_node
<1>2. start \in Nat /\ start > 0
  BY SizeFacts, RTAssumption
<1>3. ASSUME NEW c \in Cells, ~ is_empty(rt[c]) PROVE random_valid_node(rt, start) # NoContact
  <2>1. PICK ix \in start..(RT_SIZE - 1) : ix % NCells = c
    BY ScanPasses
  <2>2. ix \in hits
    BY <1>2, <1>3, <2>1
  <2>3. hits \subseteq Nat /\ hits # {}
    BY <1>2, <2>2, SizeFacts
  <2>4. \A x \in hits : x % NCells \in Cells /\ ~ is_empty(rt[x % NCells])
    BY <2>3, ModIsCell
  <2> HIDE DEF hits
  <2>5. Min(hits) \in hits
    BY <2>3, MinIsLeast
  <2>6. random_valid_node(rt, start) = ContactAt(rt, Min(hits) % NCells)
    BY <1>1, <2>3
  <2>7. ContactAt(rt, Min(hits) % NCells) # NoContact
    BY <2>4, <2>5 DEF ContactAt, NoContact, is_empty
  <2>8. QED
    BY <2>6, <2>7
<1>4. ASSUME \A c \in Cells : is_empty(rt[c]) PROVE random_valid_node(rt, start) = NoContact
  <2>1. hits = {}
    BY <1>2, <1>4, ModIsCell, SizeFacts
  <2> HIDE DEF hits
  <2>2. QED
    BY <1>1, <2>1
<1>5. QED
  BY <1>3, <1>4

-----------------------------------------------------------------------------
(* What cells are made of.                                                 *)

LEMMA MadeMono ==
    ASSUME NEW p, NEW known, NEW more, known \subseteq more, MadeFrom(p, known)
    PROVE  MadeFrom(p, more)
  BY DEF MadeFrom

LEMMA MadeSelf ==
    ASSUME NEW p, NEW known, p \in known
    PROVE  MadeFrom(p, known)
  BY DEF MadeFrom

\* A contact is put together from the content of a cell.
LEMMA ContactAtType ==
    ASSUME rt \in [Cells -> Info], NEW c \in Cells
    PROVE  ContactAt(rt, c) \in Contact
  BY DEF Info, Contact, Nid, ContactAt

LEMMA NoBytes == NoBody \in Body /\ NoChecksum \in Checksum
  BY ContactAssumption DEF Body, Checksum

LEMMA NoContactType == NoContact \in Contact
  BY CellsFacts, ContactAssumption, NoBytes DEF NoContact, Contact, Nid

\* insert_contact makes the cell hold the contact.
LEMMA InsertedFacts ==
    ASSUME rt \in [Cells -> Info], NEW contact \in Contact,
           NEW table, table = Inserted(rt, contact)
    PROVE  /\ table \in [Cells -> Info]
           /\ \A c \in Cells : c # contact.nid.cell => table[c] = rt[c]
           /\ contact.nid.cell \in Cells
           /\ ContactAt(table, contact.nid.cell) = contact
<1> DEFINE k == contact.nid.cell
           new == CellOf(contact)
<1>1. /\ k \in Cells /\ new \in Info
      /\ contact = [nid |-> [cell |-> k, body |-> contact.nid.body,
                             checksum |-> contact.nid.checksum],
                    ip |-> contact.ip, port |-> contact.port]
  BY DEF Contact, Nid, Info, CellOf
<1>2. /\ new.body = contact.nid.body /\ new.checksum = contact.nid.checksum
      /\ new.ip = contact.ip /\ new.port = contact.port
  BY DEF CellOf
<1>3. table = [rt EXCEPT ![k] = new]
  BY DEF Inserted
<1> HIDE DEF k, new
<1>4. table \in [Cells -> Info] /\ table[k] = new /\ \A c \in Cells : c # k => table[c] = rt[c]
  BY <1>1, <1>3
<1>5. ContactAt(table, k) = contact
  BY <1>1, <1>2, <1>4 DEF ContactAt
<1>6. QED
  BY <1>1, <1>4, <1>5 DEF k

\* A delete empties the cell, or changes nothing; what the cell is made of is
\* a known contact's or zero as before.
LEMMA DeletedFacts ==
    ASSUME rt \in [Cells -> Info], NEW nid \in Nid, NEW table, table = Deleted(rt, nid)
    PROVE  /\ table \in [Cells -> Info]
           /\ \A c \in Cells : table[c] = rt[c] \/ is_empty(table[c])
           /\ \A c \in Cells : \A known :
                 MadeFrom(ContactAt(rt, c), known) => MadeFrom(ContactAt(table, c), known)
<1>1. nid.cell \in Cells /\ rt[nid.cell] \in Info
  BY DEF Nid
<1>2. CASE rt[nid.cell].checksum = nid.checksum
  <2> DEFINE new == [rt[nid.cell] EXCEPT !.checksum = NoChecksum]
  <2>1. table = [rt EXCEPT ![nid.cell] = new]
    BY <1>2 DEF Deleted
  <2>2. /\ new \in Info /\ new.checksum = NoChecksum /\ new.body = rt[nid.cell].body
        /\ new.ip = rt[nid.cell].ip /\ new.port = rt[nid.cell].port
    BY <1>1, NoBytes DEF Info
  <2> HIDE DEF new
  <2>3. table \in [Cells -> Info] /\ \A c \in Cells : c # nid.cell => table[c] = rt[c]
    BY <1>1, <2>1, <2>2
  <2>4. table[nid.cell] = new
    BY <1>1, <2>1
  <2>5. \A i \in SumBytes : NoChecksum[i] = 0
    BY ContactAssumption
  <2>6. ASSUME NEW c \in Cells, NEW known, MadeFrom(ContactAt(rt, c), known)
        PROVE  MadeFrom(ContactAt(table, c), known)
    <3>1. CASE c # nid.cell
      BY <2>3, <2>6, <3>1 DEF ContactAt
    <3>2. CASE c = nid.cell
      <4>1. PICK p : p = ContactAt(rt, c)
        OBVIOUS
      <4>2. PICK q : q = ContactAt(table, c)
        OBVIOUS
      <4>3. /\ q.nid.cell = p.nid.cell /\ q.nid.body = p.nid.body
            /\ q.nid.checksum = NoChecksum /\ q.ip = p.ip /\ q.port = p.port
        BY <2>2, <2>4, <3>2, <4>1, <4>2 DEF ContactAt
      <4>4. MadeFrom(p, known)
        BY <2>6, <4>1
      <4>5. MadeFrom(q, known)
        BY <2>5, <4>3, <4>4 DEF MadeFrom
      <4>6. QED
        BY <4>2, <4>5
    <3>3. QED
      BY <3>1, <3>2
  <2>7. QED
    BY <2>2, <2>3, <2>4, <2>6 DEF is_empty
<1>3. CASE rt[nid.cell].checksum # nid.checksum
  BY <1>3 DEF Deleted
<1>4. QED
  BY <1>2, <1>3

-----------------------------------------------------------------------------
(* Counting.                                                               *)

\* The cells that a death may have torn are no more than the deaths.
LEMMA FewTorn == IInv => TornBound
<1> SUFFICES ASSUME IInv PROVE TornBound
  OBVIOUS
<1>1. Torn \in SUBSET cut
  BY DEF IInv, CellsHeard, Torn
<1>2. IsFiniteSet(cut)
  BY CellsFacts, FS_Subset DEF IInv, TypeOK
<1>3. Cardinality(Torn) <= Cardinality(cut) /\ IsFiniteSet(Torn)
  BY <1>1, <1>2, FS_Subset
<1>4. Cardinality(Torn) \in Nat /\ Cardinality(cut) \in Nat
  BY <1>2, <1>3, FS_CardinalityType
<1>5. QED
  BY <1>3, <1>4 DEF IInv, TypeOK, CutBound, TornBound

\* A step after which fewer cells are cut.
LEMMA FewerCut ==
    ASSUME TypeOK, CutBound, cut' \subseteq cut, crashes' = crashes
    PROVE  CutBound'
<1>1. IsFiniteSet(cut)
  BY CellsFacts, FS_Subset DEF TypeOK
<1>2. cut' \in SUBSET cut
  OBVIOUS
<1>3. Cardinality(cut') <= Cardinality(cut) /\ IsFiniteSet(cut')
  BY <1>1, <1>2, FS_Subset
<1>4. Cardinality(cut') \in Nat /\ Cardinality(cut) \in Nat
  BY <1>1, <1>3, FS_CardinalityType
<1>5. QED
  BY <1>3, <1>4 DEF CutBound, TypeOK

\* A crash, after which one more cell may be.
LEMMA OneMoreCut ==
    ASSUME TypeOK, CutBound, NEW c \in Cells, cut' = cut \cup {c}, crashes' = crashes + 1
    PROVE  CutBound'
<1>1. IsFiniteSet(cut)
  BY CellsFacts, FS_Subset DEF TypeOK
<1>2. Cardinality(cut) \in Nat
  BY <1>1, FS_CardinalityType
<1>3. IsFiniteSet(cut') /\ Cardinality(cut') <= Cardinality(cut) + 1
  BY <1>1, <1>2, FS_AddElement
<1>4. Cardinality(cut') \in Nat
  BY <1>3, FS_CardinalityType
<1>5. QED
  BY <1>2, <1>3, <1>4 DEF CutBound, TypeOK

-----------------------------------------------------------------------------
(* The actions.                                                            *)

LEMMA InitIInv == Init => IInv
<1> SUFFICES ASSUME Init PROVE IInv
  OBVIOUS
<1>1. \A c \in Cells : rt[c] = ZeroCell
  BY DEF Init, EmptyTable
<1>2. TypeOK
  <2>1. ZeroCell \in Info
    BY NoBytes, ContactAssumption DEF ZeroCell, Info
  <2>2. rt \in [Cells -> Info]
    BY <2>1 DEF Init, EmptyTable
  <2>3. out \in Contact /\ crashes \in 0..MaxCrashes /\ cut \subseteq Cells
    BY NoContactType, ContactAssumption DEF Init
  <2>4. QED
    BY <2>2, <2>3 DEF Init, TypeOK, Info
<1>3. CellsHeard /\ Origin
  BY <1>1 DEF Init, CellsHeard, Origin, ZeroCell, is_empty
<1>4. CellsMade
  <2>1. /\ \A i \in BodyBytes : NoBody[i] = 0
        /\ \A i \in SumBytes : NoChecksum[i] = 0
    BY ContactAssumption
  <2>2. ASSUME NEW c \in Cells PROVE MadeFrom(ContactAt(rt, c), heard)
    <3>1. PICK p : p = ContactAt(rt, c)
      OBVIOUS
    <3>2. p.nid.body = NoBody /\ p.nid.checksum = NoChecksum /\ p.ip = 0 /\ p.port = 0
      BY <1>1, <3>1 DEF ContactAt, ZeroCell
    <3>3. MadeFrom(p, heard)
      BY <2>1, <3>2 DEF MadeFrom
    <3>4. QED
      BY <3>1, <3>3
  <2>3. QED
    BY <2>2 DEF CellsMade
<1>5. CutBound
  BY FS_EmptySet DEF Init, CutBound
<1>6. QED
  BY <1>2, <1>3, <1>4, <1>5 DEF IInv

\* What a lookup handed out keeps its origin while more is heard.
LEMMA OriginStays ==
    ASSUME Origin, out' = out, doubtful' = doubtful, heard \subseteq heard'
    PROVE  Origin'
  BY MadeMono DEF Origin

\* insert_contact makes its cell hold what was announced.
LEMMA InsertKeeps ==
    ASSUME IInv, NEW contact \in Announced, InsertContact(contact)
    PROVE  IInv'
<1>1. PICK k : k = contact.nid.cell
  OBVIOUS
<1>2. contact \in Contact
  BY ContactAssumption
<1>3. rt \in [Cells -> Info] /\ rt' = Inserted(rt, contact)
  BY DEF IInv, TypeOK, Info, InsertContact
<1>4. /\ rt' \in [Cells -> Info]
      /\ \A c \in Cells : c # k => rt'[c] = rt[c]
      /\ k \in Cells
      /\ ContactAt(rt', k) = contact
  BY <1>1, <1>2, <1>3, InsertedFacts
<1>5. /\ heard' = heard \cup {contact} /\ cut' = cut \ {k}
      /\ out' = out /\ crashes' = crashes /\ running' = running /\ doubtful' = doubtful
  BY <1>1 DEF InsertContact
<1>6. \A c \in Cells : c # k => ContactAt(rt', c) = ContactAt(rt, c)
  BY <1>4 DEF ContactAt
<1>7. TypeOK'
  BY <1>4, <1>5 DEF IInv, TypeOK, Info
<1>8. CellsHeard'
  <2> SUFFICES ASSUME NEW c \in Cells \ cut', ~ is_empty(rt'[c])
               PROVE  ContactAt(rt', c) \in heard'
    BY DEF CellsHeard
  <2>1. CASE c = k
    BY <1>4, <1>5, <2>1
  <2>2. CASE c # k
    BY <1>4, <1>5, <1>6, <2>2 DEF IInv, CellsHeard
  <2>3. QED
    BY <2>1, <2>2
<1>9. CellsMade'
  <2> SUFFICES ASSUME NEW c \in Cells PROVE MadeFrom(ContactAt(rt', c), heard')
    BY DEF CellsMade
  <2>1. CASE c = k
    BY <1>4, <1>5, <2>1, MadeSelf
  <2>2. CASE c # k
    BY <1>5, <1>6, <2>2, MadeMono DEF IInv, CellsMade
  <2>3. QED
    BY <2>1, <2>2
<1>10. Origin'
  BY <1>5, OriginStays DEF IInv
<1>11. CutBound'
  BY <1>5, FewerCut DEF IInv
<1>12. QED
  BY <1>7, <1>8, <1>9, <1>10, <1>11 DEF IInv

LEMMA DeleteKeeps ==
    ASSUME IInv, NEW contact \in Announced, DeleteNode(contact.nid)
    PROVE  IInv'
<1>1. contact.nid \in Nid
  BY ContactAssumption DEF Contact
<1>2. rt \in [Cells -> Info] /\ rt' = Deleted(rt, contact.nid)
  BY DEF IInv, TypeOK, Info, DeleteNode
<1>3. /\ rt' \in [Cells -> Info]
      /\ \A c \in Cells : rt'[c] = rt[c] \/ is_empty(rt'[c])
      /\ \A c \in Cells : \A known :
            MadeFrom(ContactAt(rt, c), known) => MadeFrom(ContactAt(rt', c), known)
  BY <1>1, <1>2, DeletedFacts
<1>4. UNCHANGED <<running, out, heard, crashes, cut, doubtful>>
  BY DEF DeleteNode
<1>5. TypeOK'
  BY <1>3, <1>4 DEF IInv, TypeOK, Info
<1>6. CellsHeard'
  BY <1>3, <1>4 DEF IInv, CellsHeard, ContactAt
<1>7. CellsMade'
  BY <1>3, <1>4 DEF IInv, CellsMade
<1>8. Origin' /\ CutBound'
  BY <1>4, OriginStays, FewerCut DEF IInv
<1>9. QED
  BY <1>5, <1>6, <1>7, <1>8 DEF IInv

\* A lookup hands out the content of a cell that is not empty, or nothing.
LEMMA LookupKeeps ==
    ASSUME IInv, NEW found, HandOut(found),
           \/ found = NoContact
           \/ \E c \in Cells : ~ is_empty(rt[c]) /\ found = ContactAt(rt, c)
    PROVE  IInv'
<1>1. rt \in [Cells -> Info]
  BY DEF IInv, TypeOK, Info
<1>2. /\ out' = found /\ doubtful' = (found.nid.cell \in cut)
      /\ UNCHANGED <<rt, running, heard, crashes, cut>>
  BY DEF HandOut
<1>3. found \in Contact
  BY <1>1, NoContactType, ContactAtType
<1>4. TypeOK'
  BY <1>2, <1>3 DEF IInv, TypeOK
<1>5. CellsHeard' /\ CellsMade'
  BY <1>2 DEF IInv, CellsHeard, CellsMade, ContactAt
<1>6. CutBound'
  BY <1>2 DEF IInv, CutBound
<1>7. Origin'
  <2> SUFFICES ASSUME found # NoContact
               PROVE  /\ found.nid.cell \notin cut => found \in heard
                      /\ MadeFrom(found, heard)
    BY <1>2 DEF Origin
  <2>1. PICK c \in Cells : ~ is_empty(rt[c]) /\ found = ContactAt(rt, c)
    OBVIOUS
  <2>2. found.nid.cell = c
    BY <2>1 DEF ContactAt
  <2>3. QED
    BY <2>1, <2>2 DEF IInv, CellsHeard, CellsMade
<1>8. QED
  BY <1>4, <1>5, <1>6, <1>7 DEF IInv

LEMMA StartsAreNat == Starts \subseteq Nat
  BY SizeFacts DEF Starts

LEMMA NeighborKeeps ==
    ASSUME IInv, NEW contact \in Announced, NEW start \in Starts,
           GetNeighborContact(contact.nid, start)
    PROVE  IInv'
<1>1. contact.nid.cell \in Cells
  BY ContactAssumption DEF Contact, Nid
<1>2. PICK found : found = neighbor_contact(rt, contact.nid, start)
  OBVIOUS
<1>3. \/ found = NoContact
      \/ \E c \in Cells : ~ is_empty(rt[c]) /\ found = ContactAt(rt, c)
  BY <1>1, <1>2, ScanFacts, StartsAreNat DEF neighbor_contact
<1>4. HandOut(found)
  BY <1>2 DEF GetNeighborContact
<1>5. QED
  BY <1>3, <1>4, LookupKeeps

LEMMA RandomKeeps ==
    ASSUME IInv, NEW start \in Starts, GetRandomValidNode(start)
    PROVE  IInv'
<1>1. PICK found : found = random_valid_node(rt, start)
  OBVIOUS
<1>2. \/ found = NoContact
      \/ \E c \in Cells : ~ is_empty(rt[c]) /\ found = ContactAt(rt, c)
  BY <1>1, ScanFacts, StartsAreNat
<1>3. HandOut(found)
  BY <1>1 DEF GetRandomValidNode
<1>4. QED
  BY <1>2, <1>3, LookupKeeps

\* A death in set_cell leaves one cell made of what was there and of what was
\* to come, both announced for that cell.
LEMMA CrashKeeps ==
    ASSUME IInv, NEW contact \in Announced, NEW body, NEW sum, NEW words,
           CrashInSetCell(contact, body, sum, words)
    PROVE  IInv'
<1>1. PICK k : k = contact.nid.cell
  OBVIOUS
<1>2. contact \in Contact
  BY ContactAssumption
<1>3. /\ rt \in [Cells -> Info]
      /\ rt' = [rt EXCEPT ![contact.nid.cell] = StoredInPart(@, contact, body, sum, words)]
  BY DEF IInv, TypeOK, Info, CrashInSetCell
<1>4. /\ rt' \in [Cells -> Info]
      /\ \A c \in Cells : c # k => rt'[c] = rt[c]
      /\ k \in Cells
      /\ \A known : contact \in known /\ MadeFrom(ContactAt(rt, k), known)
                       => MadeFrom(ContactAt(rt', k), known)
  <2>1. PICK table : table = rt'
    OBVIOUS
  <2>2. PICK old : old = rt[k]
    OBVIOUS
  <2>3. /\ k \in Cells /\ old \in Info
        /\ contact.nid.body \in Body /\ contact.nid.checksum \in Checksum
        /\ contact.ip \in Ip /\ contact.port \in Port
    BY <1>1, <1>2, <1>3, <2>2 DEF Contact, Nid
  <2>4. PICK new : new = StoredInPart(old, contact, body, sum, words)
    OBVIOUS
  <2>5. /\ new.body = Spliced(old.body, contact.nid.body, body)
        /\ new.checksum = Spliced(old.checksum, contact.nid.checksum, sum)
        /\ new.ip \in {old.ip, contact.ip} /\ new.port \in {old.port, contact.port}
        /\ new = [body |-> new.body, checksum |-> new.checksum, ip |-> new.ip, port |-> new.port]
    BY <2>4 DEF StoredInPart
  <2>6. /\ old.body \in Body /\ old.checksum \in Checksum /\ old.ip \in Ip /\ old.port \in Port
    BY <2>3 DEF Info
  <2>7. new.body \in Body /\ \A i \in BodyBytes : new.body[i] \in {old.body[i], contact.nid.body[i]}
    BY <2>3, <2>5, <2>6 DEF Spliced, Body
  <2>8. /\ new.checksum \in Checksum
        /\ \A i \in SumBytes : new.checksum[i] \in {old.checksum[i], contact.nid.checksum[i]}
    BY <2>3, <2>5, <2>6 DEF Spliced, Checksum
  <2>9. new \in Info
    BY <2>3, <2>5, <2>6, <2>7, <2>8 DEF Info
  <2>10. /\ table \in [Cells -> Info] /\ table[k] = new
         /\ \A c \in Cells : c # k => table[c] = rt[c]
    BY <1>1, <1>3, <2>1, <2>2, <2>3, <2>4, <2>9
  <2>11. ASSUME NEW known, contact \in known, MadeFrom(ContactAt(rt, k), known)
         PROVE  MadeFrom(ContactAt(table, k), known)
    <3>1. PICK p : p = ContactAt(rt, k)
      OBVIOUS
    <3>2. PICK q : q = ContactAt(table, k)
      OBVIOUS
    <3>3. /\ p.nid.cell = k /\ p.nid.body = old.body /\ p.nid.checksum = old.checksum
          /\ p.ip = old.ip /\ p.port = old.port
      BY <2>2, <3>1 DEF ContactAt
    <3>4. /\ q.nid.cell = k /\ q.nid.body = new.body /\ q.nid.checksum = new.checksum
          /\ q.ip = new.ip /\ q.port = new.port
      BY <2>10, <3>2 DEF ContactAt
    <3>5. PICK ours : ours = {h \in known : h.nid.cell = k}
      OBVIOUS
    <3>6. contact \in ours
      BY <1>1, <2>11, <3>5
    <3>7. /\ \A i \in BodyBytes : old.body[i] \in {0} \cup {h.nid.body[i] : h \in ours}
          /\ \A i \in SumBytes : old.checksum[i] \in {0} \cup {h.nid.checksum[i] : h \in ours}
          /\ old.ip \in {0} \cup {h.ip : h \in ours}
          /\ old.port \in {0} \cup {h.port : h \in ours}
      BY <2>11, <3>1, <3>3, <3>5 DEF MadeFrom
    <3>8. /\ \A i \in BodyBytes : new.body[i] \in {0} \cup {h.nid.body[i] : h \in ours}
          /\ \A i \in SumBytes : new.checksum[i] \in {0} \cup {h.nid.checksum[i] : h \in ours}
          /\ new.ip \in {0} \cup {h.ip : h \in ours}
          /\ new.port \in {0} \cup {h.port : h \in ours}
      BY <2>5, <2>7, <2>8, <3>6, <3>7
    <3>9. MadeFrom(q, known)
      BY <3>4, <3>5, <3>8 DEF MadeFrom
    <3>10. QED
      BY <3>2, <3>9
  <2>12. QED
    BY <2>1, <2>3, <2>10, <2>11
<1>5. /\ heard' = heard \cup {contact} /\ out' = NoContact /\ doubtful' = FALSE
      /\ crashes < MaxCrashes /\ crashes' = crashes + 1 /\ running' = FALSE
      /\ cut' = cut \cup {k}
  BY <1>1 DEF CrashInSetCell
<1>6. crashes' \in 0..MaxCrashes
  BY <1>5, ContactAssumption DEF IInv, TypeOK
<1>7. TypeOK'
  BY <1>4, <1>5, <1>6, NoContactType DEF IInv, TypeOK, Info
<1>8. \A c \in Cells : c # k => ContactAt(rt', c) = ContactAt(rt, c)
  BY <1>4 DEF ContactAt
<1>9. CellsHeard'
  BY <1>4, <1>5, <1>8 DEF IInv, CellsHeard
<1>10. CellsMade'
  <2> SUFFICES ASSUME NEW c \in Cells PROVE MadeFrom(ContactAt(rt', c), heard')
    BY DEF CellsMade
  <2>1. MadeFrom(ContactAt(rt, c), heard')
    BY <1>5, MadeMono DEF IInv, CellsMade
  <2>2. CASE c = k
    BY <1>4, <1>5, <2>1, <2>2
  <2>3. CASE c # k
    BY <1>8, <2>1, <2>3
  <2>4. QED
    BY <2>2, <2>3
<1>11. Origin'
  BY <1>5 DEF Origin
<1>12. CutBound'
  BY <1>4, <1>5, OneMoreCut DEF IInv
<1>13. QED
  BY <1>7, <1>9, <1>10, <1>11, <1>12 DEF IInv

LEMMA StaysKeeps ==
    ASSUME IInv, UNCHANGED <<rt, out, heard, crashes, cut, doubtful>>, running' \in BOOLEAN
    PROVE  IInv'
<1>1. TypeOK' /\ Origin' /\ CutBound'
  BY DEF IInv, TypeOK, Origin, CutBound
<1>2. CellsHeard' /\ CellsMade'
  BY DEF IInv, CellsHeard, CellsMade, ContactAt
<1>3. QED
  BY <1>1, <1>2 DEF IInv

\* The invariant holds of every behaviour.
LEMMA Invariance == Spec => []IInv
<1>1. IInv /\ [Next]_vars => IInv'
  <2> SUFFICES ASSUME IInv, [Next]_vars PROVE IInv'
    OBVIOUS
  <2>1. ASSUME NEW contact \in Announced, InsertContact(contact) PROVE IInv'
    BY <2>1, InsertKeeps
  <2>2. ASSUME NEW contact \in Announced, DeleteNode(contact.nid) PROVE IInv'
    BY <2>2, DeleteKeeps
  <2>3. ASSUME NEW contact \in Announced, NEW start \in Starts,
               GetNeighborContact(contact.nid, start)
        PROVE  IInv'
    BY <2>3, NeighborKeeps
  <2>4. ASSUME NEW start \in Starts, GetRandomValidNode(start) PROVE IInv'
    BY <2>4, RandomKeeps
  <2>5. ASSUME NEW contact \in Announced, NEW body \in SUBSET BodyBytes,
               NEW sum \in SUBSET SumBytes, NEW words \in SUBSET {"ip", "port"},
               CrashInSetCell(contact, body, sum, words)
        PROVE  IInv'
    BY <2>5, CrashKeeps
  <2>6. CASE Restart
    BY <2>6, StaysKeeps DEF Restart
  <2>7. CASE UNCHANGED vars
    BY <2>7, StaysKeeps DEF vars, IInv, TypeOK
  <2>8. QED
    BY <2>1, <2>2, <2>3, <2>4, <2>5, <2>6, <2>7 DEF Next
<1>2. QED
  BY <1>1, InitIInv, PTL DEF Spec

\* The table keeps its form through every store that a death cuts short, and
\* lookups hand out contacts.
THEOREM RoutingTableTypeCorrect == Spec => []TypeOK
<1>1. IInv => TypeOK
  BY DEF IInv
<1>2. QED
  BY <1>1, Invariance, PTL

\* What get_neighbor_contact and get_random_valid_node hand out was announced,
\* id and address together, unless it is from a cell whose last store a death
\* cut short; and then it consists of bytes announced for that cell.
THEOREM LookupsAreHeard == Spec => []Origin
<1>1. IInv => Origin
  BY DEF IInv
<1>2. QED
  BY <1>1, Invariance, PTL

\* The file holds no more made-up contacts than there were deaths in set_cell.
THEOREM OneTornCellPerCrash == Spec => []TornBound
<1>1. IInv => TornBound
  BY FewTorn
<1>2. QED
  BY <1>1, Invariance, PTL

\* get_random_valid_node misses no node from the starts that leave it a whole
\* table's length, although it counts bytes and not cells.
THEOREM ScansFind == Spec => []ScanComplete
<1>1. IInv => ScanComplete
  BY TypesScanComplete DEF IInv
<1>2. QED
  BY <1>1, Invariance, PTL

=============================================================================
