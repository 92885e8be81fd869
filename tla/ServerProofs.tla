---------------------------- MODULE ServerProofs ----------------------------
(***************************************************************************)
(* The invariants of Server, for every set of contacts, infohashes and      *)
(* messages, every file at the start and all sizes of tables and buckets.   *)
(*                                                                          *)
(* A callback is a chain of calls on a record of the shared state, with two *)
(* loops in it.  The proofs carry one predicate, Sound, along that chain:   *)
(* what must be true of the record after every call so that the invariants  *)
(* hold when the callback is over.                                          *)
(*                                                                          *)
(* The last part is about the choice of the next hops that the handler of a *)
(* reply makes, as BestHops steps through it, for every set of hashes and   *)
(* every number of nodes in a reply.                                        *)
(***************************************************************************)
EXTENDS Server, BestHops, FiniteSetTheorems, SequenceTheorems, WellFoundedInduction, TLAPS

-----------------------------------------------------------------------------
(* The inductive invariant.                                                *)

IsTable(table) == table = [c \in Cells |-> table[c]]

\* What the handlers need of the cells of gpmap: their hops are numbers.
IsBuf(cells) ==
    /\ cells = [tok \in Tok |-> cells[tok]]
    /\ \A tok \in Tok : "hop" \in DOMAIN cells[tok] /\ cells[tok].hop \in Nat

IsSeq(s) == \E T : s \in Seq(T)

Types ==
    /\ IsTable(rt) /\ IsBuf(buf) /\ IsSeq(sent)
    /\ spam = [rx |-> spam.rx, pg |-> spam.pg, gp |-> spam.gp]
    /\ spam.rx \in Maps(DOMAIN spam.rx, RX.max)
    /\ spam.pg \in Maps(DOMAIN spam.pg, PG.max)
    /\ spam.gp \in Maps(DOMAIN spam.gp, GP.max)
    /\ ctr \in [Stats -> Nat]
    /\ handled \in [Ip -> Nat] /\ pinged \in [Ip -> Nat] /\ chased \in [Key -> Nat]
    /\ epochs \in Nat

\* Every contact in the table was announced.
AllHeard(table, known) == \A c \in Cells : ~ is_empty(table[c]) => ContactAt(table, c) \in known

\* The bucket that map m stands for at key k.
Bucketed(m, k, max) == IF k \in DOMAIN m THEN m[k] ELSE max

\* What was paid for and what is left in the bucket, against the refills.
WithinBudget(table, paid, m, k) ==
    table.withdraw * paid + Bucketed(m, k, table.max) <= table.max + epochs * table.replenish

Levels ==
    /\ \A i \in Ip : WithinBudget(RX, handled[i], spam.rx, i)
    /\ \A i \in Ip : WithinBudget(PG, pinged[i], spam.pg, i)
    /\ \A k \in Key : WithinBudget(GP, chased[k], spam.gp, k)

IInv == Types /\ AllHeard(rt, heard) /\ Levels /\ Accounts /\ FirstHand /\ HandsOutHeard

-----------------------------------------------------------------------------
(* Buckets, as in CTMap.                                                   *)

\* The numbers of one table of the spam filter.
SpamTable(table) ==
    table.max \in Nat /\ table.replenish \in Nat /\ table.withdraw \in 1..table.max

LEMMA SpamTables == SpamTable(RX) /\ SpamTable(PG) /\ SpamTable(GP)
  BY ServerAssumption DEF SpamTable

\* A bucket holds from none to max tokens.
LEMMA BucketRange ==
    ASSUME NEW max \in Nat, NEW m, m \in Maps(DOMAIN m, max), NEW k
    PROVE  Bucketed(m, k, max) \in 0..max
<1>1. \A j \in DOMAIN m : m[j] \in 0..(max - 1)
  BY DEF Maps
<1>2. QED
  BY <1>1 DEF Bucketed

\* A request takes its price from the bucket of its key, when that holds it.
LEMMA WithdrawnFacts ==
    ASSUME NEW max \in Nat, NEW delta \in 1..max, NEW m, m \in Maps(DOMAIN m, max), NEW key,
           NEW w, w = Withdrawn(m, key, max, delta)
    PROVE  /\ w \in Maps(DOMAIN w, max)
           /\ \A k : Bucketed(w, k, max) =
                        IF k = key /\ CanWithdraw(m, key, delta)
                        THEN Bucketed(m, k, max) - delta ELSE Bucketed(m, k, max)
           /\ CanWithdraw(m, key, delta) => Bucketed(m, key, max) >= delta
<1>1. m \in [DOMAIN m -> 0..(max - 1)]
  BY DEF Maps
<1>2. CASE key \notin DOMAIN m
  <2>1. w = [j \in DOMAIN m \cup {key} |-> IF j = key THEN max - delta ELSE m[j]]
    BY <1>2 DEF Withdrawn
  <2>2. w \in [DOMAIN w -> 0..(max - 1)]
    BY <1>1, <2>1
  <2>3. w \in Maps(DOMAIN w, max)
    BY <2>2 DEF Maps
  <2>4. QED
    BY <1>1, <1>2, <2>1, <2>3 DEF CanWithdraw, Bucketed
<1>3. CASE key \in DOMAIN m /\ m[key] < delta
  BY <1>1, <1>3 DEF Withdrawn, CanWithdraw, Bucketed
<1>4. CASE key \in DOMAIN m /\ ~ (m[key] < delta)
  <2>1. w = [m EXCEPT ![key] = m[key] - delta]
    BY <1>4 DEF Withdrawn
  <2>2. w \in [DOMAIN w -> 0..(max - 1)] /\ DOMAIN w = DOMAIN m
    BY <1>1, <1>4, <2>1
  <2>3. w \in Maps(DOMAIN w, max)
    BY <2>2 DEF Maps
  <2>4. QED
    BY <1>1, <1>4, <2>1, <2>2, <2>3 DEF CanWithdraw, Bucketed
<1>5. QED
  BY <1>1, <1>2, <1>3, <1>4

\* An epoch adds at most its refill to a bucket.
LEMMA ReplenishedFacts ==
    ASSUME NEW max \in Nat, NEW delta \in Nat, NEW m, m \in Maps(DOMAIN m, max), NEW r,
           r = Replenished(m, max, delta)
    PROVE  /\ r \in Maps(DOMAIN r, max)
           /\ \A k : Bucketed(r, k, max) <= Bucketed(m, k, max) + delta
<1> DEFINE Kept == {j \in DOMAIN m : m[j] + delta < max}
<1>1. m \in [DOMAIN m -> 0..(max - 1)]
  BY DEF Maps
<1>2. r = [j \in Kept |-> m[j] + delta]
  BY DEF Replenished
<1>3. \A j \in Kept : j \in DOMAIN m /\ m[j] + delta \in 0..(max - 1)
  BY <1>1
<1>4. ASSUME NEW j \in DOMAIN m, j \notin Kept PROVE max <= m[j] + delta
  BY <1>1, <1>4
<1> HIDE DEF Kept
<1>5. DOMAIN r = Kept /\ r \in [DOMAIN r -> 0..(max - 1)]
  BY <1>2, <1>3
<1>6. r \in Maps(DOMAIN r, max)
  BY <1>5 DEF Maps
<1>7. ASSUME NEW k PROVE Bucketed(r, k, max) <= Bucketed(m, k, max) + delta
  <2>1. CASE k \in Kept
    BY <1>1, <1>2, <1>3, <1>5, <2>1 DEF Bucketed
  <2>2. CASE k \notin Kept /\ k \in DOMAIN m
    BY <1>1, <1>4, <1>5, <2>2 DEF Bucketed
  <2>3. CASE k \notin Kept /\ k \notin DOMAIN m
    BY <1>5, <2>3 DEF Bucketed
  <2>4. QED
    BY <2>1, <2>2, <2>3
<1>8. QED
  BY <1>6, <1>7

-----------------------------------------------------------------------------
(* Scans and stores of the routing table.                                  *)

\* The least element of a non-empty set of naturals.
LEMMA MinIsLeast ==
    ASSUME NEW S, S \subseteq Nat, S # {}
    PROVE  Min(S) \in S /\ \A y \in S : Min(S) <= y
<1> DEFINE R == OpToRel(<, Nat)
<1>1. IsWellFoundedOn(R, Nat) /\ \A x, y \in Nat : y < x => <<y, x>> \in R
  BY NatLessThanWellFounded, Zenon DEF OpToRel
<1> HIDE DEF R
<1>2. PICK x \in S : \A y \in S : ~ (<<y, x>> \in R)
  BY <1>1, WFMin
<1>3. \A y \in S : ~ (y < x)
  BY <1>1, <1>2, Zenon
<1>4. \A y \in S : x <= y
  BY <1>3
<1>5. QED
  BY <1>4 DEF Min

LEMMA ModIsCell == ASSUME NEW step \in Nat PROVE step % NCells \in Cells
  BY RTAssumption DEF Cells

\* A lookup hands out nothing, or the content of a cell that is not empty.
LEMMA ScanFacts ==
    ASSUME NEW table, NEW known, AllHeard(table, known), NEW start \in Nat
    PROVE  random_valid_node(table, start) \in known \cup {NoContact}
<1> DEFINE hits == {step \in start..(RT_SIZE - 1) : start > 0 /\ ~ is_empty(table[step % NCells])}
<1>1. random_valid_node(table, start) =
          IF hits = {} THEN NoContact ELSE ContactAt(table, Min(hits) % NCells)
  BY DEF random_valid_node
<1>2. hits \subseteq Nat /\ \A step \in hits : step \in Nat /\ ~ is_empty(table[step % NCells])
  <2>1. RT_SIZE \in Nat
    BY RTAssumption DEF RT_SIZE
  <2>2. QED
    BY <2>1
<1> HIDE DEF hits
<1>3. CASE hits # {}
  <2>1. Min(hits) \in hits
    BY <1>2, <1>3, MinIsLeast
  <2>2. ContactAt(table, Min(hits) % NCells) \in known
    BY <1>2, <2>1, ModIsCell DEF AllHeard
  <2>3. QED
    BY <1>1, <1>3, <2>2
<1>4. QED
  BY <1>1, <1>3

LEMMA NeighborFacts ==
    ASSUME NEW table, NEW known, AllHeard(table, known), NEW start \in Nat,
           NEW target, target.cell \in Cells
    PROVE  neighbor_contact(table, target, start) \in known \cup {NoContact}
  BY ScanFacts DEF neighbor_contact, AllHeard

\* An insert stores the contact in its cell and keeps the other cells.
LEMMA InsertedFacts ==
    ASSUME NEW table, IsTable(table), NEW p \in Peer, NEW new, new = Inserted(table, p)
    PROVE  /\ IsTable(new)
           /\ \A c \in Cells : c # p.nid.cell => new[c] = table[c]
           /\ new[p.nid.cell].ip = p.ip /\ ContactAt(new, p.nid.cell) = p
<1> DEFINE k == p.nid.cell
           cell == CellOf(p)
<1>1. /\ k \in Cells
      /\ p = [nid |-> [cell |-> k, body |-> p.nid.body, checksum |-> p.nid.checksum],
              ip |-> p.ip, port |-> p.port]
  BY ServerAssumption, Zenon
<1>2. new = [table EXCEPT ![k] = cell]
  BY DEF Inserted
<1>3. /\ cell.body = p.nid.body /\ cell.checksum = p.nid.checksum
      /\ cell.ip = p.ip /\ cell.port = p.port
  BY DEF CellOf
<1> HIDE DEF cell, k
<1>4. new[k] = cell /\ IsTable(new) /\ \A c \in Cells : c # k => new[c] = table[c]
  BY <1>1, <1>2 DEF IsTable
<1>5. ContactAt(new, k) = p
  BY <1>1, <1>3, <1>4 DEF ContactAt
<1>6. QED
  BY <1>3, <1>4, <1>5 DEF k

-----------------------------------------------------------------------------
(* The record of effects, and the calls that change it.                    *)

IsState(e) ==
    e = [rt |-> e.rt, buf |-> e.buf, pg |-> e.pg, gp |-> e.gp, ctr |-> e.ctr,
         sent |-> e.sent, heard |-> e.heard, stop |-> e.stop]

\* Accounts, of counters c.
Balanced(c) ==
    /\ c \in [Stats -> Nat]
    /\ c["tx_tot"] = c["tx_q_pg"] + c["tx_q_fn"] + c["tx_q_gp"]
                     + c["tx_r_pg"] + c["tx_r_fn"] + c["tx_r_gp"] + c["tx_r_ap"]
    /\ c["rx_tot"] = c["rx_q_pg"] + c["rx_q_fn"] + c["rx_q_gp"] + c["rx_q_ap"]
                     + c["rx_r_pg"] + c["rx_r_fn"] + c["rx_r_gp"]

\* The datagrams of a callback that pinged address i, and those that chased key k.
IsPing(d, i) == d.kind = "q_pg" /\ d.to.ip = i
IsChase(d, k) == d.kind = "q_gp" /\ d.hop > 0 /\ GPKEY[<<d.ih, d.to.ip>>] = k
Pings(s, i) == {j \in DOMAIN s : IsPing(s[j], i)}
Chases(s, k) == {j \in DOMAIN s : IsChase(s[j], k)}

\* Does d hand out a contact, or ask one that the table gave?
HandsOut(d) == d.kind \in {"r_fn", "r_gp"} \/ (d.kind = "q_gp" /\ d.hop = 0)

\* The cells are those before the callback, or of its sender.
TableSound(e, ip) ==
    /\ IsTable(e.rt) /\ AllHeard(e.rt, e.heard)
    /\ \A c \in Cells : e.rt[c] = rt[c] \/ e.rt[c].ip = ip

SentSound(e) ==
    /\ IsSeq(e.sent)
    /\ \A j \in DOMAIN e.sent : HandsOut(e.sent[j]) => e.sent[j].contact \in e.heard \cup {NoContact}

\* What was sent in the callback was taken from the buckets.
PingsPaid(e) ==
    /\ e.pg \in Maps(DOMAIN e.pg, PG.max)
    /\ \A i : PG.withdraw * Cardinality(Pings(e.sent, i)) + Bucketed(e.pg, i, PG.max)
                 <= Bucketed(spam.pg, i, PG.max)

ChasesPaid(e) ==
    /\ e.gp \in Maps(DOMAIN e.gp, GP.max)
    /\ \A k : GP.withdraw * Cardinality(Chases(e.sent, k)) + Bucketed(e.gp, k, GP.max)
                 <= Bucketed(spam.gp, k, GP.max)

\* What every call of a callback keeps, when the sender's address is ip.
Sound(e, ip) ==
    /\ IsState(e) /\ TableSound(e, ip) /\ IsBuf(e.buf) /\ Balanced(e.ctr)
    /\ SentSound(e) /\ PingsPaid(e) /\ ChasesPaid(e)

LEMMA AppendFacts ==
    ASSUME NEW s, IsSeq(s), NEW d
    PROVE  /\ IsSeq(Append(s, d)) /\ IsFiniteSet(DOMAIN s)
           /\ DOMAIN Append(s, d) = DOMAIN s \cup {Len(s) + 1} /\ Len(s) + 1 \notin DOMAIN s
           /\ Append(s, d)[Len(s) + 1] = d /\ \A j \in DOMAIN s : Append(s, d)[j] = s[j]
<1>0. PICK t, n : t = Append(s, d) /\ n = Len(s) + 1
  OBVIOUS
<1>1. PICK T : s \in Seq(T)
  BY DEF IsSeq
<1>2. t \in Seq(T \cup {d}) /\ Len(s) \in Nat /\ DOMAIN s = 1..Len(s) /\ DOMAIN t = 1..n
  BY <1>0, <1>1
<1>3. t[n] = d /\ \A j \in DOMAIN s : t[j] = s[j]
  BY <1>0, <1>1, <1>2
<1>4. IsFiniteSet(DOMAIN s)
  BY <1>2, FS_Interval
<1>5. DOMAIN t = DOMAIN s \cup {n} /\ n \notin DOMAIN s
  BY <1>0, <1>2
<1>6. QED
  BY <1>0, <1>2, <1>3, <1>4, <1>5 DEF IsSeq

\* One more datagram is at most one more ping.
LEMMA PingsAppend ==
    ASSUME NEW s, IsSeq(s), NEW d, NEW i
    PROVE  /\ Cardinality(Pings(s, i)) \in Nat
           /\ IsPing(d, i) => Cardinality(Pings(Append(s, d), i)) = Cardinality(Pings(s, i)) + 1
           /\ ~ IsPing(d, i) => Pings(Append(s, d), i) = Pings(s, i)
<1>0. PICK t, n : t = Append(s, d) /\ n = Len(s) + 1
  OBVIOUS
<1>1. /\ DOMAIN t = DOMAIN s \cup {n} /\ n \notin DOMAIN s /\ IsFiniteSet(DOMAIN s)
      /\ t[n] = d /\ \A j \in DOMAIN s : t[j] = s[j]
  BY <1>0, AppendFacts
<1>2. /\ IsPing(d, i) => Pings(t, i) = Pings(s, i) \cup {n}
      /\ ~ IsPing(d, i) => Pings(t, i) = Pings(s, i)
  BY <1>1 DEF Pings
<1>3. IsFiniteSet(Pings(s, i)) /\ n \notin Pings(s, i)
  BY <1>1, FS_Subset DEF Pings
<1>4. Cardinality(Pings(s, i)) \in Nat
  BY <1>3, FS_CardinalityType
<1>5. Cardinality(Pings(s, i) \cup {n}) = Cardinality(Pings(s, i)) + 1
  BY <1>3, FS_AddElement
<1>6. QED
  BY <1>0, <1>2, <1>4, <1>5

\* And at most one more chase.
LEMMA ChasesAppend ==
    ASSUME NEW s, IsSeq(s), NEW d, NEW k
    PROVE  /\ Cardinality(Chases(s, k)) \in Nat
           /\ IsChase(d, k) => Cardinality(Chases(Append(s, d), k)) = Cardinality(Chases(s, k)) + 1
           /\ ~ IsChase(d, k) => Chases(Append(s, d), k) = Chases(s, k)
<1>0. PICK t, n : t = Append(s, d) /\ n = Len(s) + 1
  OBVIOUS
<1>1. /\ DOMAIN t = DOMAIN s \cup {n} /\ n \notin DOMAIN s /\ IsFiniteSet(DOMAIN s)
      /\ t[n] = d /\ \A j \in DOMAIN s : t[j] = s[j]
  BY <1>0, AppendFacts
<1>2. /\ IsChase(d, k) => Chases(t, k) = Chases(s, k) \cup {n}
      /\ ~ IsChase(d, k) => Chases(t, k) = Chases(s, k)
  BY <1>1 DEF Chases
<1>3. IsFiniteSet(Chases(s, k)) /\ n \notin Chases(s, k)
  BY <1>1, FS_Subset DEF Chases
<1>4. Cardinality(Chases(s, k)) \in Nat
  BY <1>3, FS_CardinalityType
<1>5. Cardinality(Chases(s, k) \cup {n}) = Cardinality(Chases(s, k)) + 1
  BY <1>3, FS_AddElement
<1>6. QED
  BY <1>0, <1>2, <1>4, <1>5

LEMMA IncFacts ==
    ASSUME NEW e, IsState(e), NEW stat
    PROVE  /\ IsState(Inc(e, stat)) /\ Inc(e, stat).ctr = [e.ctr EXCEPT ![stat] = @ + 1]
           /\ Inc(e, stat).rt = e.rt /\ Inc(e, stat).buf = e.buf
           /\ Inc(e, stat).pg = e.pg /\ Inc(e, stat).gp = e.gp
           /\ Inc(e, stat).sent = e.sent /\ Inc(e, stat).heard = e.heard
           /\ Inc(e, stat).stop = e.stop
  BY DEF Inc, IsState

\* Counting a datagram by kind and as a whole keeps the accounts, and so does
\* counting a drop.
LEMMA BalanceKept ==
    ASSUME NEW c, Balanced(c)
    PROVE  /\ \A kind \in TxKinds :
                 Balanced([[c EXCEPT ![kind] = @ + 1] EXCEPT !["tx_tot"] = @ + 1])
           /\ \A kind \in RxKinds :
                 Balanced([[c EXCEPT !["rx_tot"] = @ + 1] EXCEPT ![kind] = @ + 1])
           /\ Balanced([c EXCEPT !["drop"] = @ + 1])
<1>1. ASSUME NEW kind \in TxKinds
      PROVE  Balanced([[c EXCEPT ![kind] = @ + 1] EXCEPT !["tx_tot"] = @ + 1])
  <2>1. PICK d : d = [[c EXCEPT ![kind] = @ + 1] EXCEPT !["tx_tot"] = @ + 1]
    OBVIOUS
  <2>2. /\ d \in [Stats -> Nat] /\ d["tx_tot"] = c["tx_tot"] + 1 /\ d[kind] = c[kind] + 1
        /\ \A s \in Stats \ {kind, "tx_tot"} : d[s] = c[s]
    BY <2>1 DEF Balanced, Stats, TxKinds, RxKinds
  <2>3. Balanced(d)
    BY <2>2 DEF Balanced, Stats, TxKinds, RxKinds
  <2>4. QED
    BY <2>1, <2>3, Zenon
<1>2. ASSUME NEW kind \in RxKinds
      PROVE  Balanced([[c EXCEPT !["rx_tot"] = @ + 1] EXCEPT ![kind] = @ + 1])
  <2>1. PICK d : d = [[c EXCEPT !["rx_tot"] = @ + 1] EXCEPT ![kind] = @ + 1]
    OBVIOUS
  <2>2. /\ d \in [Stats -> Nat] /\ d["rx_tot"] = c["rx_tot"] + 1 /\ d[kind] = c[kind] + 1
        /\ \A s \in Stats \ {kind, "rx_tot"} : d[s] = c[s]
    BY <2>1 DEF Balanced, Stats, TxKinds, RxKinds
  <2>3. Balanced(d)
    BY <2>2 DEF Balanced, Stats, TxKinds, RxKinds
  <2>4. QED
    BY <2>1, <2>3, Zenon
<1>3. Balanced([c EXCEPT !["drop"] = @ + 1])
  BY DEF Balanced, Stats, TxKinds, RxKinds
<1>4. QED
  BY <1>1, <1>2, <1>3

IsMsg(msg) ==
    msg = [kind |-> msg.kind, contact |-> msg.contact, tok |-> msg.tok, hop |-> msg.hop,
           ih |-> msg.ih, to |-> msg.to]

\* d is msg, addressed to dest.
Addressed(d, msg, dest) ==
    /\ d.kind = msg.kind /\ d.contact = msg.contact /\ d.hop = msg.hop /\ d.ih = msg.ih
    /\ d.to = dest

LEMMA AddressedFacts ==
    ASSUME NEW msg, IsMsg(msg), NEW dest
    PROVE  Addressed([msg EXCEPT !.to = dest], msg, dest)
  BY DEF IsMsg, Addressed

\* At most the datagram d was sent between e and x.
Grows(x, e, d) == x.sent = e.sent \/ x.sent = Append(e.sent, d)

\* x is e after the datagram msg was sent to dest or dropped, and counted.
Transmits(x, e, msg, dest) ==
    /\ IsState(x) /\ Balanced(x.ctr)
    /\ x.rt = e.rt /\ x.buf = e.buf /\ x.pg = e.pg /\ x.gp = e.gp
    /\ x.heard = e.heard /\ x.stop = e.stop
    /\ \E d : Addressed(d, msg, dest) /\ Grows(x, e, d)

LEMMA SendFacts ==
    ASSUME NEW e, IsState(e), Balanced(e.ctr), NEW msg, IsMsg(msg), NEW dest,
           NEW acct \in TxKinds, NEW drop
    PROVE  Transmits(send_msg(e, msg, dest, acct, drop), e, msg, dest)
<1>x. PICK x : x = send_msg(e, msg, dest, acct, drop)
  OBVIOUS
<1>0. PICK d : d = [msg EXCEPT !.to = dest]
  OBVIOUS
<1>d. Addressed(d, msg, dest)
  BY <1>0, AddressedFacts
<1>1. CASE ~ validate_addr(dest.ip, dest.port) \/ dest.ip \in drop
  <2>1. x = Inc(e, "drop")
    BY <1>x, <1>1 DEF send_msg
  <2>2. /\ IsState(x) /\ x.ctr = [e.ctr EXCEPT !["drop"] = @ + 1]
        /\ x.rt = e.rt /\ x.buf = e.buf /\ x.pg = e.pg /\ x.gp = e.gp
        /\ x.sent = e.sent /\ x.heard = e.heard /\ x.stop = e.stop
    BY <2>1, IncFacts
  <2>3. Balanced(x.ctr)
    BY <2>2, BalanceKept, Zenon
  <2>4. QED
    BY <1>x, <1>d, <2>2, <2>3 DEF Transmits, Grows
<1>2. CASE ~ (~ validate_addr(dest.ip, dest.port) \/ dest.ip \in drop)
  <2>1. PICK y : y = Inc(e, acct)
    OBVIOUS
  <2>2. PICK z : z = Inc(y, "tx_tot")
    OBVIOUS
  <2>3. x = [z EXCEPT !.sent = Append(@, d)]
    BY <1>x, <1>0, <1>2, <2>1, <2>2 DEF send_msg
  <2>4. /\ IsState(y) /\ y.ctr = [e.ctr EXCEPT ![acct] = @ + 1]
        /\ y.rt = e.rt /\ y.buf = e.buf /\ y.pg = e.pg /\ y.gp = e.gp
        /\ y.sent = e.sent /\ y.heard = e.heard /\ y.stop = e.stop
    BY <2>1, IncFacts
  <2>5. /\ IsState(z) /\ z.ctr = [y.ctr EXCEPT !["tx_tot"] = @ + 1]
        /\ z.rt = y.rt /\ z.buf = y.buf /\ z.pg = y.pg /\ z.gp = y.gp
        /\ z.sent = y.sent /\ z.heard = y.heard /\ z.stop = y.stop
    <3>1. IsState(y)
      BY <2>4
    <3>2. QED
      BY <2>2, <3>1, IncFacts
  <2>6. Balanced(z.ctr)
    <3>1. z.ctr = [[e.ctr EXCEPT ![acct] = @ + 1] EXCEPT !["tx_tot"] = @ + 1]
      BY <2>4, <2>5
    <3>2. Balanced([[e.ctr EXCEPT ![acct] = @ + 1] EXCEPT !["tx_tot"] = @ + 1])
      BY BalanceKept, Zenon
    <3>3. QED
      BY <3>1, <3>2, Zenon
  <2>7. /\ IsState(x) /\ x.ctr = z.ctr /\ x.rt = z.rt /\ x.buf = z.buf /\ x.pg = z.pg
        /\ x.gp = z.gp /\ x.heard = z.heard /\ x.stop = z.stop
        /\ x.sent = Append(z.sent, d)
    BY <2>3, <2>5 DEF IsState
  <2>8. QED
    BY <1>x, <1>d, <2>4, <2>5, <2>6, <2>7 DEF Transmits, Grows
<1>3. QED
  BY <1>1, <1>2

-----------------------------------------------------------------------------
(* What the calls keep of Sound.                                           *)

\* One more datagram, which hands out nothing or what was heard.
LEMMA SentAppend ==
    ASSUME NEW e, SentSound(e), NEW d, HandsOut(d) => d.contact \in e.heard \cup {NoContact},
           NEW x, Grows(x, e, d), x.heard = e.heard
    PROVE  SentSound(x)
<1>1. CASE x.sent = e.sent
  BY <1>1 DEF SentSound
<1>2. CASE x.sent = Append(e.sent, d)
  <2>1. PICK n : n = Len(e.sent) + 1
    OBVIOUS
  <2>2. /\ IsSeq(x.sent) /\ DOMAIN x.sent = DOMAIN e.sent \cup {n}
        /\ x.sent[n] = d /\ \A j \in DOMAIN e.sent : x.sent[j] = e.sent[j]
    BY <1>2, <2>1, AppendFacts DEF SentSound
  <2>3. QED
    BY <2>2 DEF SentSound
<1>3. QED
  BY <1>1, <1>2 DEF Grows

\* A datagram that is no ping, when the buckets of pings stay.
LEMMA KeepsPingsPaid ==
    ASSUME NEW e, PingsPaid(e), IsSeq(e.sent), NEW d, \A i : ~ IsPing(d, i),
           NEW x, Grows(x, e, d), x.pg = e.pg
    PROVE  PingsPaid(x)
<1>1. ASSUME NEW i PROVE Pings(x.sent, i) = Pings(e.sent, i)
  <2>1. CASE x.sent = e.sent
    BY <2>1
  <2>2. CASE x.sent = Append(e.sent, d)
    <3>1. Pings(Append(e.sent, d), i) = Pings(e.sent, i)
      BY PingsAppend
    <3>2. QED
      BY <2>2, <3>1
  <2>3. QED
    BY <2>1, <2>2 DEF Grows
<1>2. x.pg \in Maps(DOMAIN x.pg, PG.max)
  BY DEF PingsPaid
<1>3. ASSUME NEW i
      PROVE  PG.withdraw * Cardinality(Pings(x.sent, i)) + Bucketed(x.pg, i, PG.max)
                <= Bucketed(spam.pg, i, PG.max)
  <2>1. PG.withdraw * Cardinality(Pings(e.sent, i)) + Bucketed(e.pg, i, PG.max)
           <= Bucketed(spam.pg, i, PG.max)
    BY Zenon DEF PingsPaid
  <2>2. Pings(x.sent, i) = Pings(e.sent, i)
    BY <1>1
  <2>3. QED
    BY <2>1, <2>2
<1>4. QED
  BY <1>2, <1>3, Zenon DEF PingsPaid

\* A ping to an address whose bucket is charged.
LEMMA PaysPingsPaid ==
    ASSUME Types, NEW e, PingsPaid(e), IsSeq(e.sent), NEW d, NEW key, \A i : IsPing(d, i) => i = key,
           NEW x, x.pg = Withdrawn(e.pg, key, PG.max, PG.withdraw),
           \/ x.sent = e.sent
           \/ x.sent = Append(e.sent, d) /\ CanWithdraw(e.pg, key, PG.withdraw)
    PROVE  PingsPaid(x)
<1>1. PG.max \in Nat /\ PG.withdraw \in 1..PG.max /\ e.pg \in Maps(DOMAIN e.pg, PG.max)
  BY SpamTables DEF SpamTable, PingsPaid
<1>2. /\ x.pg \in Maps(DOMAIN x.pg, PG.max)
      /\ \A i : Bucketed(x.pg, i, PG.max) =
                   IF i = key /\ CanWithdraw(e.pg, key, PG.withdraw)
                   THEN Bucketed(e.pg, i, PG.max) - PG.withdraw
                   ELSE Bucketed(e.pg, i, PG.max)
  BY <1>1, WithdrawnFacts
<1>3. ASSUME NEW i
      PROVE  PG.withdraw * Cardinality(Pings(x.sent, i)) + Bucketed(x.pg, i, PG.max)
                <= Bucketed(spam.pg, i, PG.max)
  <2> DEFINE w == PG.withdraw
             n == Cardinality(Pings(e.sent, i))
             more == Cardinality(Pings(x.sent, i))
             b == Bucketed(e.pg, i, PG.max)
             left == Bucketed(x.pg, i, PG.max)
             had == Bucketed(spam.pg, i, PG.max)
  <2>1. w * n + b <= had
    BY DEF PingsPaid
  <2>2. w \in Nat /\ n \in Nat /\ b \in Nat /\ had \in Nat
    <3>1. b \in Nat
      BY <1>1, BucketRange
    <3>2. n \in Nat
      BY PingsAppend
    <3>3. w \in Nat
      BY <1>1
    <3>4. had \in Nat
      <4>1. spam.pg \in Maps(DOMAIN spam.pg, PG.max)
        BY DEF Types
      <4>2. QED
        BY <1>1, <4>1, BucketRange
    <3>5. QED
      BY <3>1, <3>2, <3>3, <3>4
  <2>3. CASE i = key /\ CanWithdraw(e.pg, key, PG.withdraw)
    <3>1. left = b - w
      BY <1>2, <2>3
    <3>2. more = n \/ more = n + 1
      <4>1. CASE x.sent = e.sent
        BY <4>1
      <4>2. CASE x.sent = Append(e.sent, d)
        BY <4>2, PingsAppend
      <4>3. QED
        BY <4>1, <4>2
    <3> HIDE DEF w, n, more, b, left, had
    <3>3. w * (n + 1) = w * n + w /\ w * n \in Nat
      BY <2>2
    <3>4. w * more + left <= had
      <4>1. CASE more = n
        BY <2>1, <2>2, <3>1, <3>3, <4>1
      <4>2. CASE more = n + 1
        BY <2>1, <2>2, <3>1, <3>3, <4>2
      <4>3. QED
        BY <3>2, <4>1, <4>2
    <3>5. QED
      BY <3>4 DEF w, more, left, had
  <2>4. CASE ~ (i = key /\ CanWithdraw(e.pg, key, PG.withdraw))
    <3>1. left = b
      BY <1>2, <2>4
    <3>2. more = n
      <4>1. CASE x.sent = e.sent
        BY <4>1
      <4>2. CASE x.sent = Append(e.sent, d) /\ CanWithdraw(e.pg, key, PG.withdraw)
        <5>1. ~ IsPing(d, i)
          BY <2>4, <4>2
        <5>2. Pings(Append(e.sent, d), i) = Pings(e.sent, i)
          BY <5>1, PingsAppend
        <5>3. QED
          BY <4>2, <5>2
      <4>3. QED
        BY <4>1, <4>2
    <3> HIDE DEF w, n, more, b, left, had
    <3>3. w * more + left <= had
      BY <2>1, <3>1, <3>2
    <3>4. QED
      BY <3>3 DEF w, more, left, had
  <2>5. QED
    BY <2>3, <2>4
<1>4. QED
  BY <1>2, <1>3 DEF PingsPaid

\* A datagram that is no chase, when the buckets of chases stay.
LEMMA KeepsChasesPaid ==
    ASSUME NEW e, ChasesPaid(e), IsSeq(e.sent), NEW d, \A k : ~ IsChase(d, k),
           NEW x, Grows(x, e, d), x.gp = e.gp
    PROVE  ChasesPaid(x)
<1>1. ASSUME NEW k PROVE Chases(x.sent, k) = Chases(e.sent, k)
  <2>1. CASE x.sent = e.sent
    BY <2>1
  <2>2. CASE x.sent = Append(e.sent, d)
    <3>1. Chases(Append(e.sent, d), k) = Chases(e.sent, k)
      BY ChasesAppend
    <3>2. QED
      BY <2>2, <3>1
  <2>3. QED
    BY <2>1, <2>2 DEF Grows
<1>2. x.gp \in Maps(DOMAIN x.gp, GP.max)
  BY DEF ChasesPaid
<1>3. ASSUME NEW k
      PROVE  GP.withdraw * Cardinality(Chases(x.sent, k)) + Bucketed(x.gp, k, GP.max)
                <= Bucketed(spam.gp, k, GP.max)
  <2>1. GP.withdraw * Cardinality(Chases(e.sent, k)) + Bucketed(e.gp, k, GP.max)
           <= Bucketed(spam.gp, k, GP.max)
    BY Zenon DEF ChasesPaid
  <2>2. Chases(x.sent, k) = Chases(e.sent, k)
    BY <1>1
  <2>3. QED
    BY <2>1, <2>2
<1>4. QED
  BY <1>2, <1>3, Zenon DEF ChasesPaid

\* A chase by a key whose bucket is charged.
LEMMA PaysChasesPaid ==
    ASSUME Types, NEW e, ChasesPaid(e), IsSeq(e.sent), NEW d, NEW key, \A k : IsChase(d, k) => k = key,
           NEW x, x.gp = Withdrawn(e.gp, key, GP.max, GP.withdraw),
           \/ x.sent = e.sent
           \/ x.sent = Append(e.sent, d) /\ CanWithdraw(e.gp, key, GP.withdraw)
    PROVE  ChasesPaid(x)
<1>1. GP.max \in Nat /\ GP.withdraw \in 1..GP.max /\ e.gp \in Maps(DOMAIN e.gp, GP.max)
  BY SpamTables DEF SpamTable, ChasesPaid
<1>2. /\ x.gp \in Maps(DOMAIN x.gp, GP.max)
      /\ \A k : Bucketed(x.gp, k, GP.max) =
                   IF k = key /\ CanWithdraw(e.gp, key, GP.withdraw)
                   THEN Bucketed(e.gp, k, GP.max) - GP.withdraw
                   ELSE Bucketed(e.gp, k, GP.max)
  BY <1>1, WithdrawnFacts
<1>3. ASSUME NEW k
      PROVE  GP.withdraw * Cardinality(Chases(x.sent, k)) + Bucketed(x.gp, k, GP.max)
                <= Bucketed(spam.gp, k, GP.max)
  <2> DEFINE w == GP.withdraw
             n == Cardinality(Chases(e.sent, k))
             more == Cardinality(Chases(x.sent, k))
             b == Bucketed(e.gp, k, GP.max)
             left == Bucketed(x.gp, k, GP.max)
             had == Bucketed(spam.gp, k, GP.max)
  <2>1. w * n + b <= had
    BY DEF ChasesPaid
  <2>2. w \in Nat /\ n \in Nat /\ b \in Nat /\ had \in Nat
    <3>1. b \in Nat
      BY <1>1, BucketRange
    <3>2. n \in Nat
      BY ChasesAppend
    <3>3. w \in Nat
      BY <1>1
    <3>4. had \in Nat
      <4>1. spam.gp \in Maps(DOMAIN spam.gp, GP.max)
        BY DEF Types
      <4>2. QED
        BY <1>1, <4>1, BucketRange
    <3>5. QED
      BY <3>1, <3>2, <3>3, <3>4
  <2>3. CASE k = key /\ CanWithdraw(e.gp, key, GP.withdraw)
    <3>1. left = b - w
      BY <1>2, <2>3
    <3>2. more = n \/ more = n + 1
      <4>1. CASE x.sent = e.sent
        BY <4>1
      <4>2. CASE x.sent = Append(e.sent, d)
        BY <4>2, ChasesAppend
      <4>3. QED
        BY <4>1, <4>2
    <3> HIDE DEF w, n, more, b, left, had
    <3>3. w * (n + 1) = w * n + w /\ w * n \in Nat
      BY <2>2
    <3>4. w * more + left <= had
      <4>1. CASE more = n
        BY <2>1, <2>2, <3>1, <3>3, <4>1
      <4>2. CASE more = n + 1
        BY <2>1, <2>2, <3>1, <3>3, <4>2
      <4>3. QED
        BY <3>2, <4>1, <4>2
    <3>5. QED
      BY <3>4 DEF w, more, left, had
  <2>4. CASE ~ (k = key /\ CanWithdraw(e.gp, key, GP.withdraw))
    <3>1. left = b
      BY <1>2, <2>4
    <3>2. more = n
      <4>1. CASE x.sent = e.sent
        BY <4>1
      <4>2. CASE x.sent = Append(e.sent, d) /\ CanWithdraw(e.gp, key, GP.withdraw)
        <5>1. ~ IsChase(d, k)
          BY <2>4, <4>2
        <5>2. Chases(Append(e.sent, d), k) = Chases(e.sent, k)
          BY <5>1, ChasesAppend
        <5>3. QED
          BY <4>2, <5>2
      <4>3. QED
        BY <4>1, <4>2
    <3> HIDE DEF w, n, more, b, left, had
    <3>3. w * more + left <= had
      BY <2>1, <3>1, <3>2
    <3>4. QED
      BY <3>3 DEF w, more, left, had
  <2>5. QED
    BY <2>3, <2>4
<1>4. QED
  BY <1>2, <1>3 DEF ChasesPaid

\* A datagram that is neither a ping nor a chase.
LEMMA SendSound ==
    ASSUME NEW e, NEW ip, Sound(e, ip), NEW msg, IsMsg(msg), msg.kind # "q_pg",
           msg.kind = "q_gp" => ~ (msg.hop > 0),
           HandsOut(msg) => msg.contact \in e.heard \cup {NoContact},
           NEW dest, NEW acct \in TxKinds, NEW drop
    PROVE  Sound(send_msg(e, msg, dest, acct, drop), ip)
<1>1. PICK x : x = send_msg(e, msg, dest, acct, drop)
  OBVIOUS
<1>2. Transmits(x, e, msg, dest)
  BY <1>1, SendFacts DEF Sound
<1>3. PICK d : Addressed(d, msg, dest) /\ Grows(x, e, d)
  BY <1>2 DEF Transmits
<1>5. SentSound(x)
  BY <1>2, <1>3, SentAppend DEF Transmits, Sound, Addressed, HandsOut
<1>6. PingsPaid(x) /\ ChasesPaid(x)
  <2>1. (\A i : ~ IsPing(d, i)) /\ (\A k : ~ IsChase(d, k))
    BY <1>3 DEF Addressed, IsPing, IsChase
  <2>2. QED
    <3>1. /\ PingsPaid(e) /\ ChasesPaid(e) /\ IsSeq(e.sent) /\ x.pg = e.pg /\ x.gp = e.gp
      BY <1>2 DEF Transmits, Sound, SentSound
    <3>2. PingsPaid(x)
      BY <1>3, <2>1, <3>1, KeepsPingsPaid, Zenon
    <3>3. ChasesPaid(x)
      BY <1>3, <2>1, <3>1, KeepsChasesPaid, Zenon
    <3>4. QED
      BY <3>2, <3>3
<1>7. TableSound(x, ip)
  BY <1>2 DEF Transmits, Sound, TableSound
<1>8. QED
  BY <1>1, <1>2, <1>5, <1>6, <1>7 DEF Transmits, Sound

\* insert_contact is called with the sender of the datagram.
LEMMA InsertSound ==
    ASSUME NEW e, NEW p \in Peer, Sound(e, p.ip)
    PROVE  Sound(insert_contact(e, p), p.ip)
<1>1. PICK x : x = insert_contact(e, p)
  OBVIOUS
<1>2. PICK table : table = Inserted(e.rt, p)
  OBVIOUS
<1>3. IsState(e) /\ x = [e EXCEPT !.rt = table, !.heard = @ \cup {p}]
  BY <1>1, <1>2 DEF Sound, insert_contact
<1>4. /\ IsState(x) /\ x.rt = table /\ x.buf = e.buf /\ x.pg = e.pg /\ x.gp = e.gp
      /\ x.ctr = e.ctr /\ x.sent = e.sent /\ x.heard = e.heard \cup {p} /\ x.stop = e.stop
  BY <1>3 DEF IsState
<1>5. /\ IsTable(table)
      /\ \A c \in Cells : c # p.nid.cell => table[c] = (e.rt)[c]
      /\ table[p.nid.cell].ip = p.ip /\ ContactAt(table, p.nid.cell) = p
  BY <1>2, InsertedFacts DEF Sound, TableSound
<1>6. AllHeard(x.rt, x.heard)
  BY <1>4, <1>5 DEF Sound, TableSound, AllHeard, ContactAt
<1>7. TableSound(x, p.ip)
  BY <1>4, <1>5, <1>6 DEF Sound, TableSound
<1>8. SentSound(x) /\ PingsPaid(x) /\ ChasesPaid(x)
  BY <1>4 DEF Sound, SentSound, PingsPaid, ChasesPaid
<1>9. QED
  BY <1>1, <1>4, <1>7, <1>8 DEF Sound

-----------------------------------------------------------------------------
(* The bodies of the two loops.                                            *)

\* One ping of the sweep takes its price before it is sent.
LEMMA PingSound ==
    ASSUME Types, NEW e, NEW ip, Sound(e, ip), NEW node, NEW drop
    PROVE  Sound(ping_node(e, node, drop), ip)
<1> DEFINE msg == Msg("q_pg", node, 0, 0)
           can == CanWithdraw(e.pg, node.ip, PG.withdraw)
<1>1. PICK x : x = ping_node(e, node, drop)
  OBVIOUS
<1>2. PICK less : less = Withdrawn(e.pg, node.ip, PG.max, PG.withdraw)
  OBVIOUS
<1>3. PICK y : y = [e EXCEPT !.pg = less]
  OBVIOUS
<1>4. IsState(e)
  BY DEF Sound
<1>5. /\ IsState(y) /\ y.pg = less /\ y.gp = e.gp /\ y.rt = e.rt /\ y.buf = e.buf
      /\ y.ctr = e.ctr /\ y.sent = e.sent /\ y.heard = e.heard
  BY <1>3, <1>4 DEF IsState
<1>6. IsMsg(msg) /\ msg.kind = "q_pg"
  BY DEF Msg, IsMsg
<1>7. x = IF ~ can THEN y ELSE send_msg(y, msg, node, "tx_q_pg", drop)
  BY <1>1, <1>2, <1>3 DEF ping_node
<1> HIDE DEF msg, can
<1>8. /\ IsState(x) /\ Balanced(x.ctr) /\ x.pg = less /\ x.gp = e.gp /\ x.rt = e.rt
      /\ x.buf = e.buf /\ x.heard = e.heard
      /\ \E d : Addressed(d, msg, node) /\ (x.sent = e.sent \/ (x.sent = Append(e.sent, d) /\ can))
  <2>1. CASE ~ can
    <3>1. x = y
      BY <1>7, <2>1
    <3>2. \E d : Addressed(d, msg, node)
      BY <1>6, AddressedFacts, Zenon
    <3>3. QED
      BY <1>5, <3>1, <3>2 DEF Sound
  <2>2. CASE can
    <3>1. "tx_q_pg" \in TxKinds /\ Balanced(y.ctr)
      BY <1>5 DEF TxKinds, Sound
    <3>2. Transmits(x, y, msg, node)
      BY <1>5, <1>6, <1>7, <2>2, <3>1, SendFacts
    <3>3. QED
      BY <1>5, <2>2, <3>2 DEF Transmits, Grows
  <2>3. QED
    BY <2>1, <2>2
<1>9. PICK d : /\ Addressed(d, msg, node)
               /\ x.sent = e.sent \/ (x.sent = Append(e.sent, d) /\ can)
  BY <1>8
<1>10. /\ \A i : IsPing(d, i) => i = node.ip
       /\ \A k : ~ IsChase(d, k)
       /\ ~ HandsOut(d)
  BY <1>6, <1>9 DEF Addressed, IsPing, IsChase, HandsOut
<1>11. PingsPaid(e) /\ ChasesPaid(e) /\ SentSound(e) /\ IsSeq(e.sent)
  BY DEF Sound, SentSound
<1>12. Grows(x, e, d)
  BY <1>9 DEF Grows
<1>13. PingsPaid(x)
  BY <1>2, <1>8, <1>9, <1>10, <1>11, PaysPingsPaid DEF can
<1>14. ChasesPaid(x)
  BY <1>8, <1>10, <1>11, <1>12, KeepsChasesPaid
<1>15. SentSound(x)
  BY <1>8, <1>10, <1>11, <1>12, SentAppend
<1>16. TableSound(x, ip)
  BY <1>8 DEF Sound, TableSound
<1>17. QED
  BY <1>1, <1>8, <1>13, <1>14, <1>15, <1>16 DEF Sound

\* The calls of gpmap keep its cells.
LEMMA UnsetBuf ==
    ASSUME NEW b, IsBuf(b), NEW tok
    PROVE  IsBuf(unset_cell(b, tok))
<1> DEFINE cell == [b[tok] EXCEPT !.is_set = IF ~ @ THEN FALSE ELSE @]
<1>1. unset_cell(b, tok) = [b EXCEPT ![tok] = cell]
  BY DEF unset_cell
<1>2. tok \in Tok => "hop" \in DOMAIN cell /\ cell.hop = b[tok].hop
  BY DEF IsBuf
<1> HIDE DEF cell
<1>3. QED
  BY <1>1, <1>2 DEF IsBuf

LEMMA TakeBuf ==
    ASSUME NEW b, IsBuf(b), NEW rand
    PROVE  IsBuf(after_take_tok(b, now, rand))
  BY UnsetBuf DEF after_take_tok

LEMMA ClearBuf ==
    ASSUME NEW b, IsBuf(b), NEW tok, NEW checksum
    PROVE  IsBuf(clear_tok(b, tok, checksum))
  BY UnsetBuf DEF clear_tok

LEMMA RegisterBuf ==
    ASSUME NEW b, IsBuf(b), NEW checksum, NEW hash, NEW hop \in Nat, NEW tok, NEW t
    PROVE  IsBuf(registered(b, checksum, hash, hop, tok, t))
<1> DEFINE cell == [is_set |-> TRUE, ih |-> hash, checksum |-> checksum, hop |-> hop, last |-> t]
<1>1. registered(b, checksum, hash, hop, tok, t) \in {b, [b EXCEPT ![tok] = cell]}
  BY DEF registered
<1>2. "hop" \in DOMAIN cell /\ cell.hop \in Nat
  OBVIOUS
<1> HIDE DEF cell
<1>3. QED
  BY <1>1, <1>2 DEF IsBuf

\* x is e after a q_gp of hop was sent to dest, or dropped, and registered.
Pursued(x, e, dest, hash, hop) ==
    /\ IsState(x) /\ IsBuf(x.buf) /\ Balanced(x.ctr)
    /\ x.rt = e.rt /\ x.pg = e.pg /\ x.gp = e.gp /\ x.heard = e.heard
    /\ \E d : /\ d.kind = "q_gp" /\ d.contact = dest /\ d.hop = hop /\ d.ih = hash /\ d.to = dest
              /\ Grows(x, e, d)

LEMMA PursueFacts ==
    ASSUME NEW e, IsState(e), IsBuf(e.buf), Balanced(e.ctr), NEW dest, NEW hash, NEW hop \in Nat,
           NEW rand, NEW drop
    PROVE  Pursued(pursue(e, dest, hash, hop, rand, drop), e, dest, hash, hop)
<1>1. PICK x : x = pursue(e, dest, hash, hop, rand, drop)
  OBVIOUS
<1>2. PICK tok, msg : /\ tok = taken_tok(e.buf, now, rand)
                      /\ msg = [Msg("q_gp", dest, tok, hop) EXCEPT !.ih = hash]
  OBVIOUS
<1>3. PICK cells : cells = after_take_tok(e.buf, now, rand)
  OBVIOUS
<1>4. PICK y : y = [e EXCEPT !.buf = cells]
  OBVIOUS
<1>5. PICK z : z = send_msg(y, msg, dest, "tx_q_gp", drop)
  OBVIOUS
<1>6. PICK set : set = registered(z.buf, dest.nid.checksum, hash, hop, tok, now)
  OBVIOUS
<1>7. x = [z EXCEPT !.buf = set]
  BY <1>1, <1>2, <1>3, <1>4, <1>5, <1>6 DEF pursue
<1>8. /\ IsState(y) /\ y.buf = cells /\ y.pg = e.pg /\ y.gp = e.gp /\ y.rt = e.rt
      /\ y.ctr = e.ctr /\ y.sent = e.sent /\ y.heard = e.heard
  BY <1>4 DEF IsState
<1>9. IsMsg(msg) /\ msg.kind = "q_gp" /\ msg.contact = dest /\ msg.hop = hop /\ msg.ih = hash
  BY <1>2 DEF Msg, IsMsg
<1>10. Transmits(z, y, msg, dest)
  <2>1. "tx_q_gp" \in TxKinds /\ Balanced(y.ctr)
    BY <1>8 DEF TxKinds
  <2>2. QED
    BY <1>5, <1>8, <1>9, <2>1, SendFacts
<1>11. IsBuf(set)
  <2>1. IsBuf(cells) /\ z.buf = cells
    BY <1>3, <1>8, <1>10, TakeBuf DEF Transmits
  <2>2. QED
    BY <1>6, <2>1, RegisterBuf
<1>12. /\ IsState(x) /\ x.buf = set /\ x.pg = z.pg /\ x.gp = z.gp /\ x.rt = z.rt
       /\ x.ctr = z.ctr /\ x.sent = z.sent /\ x.heard = z.heard
  BY <1>7, <1>10 DEF Transmits, IsState
<1>13. PICK d : Addressed(d, msg, dest) /\ Grows(z, y, d)
  BY <1>10 DEF Transmits
<1>14. /\ d.kind = "q_gp" /\ d.contact = dest /\ d.hop = hop /\ d.ih = hash /\ d.to = dest
       /\ Grows(x, e, d)
  BY <1>8, <1>9, <1>12, <1>13 DEF Addressed, Grows
<1>15. /\ IsState(x) /\ IsBuf(x.buf) /\ Balanced(x.ctr)
       /\ x.rt = e.rt /\ x.pg = e.pg /\ x.gp = e.gp /\ x.heard = e.heard
  BY <1>8, <1>10, <1>11, <1>12 DEF Transmits
<1>16. QED
  BY <1>1, <1>14, <1>15 DEF Pursued

\* The first query about an infohash goes to a node that the table gave.
LEMMA PursueSound ==
    ASSUME NEW e, NEW ip, Sound(e, ip), NEW dest \in e.heard \cup {NoContact}, NEW hash,
           NEW rand, NEW drop
    PROVE  /\ Sound(pursue(e, dest, hash, 0, rand, drop), ip)
           /\ pursue(e, dest, hash, 0, rand, drop).heard = e.heard
<1>1. PICK x : x = pursue(e, dest, hash, 0, rand, drop)
  OBVIOUS
<1>2. Pursued(x, e, dest, hash, 0)
  BY <1>1, PursueFacts DEF Sound
<1>3. PICK d : /\ d.kind = "q_gp" /\ d.contact = dest /\ d.hop = 0 /\ d.ih = hash /\ d.to = dest
               /\ Grows(x, e, d)
  BY <1>2 DEF Pursued
<1>4. (\A i : ~ IsPing(d, i)) /\ (\A k : ~ IsChase(d, k))
  BY <1>3 DEF IsPing, IsChase
<1>5. /\ IsState(x) /\ IsBuf(x.buf) /\ Balanced(x.ctr)
      /\ x.rt = e.rt /\ x.pg = e.pg /\ x.gp = e.gp /\ x.heard = e.heard
  BY <1>2 DEF Pursued
<1>6. PingsPaid(e) /\ ChasesPaid(e) /\ SentSound(e) /\ IsSeq(e.sent)
  BY DEF Sound, SentSound
<1>7. PingsPaid(x) /\ ChasesPaid(x)
  BY <1>3, <1>4, <1>5, <1>6, KeepsPingsPaid, KeepsChasesPaid
<1>8. SentSound(x)
  BY <1>3, <1>5, <1>6, SentAppend
<1>9. TableSound(x, ip)
  BY <1>5 DEF Sound, TableSound
<1>10. QED
  BY <1>1, <1>5, <1>7, <1>8, <1>9 DEF Sound

\* A next hop takes its price before it is looked for a token, and before it
\* is sent.
LEMMA NextHopSound ==
    ASSUME Types, NEW e, NEW ip, Sound(e, ip), NEW node, NEW hop, hop.ctr \in Nat,
           NEW rand, NEW drop
    PROVE  Sound(next_hop(e, node, hop, rand, drop), ip)
<1>1. PICK x : x = next_hop(e, node, hop, rand, drop)
  OBVIOUS
<1>2. PICK key : key = GPKEY[<<hop.ih, node.ip>>]
  OBVIOUS
<1>3. PICK less : less = Withdrawn(e.gp, key, GP.max, GP.withdraw)
  OBVIOUS
<1>4. PICK y : y = [e EXCEPT !.gp = less]
  OBVIOUS
<1>5. PICK z : z = [y EXCEPT !.stop = TRUE]
  OBVIOUS
<1> DEFINE can == CanWithdraw(e.gp, key, GP.withdraw)
           free == Reusable(e.buf, now) # {}
<1>6. /\ x = IF e.stop THEN e ELSE IF ~ can THEN y ELSE IF ~ free THEN z
             ELSE pursue(y, node, hop.ih, hop.ctr + 1, rand, drop)
  BY <1>1, <1>2, <1>3, <1>4, <1>5 DEF next_hop
<1> HIDE DEF can, free
<1>7. /\ IsState(y) /\ y.gp = less /\ y.pg = e.pg /\ y.rt = e.rt /\ y.buf = e.buf
      /\ y.ctr = e.ctr /\ y.sent = e.sent /\ y.heard = e.heard
  BY <1>4 DEF Sound, IsState
<1>8. /\ IsState(z) /\ z.gp = less /\ z.pg = e.pg /\ z.rt = e.rt /\ z.buf = e.buf
      /\ z.ctr = e.ctr /\ z.sent = e.sent /\ z.heard = e.heard
  BY <1>5, <1>7 DEF IsState
<1>9. CASE e.stop
  BY <1>1, <1>6, <1>9
<1>10. CASE ~ e.stop
  <2>1. PICK none : none = [kind |-> "none"]
    OBVIOUS
  <2>2. /\ IsState(x) /\ IsBuf(x.buf) /\ Balanced(x.ctr)
        /\ x.rt = e.rt /\ x.pg = e.pg /\ x.gp = less /\ x.heard = e.heard
        /\ \E d : /\ \A i : ~ IsPing(d, i)
                  /\ \A k : IsChase(d, k) => k = key
                  /\ ~ HandsOut(d)
                  /\ x.sent = e.sent \/ (x.sent = Append(e.sent, d) /\ can)
    <3>1. CASE ~ can \/ ~ free
      <4>1. x = y \/ x = z
        BY <1>6, <1>10, <3>1
      <4>2. (\A i : ~ IsPing(none, i)) /\ (\A k : ~ IsChase(none, k)) /\ ~ HandsOut(none)
        BY <2>1 DEF IsPing, IsChase, HandsOut
      <4>3. QED
        BY <1>7, <1>8, <4>1, <4>2 DEF Sound
    <3>2. CASE can /\ free
      <4>1. x = pursue(y, node, hop.ih, hop.ctr + 1, rand, drop)
        BY <1>6, <1>10, <3>2
      <4>2. Pursued(x, y, node, hop.ih, hop.ctr + 1)
        <5>1. hop.ctr + 1 \in Nat
          OBVIOUS
        <5>2. QED
          BY <1>7, <4>1, <5>1, PursueFacts DEF Sound
      <4>3. PICK d : /\ d.kind = "q_gp" /\ d.hop = hop.ctr + 1 /\ d.ih = hop.ih /\ d.to = node
                     /\ Grows(x, y, d)
        BY <4>2 DEF Pursued
      <4>4. (\A i : ~ IsPing(d, i)) /\ (\A k : IsChase(d, k) => k = key) /\ ~ HandsOut(d)
        BY <1>2, <4>3 DEF IsPing, IsChase, HandsOut
      <4>5. x.sent = e.sent \/ (x.sent = Append(e.sent, d) /\ can)
        BY <1>7, <3>2, <4>3 DEF Grows
      <4>6. QED
        BY <1>7, <4>2, <4>4, <4>5 DEF Pursued
    <3>3. QED
      BY <3>1, <3>2
  <2>3. PICK d : /\ \A i : ~ IsPing(d, i)
                 /\ \A k : IsChase(d, k) => k = key
                 /\ ~ HandsOut(d)
                 /\ x.sent = e.sent \/ (x.sent = Append(e.sent, d) /\ can)
    BY <2>2
  <2>4. PingsPaid(e) /\ ChasesPaid(e) /\ SentSound(e) /\ IsSeq(e.sent)
    BY DEF Sound, SentSound
  <2>5. Grows(x, e, d)
    BY <2>3 DEF Grows
  <2>6. ChasesPaid(x)
    BY <1>3, <2>2, <2>3, <2>4, PaysChasesPaid DEF can
  <2>7. PingsPaid(x)
    BY <2>2, <2>3, <2>4, <2>5, KeepsPingsPaid
  <2>8. SentSound(x)
    BY <2>2, <2>3, <2>4, <2>5, SentAppend
  <2>9. TableSound(x, ip)
    BY <2>2 DEF Sound, TableSound
  <2>10. QED
    BY <1>1, <2>2, <2>6, <2>7, <2>8, <2>9 DEF Sound
<1>11. QED
  BY <1>9, <1>10

-----------------------------------------------------------------------------
(* The two loops.                                                          *)

\* The values that the record takes in ping_sweep_nodes.
SweepSteps(f, n, e, peers, drop) ==
    f = [step \in 0..n |-> IF step = 0 THEN e ELSE ping_node(f[step - 1], peers[step], drop)]

LEMMA SweepRuns ==
    ASSUME NEW n \in Nat, NEW e, NEW peers, NEW drop
    PROVE  \E f : SweepSteps(f, n, e, peers, drop)
<1> USE DEF SweepSteps
<1> DEFINE Runs(m, f) == SweepSteps(f, m, e, peers, drop)
           Bad == {m \in 0..n : ~ \E f : Runs(m, f)}
<1>1. CASE Bad = {}
  <2>1. n \in 0..n /\ n \notin Bad
    <3> HIDE DEF Bad
    <3>1. QED
      BY <1>1
  <2>2. QED
    BY <2>1
<1>2. CASE Bad # {}
  <2>1. PICK m \in Bad : \A k \in Bad : m <= k
    <3>1. Bad \subseteq Nat
      OBVIOUS
    <3> HIDE DEF Bad
    <3>2. QED
      BY <1>2, <3>1, MinIsLeast
  <2>2. m \in 0..n /\ ~ \E f : Runs(m, f)
    OBVIOUS
  <2>3. m # 0
    <3>1. Runs(0, [step \in 0..0 |-> e])
      OBVIOUS
    <3>2. QED
      BY <2>2, <3>1
  <2>4. PICK f : Runs(m - 1, f)
    <3>1. m - 1 \in 0..n /\ ~ (m <= m - 1)
      BY <2>2, <2>3
    <3>2. m - 1 \notin Bad
      <4> HIDE DEF Bad
      <4>1. QED
        BY <2>1, <3>1
    <3>3. QED
      BY <3>1, <3>2
  <2>5. PICK last : last = ping_node(f[m - 1], peers[m], drop)
    OBVIOUS
  <2>6. PICK g : g = [step \in 0..m |-> IF step = m THEN last ELSE f[step]]
    OBVIOUS
  <2>7. Runs(m, g)
    BY <2>2, <2>3, <2>4, <2>5, <2>6
  <2>8. QED
    BY <2>2, <2>7
<1>3. QED
  BY <1>1, <1>2

LEMMA SweepSound ==
    ASSUME Types, NEW e, NEW ip, Sound(e, ip), NEW peers, Len(peers) \in Nat, NEW drop
    PROVE  Sound(ping_sweep_nodes(e, peers, drop), ip)
<1> DEFINE n == Len(peers)
           after == CHOOSE f : SweepSteps(f, n, e, peers, drop)
<1>1. ping_sweep_nodes(e, peers, drop) = after[n]
  BY DEF ping_sweep_nodes, SweepSteps
<1>2. n \in Nat
  OBVIOUS
<1> HIDE DEF n
<1>3. \E f : SweepSteps(f, n, e, peers, drop)
  BY <1>2, SweepRuns, Zenon
<1>4. SweepSteps(after, n, e, peers, drop)
  BY <1>3, Zenon
<1> HIDE DEF after
<1>5. after[0] = e /\ \A step \in 1..n : after[step] = ping_node(after[step - 1], peers[step], drop)
  BY <1>2, <1>4 DEF SweepSteps
<1> DEFINE Bad == {step \in 0..n : ~ Sound(after[step], ip)}
<1>6. CASE Bad = {}
  <2>1. n \in 0..n /\ n \notin Bad
    <3> HIDE DEF Bad
    <3>1. QED
      BY <1>2, <1>6
  <2>2. QED
    BY <1>1, <2>1
<1>7. CASE Bad # {}
  <2>1. PICK m \in Bad : \A k \in Bad : m <= k
    <3>1. Bad \subseteq Nat
      BY <1>2
    <3> HIDE DEF Bad
    <3>2. QED
      BY <1>7, <3>1, MinIsLeast
  <2>2. m \in 0..n /\ ~ Sound(after[m], ip)
    OBVIOUS
  <2>3. m # 0
    BY <1>5, <2>2
  <2>4. m - 1 \in 0..n /\ m \in 1..n /\ ~ (m <= m - 1)
    BY <1>2, <2>2, <2>3
  <2>5. m - 1 \notin Bad
    <3> HIDE DEF Bad
    <3>1. QED
      BY <2>1, <2>4
  <2>6. Sound(after[m - 1], ip)
    BY <2>4, <2>5
  <2>7. after[m] = ping_node(after[m - 1], peers[m], drop)
    BY <1>5, <2>4
  <2>8. QED
    BY <2>2, <2>6, <2>7, PingSound
<1>8. QED
  BY <1>6, <1>7

\* The values that it takes in the loop of the R_GP handler.
HopsSteps(f, n, e, picks, hop, rand, drop) ==
    f = [step \in 0..n |-> IF step = 0 THEN e ELSE next_hop(f[step - 1], picks[step], hop, rand[step], drop)]

LEMMA HopsRuns ==
    ASSUME NEW n \in Nat, NEW e, NEW picks, NEW hop, NEW rand, NEW drop
    PROVE  \E f : HopsSteps(f, n, e, picks, hop, rand, drop)
<1> USE DEF HopsSteps
<1> DEFINE Runs(m, f) == HopsSteps(f, m, e, picks, hop, rand, drop)
           Bad == {m \in 0..n : ~ \E f : Runs(m, f)}
<1>1. CASE Bad = {}
  <2>1. n \in 0..n /\ n \notin Bad
    <3> HIDE DEF Bad
    <3>1. QED
      BY <1>1
  <2>2. QED
    BY <2>1
<1>2. CASE Bad # {}
  <2>1. PICK m \in Bad : \A k \in Bad : m <= k
    <3>1. Bad \subseteq Nat
      OBVIOUS
    <3> HIDE DEF Bad
    <3>2. QED
      BY <1>2, <3>1, MinIsLeast
  <2>2. m \in 0..n /\ ~ \E f : Runs(m, f)
    OBVIOUS
  <2>3. m # 0
    <3>1. Runs(0, [step \in 0..0 |-> e])
      OBVIOUS
    <3>2. QED
      BY <2>2, <3>1
  <2>4. PICK f : Runs(m - 1, f)
    <3>1. m - 1 \in 0..n /\ ~ (m <= m - 1)
      BY <2>2, <2>3
    <3>2. m - 1 \notin Bad
      <4> HIDE DEF Bad
      <4>1. QED
        BY <2>1, <3>1
    <3>3. QED
      BY <3>1, <3>2
  <2>5. PICK last : last = next_hop(f[m - 1], picks[m], hop, rand[m], drop)
    OBVIOUS
  <2>6. PICK g : g = [step \in 0..m |-> IF step = m THEN last ELSE f[step]]
    OBVIOUS
  <2>7. Runs(m, g)
    BY <2>2, <2>3, <2>4, <2>5, <2>6
  <2>8. QED
    BY <2>2, <2>7
<1>3. QED
  BY <1>1, <1>2

LEMMA HopsSound ==
    ASSUME Types, NEW e, NEW ip, Sound(e, ip), NEW picks, Len(picks) \in Nat, NEW hop, NEW rand, NEW drop,
           hop.ctr \in Nat
    PROVE  Sound(next_hops(e, picks, hop, rand, drop), ip)
<1> DEFINE n == Len(picks)
           after == CHOOSE f : HopsSteps(f, n, e, picks, hop, rand, drop)
<1>1. next_hops(e, picks, hop, rand, drop) = after[n]
  BY DEF next_hops, HopsSteps
<1>2. n \in Nat
  OBVIOUS
<1> HIDE DEF n
<1>3. \E f : HopsSteps(f, n, e, picks, hop, rand, drop)
  BY <1>2, HopsRuns, Zenon
<1>4. HopsSteps(after, n, e, picks, hop, rand, drop)
  BY <1>3, Zenon
<1> HIDE DEF after
<1>5. /\ after[0] = e
      /\ \A step \in 1..n : after[step] = next_hop(after[step - 1], picks[step], hop, rand[step], drop)
  BY <1>2, <1>4 DEF HopsSteps
<1> DEFINE Bad == {step \in 0..n : ~ Sound(after[step], ip)}
<1>6. CASE Bad = {}
  <2>1. n \in 0..n /\ n \notin Bad
    <3> HIDE DEF Bad
    <3>1. QED
      BY <1>2, <1>6
  <2>2. QED
    BY <1>1, <2>1
<1>7. CASE Bad # {}
  <2>1. PICK m \in Bad : \A k \in Bad : m <= k
    <3>1. Bad \subseteq Nat
      BY <1>2
    <3> HIDE DEF Bad
    <3>2. QED
      BY <1>7, <3>1, MinIsLeast
  <2>2. m \in 0..n /\ ~ Sound(after[m], ip)
    OBVIOUS
  <2>3. m # 0
    BY <1>5, <2>2
  <2>4. m - 1 \in 0..n /\ m \in 1..n /\ ~ (m <= m - 1)
    BY <1>2, <2>2, <2>3
  <2>5. m - 1 \notin Bad
    <3> HIDE DEF Bad
    <3>1. QED
      BY <2>1, <2>4
  <2>6. Sound(after[m - 1], ip)
    BY <2>4, <2>5
  <2>7. after[m] = next_hop(after[m - 1], picks[m], hop, rand[m], drop)
    BY <1>5, <2>4
  <2>8. QED
    BY <2>2, <2>6, <2>7, NextHopSound
<1>8. QED
  BY <1>6, <1>7

-----------------------------------------------------------------------------
(* The cases of handle_msg.                                                *)

LEMMA RxFacts ==
    ASSUME NEW m \in Rx
    PROVE  /\ m.method \in {"q_pg", "q_fn", "q_gp", "q_ap", "r_pg", "r_fn", "r_gp"}
           /\ m.from \in Peer /\ m.from.ip \in Ip /\ Len(m.nodes) \in Nat
           /\ m.target.cell \in Cells
           /\ m.method = "r_gp" => m.tok \in Tok
<1>1. /\ m.method \in Queries \cup Replies /\ m.from \in Peer /\ m.nodes \in Seq(Peer)
      /\ m.target.cell \in Cells /\ (m.method = "r_gp" => m.tok \in Tok)
  BY ServerAssumption
<1>2. QED
  BY <1>1 DEF Queries, Replies, Ip

LEMMA StartsAreNat ==
    ASSUME NEW m, m.method \in {"q_fn", "q_gp"}, NEW start \in StartsOf(m)
    PROVE  start[1] \in Nat /\ start[2] \in Nat
<1>1. start \in [1..2 -> Starts]
  BY DEF StartsOf
<1>2. Starts \subseteq Nat
  BY DEF Starts
<1>3. 1 \in 1..2 /\ 2 \in 1..2
  OBVIOUS
<1>4. start[1] \in Starts /\ start[2] \in Starts
  BY <1>1, <1>3, Zenon
<1>5. QED
  BY <1>2, <1>4, Zenon

LEMMA MsgFacts ==
    ASSUME NEW kind, NEW contact, NEW tok, NEW hop
    PROVE  LET msg == Msg(kind, contact, tok, hop)
           IN  IsMsg(msg) /\ msg.kind = kind /\ msg.contact = contact /\ msg.hop = hop
  BY DEF Msg, IsMsg

\* A reply without a contact.
LEMMA PlainSound ==
    ASSUME NEW e, NEW ip, Sound(e, ip), NEW kind \in {"r_pg", "q_fn"}, NEW contact, NEW tok,
           NEW dest, NEW acct \in TxKinds, NEW drop
    PROVE  Sound(send_msg(e, Msg(kind, contact, tok, 0), dest, acct, drop), ip)
<1> DEFINE msg == Msg(kind, contact, tok, 0)
<1>1. IsMsg(msg) /\ msg.kind = kind
  BY MsgFacts
<1> HIDE DEF msg
<1>2. msg.kind # "q_pg" /\ msg.kind # "q_gp" /\ ~ HandsOut(msg)
  BY <1>1 DEF HandsOut
<1>3. QED
  BY <1>1, <1>2, SendSound DEF msg

\* A reply with a contact that was heard.
LEMMA ContactSound ==
    ASSUME NEW e, NEW ip, Sound(e, ip), NEW kind \in {"r_fn", "r_gp"},
           NEW contact \in e.heard \cup {NoContact}, NEW tok,
           NEW dest, NEW acct \in TxKinds, NEW drop
    PROVE  Sound(send_msg(e, Msg(kind, contact, tok, 0), dest, acct, drop), ip)
<1> DEFINE msg == Msg(kind, contact, tok, 0)
<1>1. IsMsg(msg) /\ msg.kind = kind /\ msg.contact = contact
  BY MsgFacts
<1> HIDE DEF msg
<1>2. msg.kind # "q_pg" /\ msg.kind # "q_gp"
  BY <1>1
<1>3. QED
  BY <1>1, <1>2, SendSound DEF msg

LEMMA ClearSound ==
    ASSUME NEW e, NEW ip, Sound(e, ip), NEW tok, NEW sum
    PROVE  Sound([e EXCEPT !.buf = clear_tok(@, tok, sum)], ip)
<1>1. PICK cells : cells = clear_tok(e.buf, tok, sum)
  OBVIOUS
<1>x. PICK x : x = [e EXCEPT !.buf = clear_tok(@, tok, sum)]
  OBVIOUS
<1>2. x = [e EXCEPT !.buf = cells]
  BY <1>1, <1>x
<1>3. /\ IsState(x) /\ x.buf = cells /\ x.pg = e.pg /\ x.gp = e.gp /\ x.rt = e.rt
      /\ x.ctr = e.ctr /\ x.sent = e.sent /\ x.heard = e.heard
  BY <1>2 DEF Sound, IsState
<1>4. IsBuf(cells)
  BY <1>1, ClearBuf DEF Sound
<1>5. Sound(x, ip)
  BY <1>3, <1>4 DEF Sound, TableSound, SentSound, PingsPaid, ChasesPaid
<1>6. QED
  BY <1>x, <1>5, Zenon

LEMMA QPgSound ==
    ASSUME NEW m \in Rx, NEW e, Sound(e, m.from.ip), NEW drop
    PROVE  Sound(HandleQPg(e, m, drop), m.from.ip)
<1>1. m.from \in Peer /\ "tx_r_pg" \in TxKinds
  BY RxFacts DEF TxKinds
<1>2. Sound(send_msg(e, Msg("r_pg", m.from, m.tok, 0), m.from, "tx_r_pg", drop), m.from.ip)
  BY <1>1, PlainSound
<1>3. QED
  BY <1>1, <1>2, InsertSound DEF HandleQPg

LEMMA QFnSound ==
    ASSUME NEW m \in Rx, NEW e, Sound(e, m.from.ip), NEW drop, m.method = "q_fn",
           NEW start \in StartsOf(m)
    PROVE  Sound(HandleQFn(e, m, drop, start), m.from.ip)
<1>1. m.from \in Peer /\ "tx_r_fn" \in TxKinds
  BY RxFacts DEF TxKinds
<1>2. PICK payload : payload = neighbor_contact(e.rt, m.target, start[1])
  OBVIOUS
<1>3. payload \in e.heard \cup {NoContact}
  <2>1. AllHeard(e.rt, e.heard)
    BY DEF Sound, TableSound
  <2>2. start[1] \in Nat /\ m.target.cell \in Cells
    BY RxFacts, StartsAreNat
  <2>3. QED
    BY <1>2, <2>1, <2>2, NeighborFacts
<1>4. Sound(send_msg(e, Msg("r_fn", payload, m.tok, 0), m.from, "tx_r_fn", drop), m.from.ip)
  BY <1>1, <1>3, ContactSound
<1>5. QED
  BY <1>1, <1>2, <1>4, InsertSound DEF HandleQFn

LEMMA QGpSound ==
    ASSUME NEW m \in Rx, NEW e, Sound(e, m.from.ip), NEW drop, m.method = "q_gp",
           NEW start \in StartsOf(m), NEW rand
    PROVE  Sound(HandleQGp(e, m, drop, start, rand), m.from.ip)
<1>1. m.from \in Peer /\ "tx_r_gp" \in TxKinds
  BY RxFacts DEF TxKinds
<1> DEFINE pursued == Reusable(e.buf, now) # {}
<1>2. PICK near : near = neighbor_contact(e.rt, m.target, start[1])
  OBVIOUS
<1>3. PICK neig : neig = IF pursued /\ near.nid.checksum = m.from.nid.checksum
                         THEN random_valid_node(e.rt, start[2]) ELSE near
  OBVIOUS
<1>4. PICK asked : asked = IF pursued THEN pursue(e, neig, m.target, 0, rand, drop) ELSE e
  OBVIOUS
<1>5. neig \in e.heard \cup {NoContact}
  <2>1. AllHeard(e.rt, e.heard)
    BY DEF Sound, TableSound
  <2>2. start[1] \in Nat /\ start[2] \in Nat /\ m.target.cell \in Cells
    BY RxFacts, StartsAreNat
  <2>3. near \in e.heard \cup {NoContact}
    BY <1>2, <2>1, <2>2, NeighborFacts
  <2>4. random_valid_node(e.rt, start[2]) \in e.heard \cup {NoContact}
    BY <2>1, <2>2, ScanFacts
  <2>5. QED
    BY <1>3, <2>3, <2>4
<1>6. Sound(asked, m.from.ip) /\ asked.heard = e.heard
  <2>1. CASE pursued
    <3>1. asked = pursue(e, neig, m.target, 0, rand, drop)
      BY <1>4, <2>1
    <3>2. QED
      BY <1>5, <3>1, PursueSound
  <2>2. CASE ~ pursued
    BY <1>4, <2>2
  <2>3. QED
    BY <2>1, <2>2
<1>7. Sound(send_msg(asked, Msg("r_gp", neig, m.tok, 0), m.from, "tx_r_gp", drop), m.from.ip)
  BY <1>1, <1>5, <1>6, ContactSound
<1>8. HandleQGp(e, m, drop, start, rand) =
          insert_contact(
              send_msg(asked, Msg("r_gp", neig, m.tok, 0), m.from, "tx_r_gp", drop), m.from)
  BY <1>2, <1>3, <1>4 DEF HandleQGp
<1>9. QED
  BY <1>1, <1>7, <1>8, InsertSound

\* find_best_hops returns a sequence.
LEMMA BestLen == ASSUME NEW peers, Len(peers) \in Nat, NEW dist
                 PROVE  Len(find_best_hops(peers, dist)) \in Nat
<1> DEFINE n == Min({MAX_GP_PNODES, Len(peers)})
<1>1. n \in Nat
  <2>1. {MAX_GP_PNODES, Len(peers)} \subseteq Nat
    BY HopsAssumption
  <2>2. QED
    BY <2>1, MinIsLeast
<1> HIDE DEF n
<1>2. ASSUME NEW picks PROVE Len(Pick(picks, peers)) \in Nat
  <2>1. PICK T : T = {peers[picks[dx].ix] : dx \in 1..n}
    OBVIOUS
  <2>2. Pick(picks, peers) = [dx \in 1..n |-> peers[picks[dx].ix]]
    BY DEF Pick, n
  <2>3. Pick(picks, peers) \in [1..n -> T]
    BY <2>1, <2>2
  <2>4. QED
    BY <1>1, <2>3
<1>3. QED
  BY <1>2 DEF find_best_hops

LEMMA RGpSound ==
    ASSUME Types, NEW m \in Rx, NEW e, Sound(e, m.from.ip), NEW drop, m.method = "r_gp", NEW rand
    PROVE  Sound(HandleRGp(e, m, drop, rand), m.from.ip)
<1>1. m.from \in Peer /\ m.tok \in Tok /\ Len(m.nodes) \in Nat
  BY RxFacts
<1>2. PICK sum : sum = m.from.nid.checksum
  OBVIOUS
<1>3. PICK valued : valued = IF m.values
                  THEN insert_contact([e EXCEPT !.buf = clear_tok(@, m.tok, sum)], m.from)
                  ELSE e
  OBVIOUS
<1>4. PICK swept : swept = ping_sweep_nodes(valued, m.nodes, drop)
  OBVIOUS
<1>5. PICK cell : cell = swept.buf[m.tok]
  OBVIOUS
<1>6. PICK picks : picks = find_best_hops(m.nodes, [c \in Peer |-> DKAD[cell.ih][c.nid]])
  OBVIOUS
<1>7. PICK begin : begin = [swept EXCEPT !.buf = clear_tok(@, m.tok, sum)]
  OBVIOUS
<1>8. PICK hop : hop = [ih |-> cell.ih, ctr |-> cell.hop]
  OBVIOUS
<1>9. HandleRGp(e, m, drop, rand) = IF m.nodes = << >> THEN valued
                                    ELSE IF ~ lookup_tok(swept.buf, m.tok, sum) THEN swept
                                    ELSE next_hops(begin, picks, hop, rand, drop)
  BY <1>2, <1>3, <1>4, <1>5, <1>6, <1>7, <1>8, Zenon DEF HandleRGp
<1>10. Sound(valued, m.from.ip)
  <2>1. Sound([e EXCEPT !.buf = clear_tok(@, m.tok, sum)], m.from.ip)
    BY ClearSound
  <2>2. Sound(insert_contact([e EXCEPT !.buf = clear_tok(@, m.tok, sum)], m.from), m.from.ip)
    BY <1>1, <2>1, InsertSound
  <2>3. QED
    BY <1>3, <2>2
<1>11. Sound(swept, m.from.ip)
  BY <1>1, <1>4, <1>10, SweepSound
<1>12. Sound(begin, m.from.ip)
  BY <1>7, <1>11, ClearSound
<1>13. hop.ctr \in Nat
  BY <1>1, <1>5, <1>8, <1>11 DEF Sound, IsBuf
<1>14. Len(picks) \in Nat
  BY <1>1, <1>6, BestLen
<1>15. Sound(next_hops(begin, picks, hop, rand, drop), m.from.ip)
  BY <1>12, <1>13, <1>14, HopsSound
<1>16. QED
  BY <1>9, <1>10, <1>11, <1>15

LEMMA HandlerSound ==
    ASSUME Types, NEW m \in Rx, NEW e, Sound(e, m.from.ip), NEW drop, NEW start \in StartsOf(m),
           NEW rand
    PROVE  Sound(handle_msg(e, m, drop, start, rand), m.from.ip)
<1>1. m.from \in Peer /\ Len(m.nodes) \in Nat
  BY RxFacts
<1>2. CASE m.method = "q_pg"
  BY <1>2, QPgSound DEF handle_msg
<1>3. CASE m.method = "q_fn"
  BY <1>3, QFnSound DEF handle_msg
<1>4. CASE m.method = "q_gp"
  BY <1>4, QGpSound DEF handle_msg
<1>5. CASE m.method = "q_ap"
  <2>1. "tx_r_ap" \in TxKinds
    BY DEF TxKinds
  <2>2. Sound(HandleQAp(e, m, drop), m.from.ip)
    BY <2>1, PlainSound DEF HandleQAp
  <2>3. QED
    BY <1>5, <2>2 DEF handle_msg
<1>6. CASE m.method = "r_fn"
  BY <1>1, <1>6, SweepSound DEF handle_msg, HandleRFn
<1>7. CASE m.method = "r_gp"
  BY <1>7, RGpSound DEF handle_msg
<1>8. CASE m.method = "r_pg"
  BY <1>1, <1>8, InsertSound DEF handle_msg, HandleRPg
<1>9. QED
  BY <1>2, <1>3, <1>4, <1>5, <1>6, <1>7, <1>8, RxFacts

-----------------------------------------------------------------------------
(* From the record of a callback back to the variables.                    *)

\* The record with which a callback starts.
LEMMA NowSound ==
    ASSUME IInv, NEW ip
    PROVE  /\ Sound(Now, ip)
           /\ Now.rt = rt /\ Now.heard = heard
<1>1. PICK e : e = Now
  OBVIOUS
<1>2. /\ IsState(e) /\ e.rt = rt /\ e.buf = buf /\ e.pg = spam.pg /\ e.gp = spam.gp
      /\ e.ctr = ctr /\ e.sent = << >> /\ e.heard = heard
  BY <1>1 DEF Now, IsState
<1>3. TableSound(e, ip) /\ IsBuf(e.buf) /\ Balanced(e.ctr)
  BY <1>2 DEF IInv, Types, TableSound, Accounts, Balanced
<1>4. SentSound(e)
  <2>1. << >> \in Seq({}) /\ DOMAIN << >> = {}
    OBVIOUS
  <2>2. QED
    BY <1>2, <2>1 DEF SentSound, IsSeq
<1>5. (\A i : Pings(e.sent, i) = {}) /\ (\A k : Chases(e.sent, k) = {})
  BY <1>2 DEF Pings, Chases
<1>6. PingsPaid(e)
  <2>1. PG.max \in Nat /\ PG.withdraw \in Nat /\ spam.pg \in Maps(DOMAIN spam.pg, PG.max)
    BY SpamTables DEF SpamTable, IInv, Types
  <2>2. ASSUME NEW i
        PROVE  PG.withdraw * Cardinality(Pings(e.sent, i)) + Bucketed(e.pg, i, PG.max)
                  <= Bucketed(spam.pg, i, PG.max)
    <3>1. Cardinality(Pings(e.sent, i)) = 0
      BY <1>5, FS_EmptySet
    <3>2. Bucketed(spam.pg, i, PG.max) \in Nat /\ PG.withdraw * 0 = 0
      BY <2>1, BucketRange
    <3>3. QED
      BY <1>2, <3>1, <3>2
  <2>3. QED
    BY <1>2, <2>1, <2>2 DEF PingsPaid
<1>7. ChasesPaid(e)
  <2>1. GP.max \in Nat /\ GP.withdraw \in Nat /\ spam.gp \in Maps(DOMAIN spam.gp, GP.max)
    BY SpamTables DEF SpamTable, IInv, Types
  <2>2. ASSUME NEW k
        PROVE  GP.withdraw * Cardinality(Chases(e.sent, k)) + Bucketed(e.gp, k, GP.max)
                  <= Bucketed(spam.gp, k, GP.max)
    <3>1. Cardinality(Chases(e.sent, k)) = 0
      BY <1>5, FS_EmptySet
    <3>2. Bucketed(spam.gp, k, GP.max) \in Nat /\ GP.withdraw * 0 = 0
      BY <2>1, BucketRange
    <3>3. QED
      BY <1>2, <3>1, <3>2
  <2>3. QED
    BY <1>2, <2>1, <2>2 DEF ChasesPaid
<1>8. QED
  BY <1>1, <1>2, <1>3, <1>4, <1>6, <1>7 DEF Sound

\* What a callback adds to an account was in the bucket before.
LEMMA PaidWithin ==
    ASSUME NEW w \in Nat, NEW paid \in Nat, NEW n \in Nat, NEW left \in Nat, NEW had \in Nat,
           NEW bound \in Nat, w * n + left <= had, w * paid + had <= bound
    PROVE  w * (paid + n) + left <= bound
<1>1. w * (paid + n) = w * paid + w * n /\ w * paid \in Nat /\ w * n \in Nat
  OBVIOUS
<1>2. QED
  BY <1>1

\* The bound of a budget is a number.
LEMMA BoundIsNat ==
    ASSUME NEW table, SpamTable(table), epochs \in Nat
    PROVE  table.max + epochs * table.replenish \in Nat
  BY DEF SpamTable

\* What the shared state is after a sound callback.
LEMMA CommitFacts ==
    ASSUME IInv, NEW e, NEW ip, Sound(e, ip), NEW rx, Commit(e, rx), epochs' = epochs
    PROVE  /\ IsTable(rt') /\ IsBuf(buf') /\ IsSeq(sent')
           /\ rt' = e.rt
           /\ spam' = [rx |-> rx, pg |-> e.pg, gp |-> e.gp]
           /\ spam'.pg \in Maps(DOMAIN spam'.pg, PG.max)
           /\ spam'.gp \in Maps(DOMAIN spam'.gp, GP.max)
           /\ ctr' \in [Stats -> Nat] /\ pinged' \in [Ip -> Nat] /\ chased' \in [Key -> Nat]
           /\ AllHeard(rt', heard')
           /\ \A i \in Ip : WithinBudget(PG, pinged[i], spam.pg, i)'
           /\ \A k \in Key : WithinBudget(GP, chased[k], spam.gp, k)'
           /\ Accounts' /\ HandsOutHeard'
           /\ \A c \in Cells : rt'[c] = rt[c] \/ rt'[c].ip = ip
<1>1. /\ rt' = e.rt /\ buf' = e.buf /\ ctr' = e.ctr /\ sent' = e.sent /\ heard' = e.heard
      /\ spam' = [rx |-> rx, pg |-> e.pg, gp |-> e.gp]
  BY DEF Commit
<1>2. pinged' = [i \in Ip |-> pinged[i] + Cardinality(Pings(e.sent, i))]
  BY Zenon DEF Commit, Count, Pings, IsPing
<1>3. chased' = [k \in Key |-> chased[k] + Cardinality(Chases(e.sent, k))]
  BY Zenon DEF Commit, Count, Chases, IsChase
<1>4. /\ epochs \in Nat /\ pinged \in [Ip -> Nat] /\ chased \in [Key -> Nat]
      /\ spam.pg \in Maps(DOMAIN spam.pg, PG.max) /\ spam.gp \in Maps(DOMAIN spam.gp, GP.max)
  BY DEF IInv, Types
<1>5. IsSeq(e.sent) /\ PingsPaid(e) /\ ChasesPaid(e)
  BY DEF Sound, SentSound
<1>6. ASSUME NEW i \in Ip
      PROVE  pinged'[i] \in Nat /\ WithinBudget(PG, pinged[i], spam.pg, i)'
  <2> DEFINE n == Cardinality(Pings(e.sent, i))
             left == Bucketed(e.pg, i, PG.max)
             had == Bucketed(spam.pg, i, PG.max)
             bound == PG.max + epochs * PG.replenish
  <2>1. PG.withdraw \in Nat /\ PG.max \in Nat /\ bound \in Nat
    BY <1>4, SpamTables, BoundIsNat DEF SpamTable
  <2>2. n \in Nat /\ pinged'[i] = pinged[i] + n /\ pinged[i] \in Nat
    BY <1>2, <1>4, <1>5, PingsAppend
  <2>3. left \in Nat /\ had \in Nat
    BY <1>4, <1>5, <2>1, BucketRange DEF PingsPaid
  <2>4. PG.withdraw * n + left <= had
    BY <1>5 DEF PingsPaid
  <2>5. PG.withdraw * pinged[i] + had <= bound
    BY DEF IInv, Levels, WithinBudget
  <2>6. PG.withdraw * (pinged[i] + n) + left <= bound
    <3> HIDE DEF n, left, had, bound
    <3>1. QED
      BY <2>1, <2>2, <2>3, <2>4, <2>5, PaidWithin
  <2>7. spam'.pg = e.pg
    BY <1>1
  <2>8. QED
    BY <2>2, <2>6, <2>7 DEF WithinBudget
<1>7. ASSUME NEW k \in Key
      PROVE  chased'[k] \in Nat /\ WithinBudget(GP, chased[k], spam.gp, k)'
  <2> DEFINE n == Cardinality(Chases(e.sent, k))
             left == Bucketed(e.gp, k, GP.max)
             had == Bucketed(spam.gp, k, GP.max)
             bound == GP.max + epochs * GP.replenish
  <2>1. GP.withdraw \in Nat /\ GP.max \in Nat /\ bound \in Nat
    BY <1>4, SpamTables, BoundIsNat DEF SpamTable
  <2>2. n \in Nat /\ chased'[k] = chased[k] + n /\ chased[k] \in Nat
    BY <1>3, <1>4, <1>5, ChasesAppend
  <2>3. left \in Nat /\ had \in Nat
    BY <1>4, <1>5, <2>1, BucketRange DEF ChasesPaid
  <2>4. GP.withdraw * n + left <= had
    BY <1>5 DEF ChasesPaid
  <2>5. GP.withdraw * chased[k] + had <= bound
    BY DEF IInv, Levels, WithinBudget
  <2>6. GP.withdraw * (chased[k] + n) + left <= bound
    <3> HIDE DEF n, left, had, bound
    <3>1. QED
      BY <2>1, <2>2, <2>3, <2>4, <2>5, PaidWithin
  <2>7. spam'.gp = e.gp
    BY <1>1
  <2>8. QED
    BY <2>2, <2>6, <2>7 DEF WithinBudget
<1>8. pinged' \in [Ip -> Nat] /\ chased' \in [Key -> Nat]
  BY <1>2, <1>3, <1>6, <1>7
<1>9. /\ spam'.pg \in Maps(DOMAIN spam'.pg, PG.max)
      /\ spam'.gp \in Maps(DOMAIN spam'.gp, GP.max)
  BY <1>1, <1>5 DEF PingsPaid, ChasesPaid
<1>10. ctr' \in [Stats -> Nat] /\ Accounts'
  BY <1>1 DEF Sound, Balanced, Accounts
<1>11. IsSeq(sent') /\ HandsOutHeard'
  BY <1>1 DEF Sound, SentSound, HandsOutHeard, HandsOut
<1>12. /\ IsTable(rt') /\ IsBuf(buf') /\ AllHeard(rt', heard')
       /\ \A c \in Cells : rt'[c] = rt[c] \/ rt'[c].ip = ip
  BY <1>1 DEF Sound, TableSound
<1>13. QED
  BY <1>1, <1>6, <1>7, <1>8, <1>9, <1>10, <1>11, <1>12

-----------------------------------------------------------------------------
(* The initial states.                                                     *)

\* Nothing was stored or paid for: every bucket is full.
LEMMA EmptyFacts ==
    ASSUME NEW table, SpamTable(table)
    PROVE  /\ EmptyMap \in Maps(DOMAIN EmptyMap, table.max)
           /\ \A k : table.withdraw * 0 + Bucketed(EmptyMap, k, table.max)
                        <= table.max + 0 * table.replenish
<1>1. table.max \in Nat /\ table.withdraw \in Nat /\ table.replenish \in Nat
  BY DEF SpamTable
<1>2. DOMAIN EmptyMap = {} /\ EmptyMap \in [{} -> 0..(table.max - 1)]
  BY DEF EmptyMap
<1>3. EmptyMap \in Maps(DOMAIN EmptyMap, table.max)
  BY <1>2 DEF Maps
<1>4. \A k : Bucketed(EmptyMap, k, table.max) = table.max
  BY <1>2 DEF Bucketed
<1>5. QED
  BY <1>1, <1>3, <1>4

\* The unused map has a hop of 0 in every cell.
LEMMA EmptyBufFacts == IsBuf(EmptyBuf)
  BY DEF EmptyBuf, IsBuf

LEMMA InitHolds == Init => IInv
<1> SUFFICES ASSUME Init PROVE IInv
  OBVIOUS
<1>1. IsTable(rt) /\ IsBuf(buf) /\ IsSeq(sent)
  <2>1. << >> \in Seq({})
    OBVIOUS
  <2>2. QED
    BY <2>1, ServerAssumption, EmptyBufFacts DEF Init, IsTable, IsSeq
<1>2. /\ spam = [rx |-> spam.rx, pg |-> spam.pg, gp |-> spam.gp]
      /\ spam.rx = EmptyMap /\ spam.pg = EmptyMap /\ spam.gp = EmptyMap
  BY DEF Init
<1>3. /\ ctr \in [Stats -> Nat] /\ epochs \in Nat
      /\ handled \in [Ip -> Nat] /\ pinged \in [Ip -> Nat] /\ chased \in [Key -> Nat]
  BY DEF Init
<1>4. Types
  BY <1>1, <1>2, <1>3, SpamTables, EmptyFacts DEF Types
<1>5. AllHeard(rt, heard)
  BY DEF Init, AllHeard
<1>6. Levels
  <2>1. /\ \A i \in Ip : WithinBudget(RX, 0, EmptyMap, i)
        /\ \A i \in Ip : WithinBudget(PG, 0, EmptyMap, i)
        /\ \A k \in Key : WithinBudget(GP, 0, EmptyMap, k)
    BY SpamTables, EmptyFacts DEF Init, WithinBudget
  <2>2. /\ \A i \in Ip : handled[i] = 0 /\ pinged[i] = 0
        /\ \A k \in Key : chased[k] = 0
    BY DEF Init
  <2>3. QED
    BY <1>2, <2>1, <2>2 DEF Levels
<1>7. Accounts
  <2>1. \A s \in Stats : ctr[s] = 0
    BY DEF Init
  <2>2. QED
    BY <2>1 DEF Accounts, Stats, TxKinds, RxKinds
<1>8. FirstHand
  BY DEF Init, FirstHand
<1>9. HandsOutHeard
  <2>1. DOMAIN sent = {}
    BY DEF Init
  <2>2. QED
    BY <2>1 DEF HandsOutHeard
<1>10. QED
  BY <1>4, <1>5, <1>6, <1>7, <1>8, <1>9 DEF IInv

-----------------------------------------------------------------------------
(* The callbacks.                                                          *)

\* The sender's bucket, and its account, after the filter let a datagram in.
LEMMA AdmitFacts ==
    ASSUME IInv, NEW ip \in Ip, Admit(ip)
    PROVE  /\ Charged(ip) \in Maps(DOMAIN Charged(ip), RX.max)
           /\ handled' \in [Ip -> Nat] /\ handled'[ip] > 0
           /\ \A i \in Ip : handled'[i] >= handled[i]
           /\ \A i \in Ip : RX.withdraw * handled'[i] + Bucketed(Charged(ip), i, RX.max)
                               <= RX.max + epochs * RX.replenish
<1>1. PICK w : w = Charged(ip)
  OBVIOUS
<1>2. /\ handled \in [Ip -> Nat] /\ spam.rx \in Maps(DOMAIN spam.rx, RX.max) /\ epochs \in Nat
      /\ \A i \in Ip : WithinBudget(RX, handled[i], spam.rx, i)
  BY DEF IInv, Types, Levels
<1>3. handled' = [handled EXCEPT ![ip] = @ + 1] /\ CanWithdraw(spam.rx, ip, RX.withdraw)
  BY DEF Admit
<1>4. /\ handled' \in [Ip -> Nat] /\ handled'[ip] = handled[ip] + 1
      /\ \A i \in Ip \ {ip} : handled'[i] = handled[i]
  BY <1>2, <1>3
<1>5. /\ w \in Maps(DOMAIN w, RX.max)
      /\ \A k : Bucketed(w, k, RX.max) =
                   IF k = ip /\ CanWithdraw(spam.rx, ip, RX.withdraw)
                   THEN Bucketed(spam.rx, k, RX.max) - RX.withdraw
                   ELSE Bucketed(spam.rx, k, RX.max)
      /\ Bucketed(spam.rx, ip, RX.max) >= RX.withdraw
  <2>1. RX.max \in Nat /\ RX.withdraw \in 1..RX.max
    BY SpamTables DEF SpamTable
  <2>2. w = Withdrawn(spam.rx, ip, RX.max, RX.withdraw)
    BY <1>1 DEF Charged
  <2>3. QED
    BY <1>2, <1>3, <2>1, <2>2, WithdrawnFacts
<1>6. ASSUME NEW i \in Ip
      PROVE  RX.withdraw * handled'[i] + Bucketed(w, i, RX.max) <= RX.max + epochs * RX.replenish
  <2>1. CASE i # ip
    BY <1>2, <1>4, <1>5, <2>1 DEF WithinBudget
  <2>2. CASE i = ip
    <3> DEFINE left == Bucketed(w, ip, RX.max)
               had == Bucketed(spam.rx, ip, RX.max)
               bound == RX.max + epochs * RX.replenish
    <3>1. RX.withdraw \in Nat /\ RX.max \in Nat /\ bound \in Nat
      BY <1>2, SpamTables, BoundIsNat DEF SpamTable
    <3>2. left \in Nat /\ had \in Nat
      BY <1>2, <1>5, <3>1, BucketRange
    <3>3. left = had - RX.withdraw
      BY <1>3, <1>5
    <3>4. RX.withdraw * handled[ip] + had <= bound
      BY <1>2 DEF WithinBudget
    <3>5. handled[ip] \in Nat
      BY <1>2
    <3> HIDE DEF left, had, bound
    <3>6. RX.withdraw * 1 + left <= had
      BY <3>1, <3>2, <3>3
    <3>7. RX.withdraw * (handled[ip] + 1) + left <= bound
      BY <3>1, <3>2, <3>4, <3>5, <3>6, PaidWithin
    <3>8. QED
      BY <1>4, <2>2, <3>7 DEF left, bound
  <2>3. QED
    BY <2>1, <2>2
<1>7. handled'[ip] > 0 /\ \A i \in Ip : handled'[i] >= handled[i]
  BY <1>2, <1>4
<1>8. QED
  BY <1>1, <1>4, <1>5, <1>6, <1>7

\* A callback whose effects are sound, whose accounts of what was handled go
\* up, and that writes no cell unless a datagram of ip passed the filter.
LEMMA CallbackKeeps ==
    ASSUME IInv, NEW e, NEW ip, Sound(e, ip), NEW rx, Commit(e, rx), epochs' = epochs,
           rx \in Maps(DOMAIN rx, RX.max), handled' \in [Ip -> Nat],
           \A i \in Ip : handled'[i] >= handled[i],
           \A i \in Ip : RX.withdraw * handled'[i] + Bucketed(rx, i, RX.max)
                            <= RX.max + epochs * RX.replenish,
           e.rt = rt \/ (ip \in Ip /\ handled'[ip] > 0)
    PROVE  IInv'
<1>1. /\ IsTable(rt') /\ IsBuf(buf') /\ IsSeq(sent')
      /\ rt' = e.rt
      /\ spam' = [rx |-> rx, pg |-> e.pg, gp |-> e.gp]
      /\ spam'.pg \in Maps(DOMAIN spam'.pg, PG.max)
      /\ spam'.gp \in Maps(DOMAIN spam'.gp, GP.max)
      /\ ctr' \in [Stats -> Nat] /\ pinged' \in [Ip -> Nat] /\ chased' \in [Key -> Nat]
  BY CommitFacts
<1>2. /\ AllHeard(rt', heard')
      /\ \A i \in Ip : WithinBudget(PG, pinged[i], spam.pg, i)'
      /\ \A k \in Key : WithinBudget(GP, chased[k], spam.gp, k)'
      /\ Accounts' /\ HandsOutHeard'
  BY CommitFacts
<1>3. \A c \in Cells : rt'[c] = rt[c] \/ rt'[c].ip = ip
  BY CommitFacts
<1>4. epochs' \in Nat
  BY DEF IInv, Types
<1>5. spam'.rx = rx /\ spam' = [rx |-> spam'.rx, pg |-> spam'.pg, gp |-> spam'.gp]
  BY <1>1
<1>6. Types'
  BY <1>1, <1>4, <1>5 DEF Types
<1>7. Levels'
  BY <1>2, <1>5 DEF Levels, WithinBudget
<1>8. FirstHand'
  <2> SUFFICES ASSUME NEW c \in Cells, ~ is_empty(rt'[c])
               PROVE  \/ rt'[c].ip \in Ip /\ handled'[rt'[c].ip] > 0
                      \/ \E T \in Tables : rt'[c] = T[c]
    BY DEF FirstHand
  <2>1. CASE rt'[c] = rt[c]
    <3>1. \A i \in Ip : handled[i] > 0 => handled'[i] > 0
      <4>1. \A i \in Ip : handled[i] \in Nat /\ handled'[i] \in Nat
        BY DEF IInv, Types
      <4>2. QED
        BY <4>1
    <3>2. (rt[c].ip \in Ip /\ handled[rt[c].ip] > 0) \/ \E T \in Tables : rt[c] = T[c]
      BY <2>1 DEF IInv, FirstHand
    <3>3. QED
      BY <2>1, <3>1, <3>2
  <2>2. CASE rt'[c] # rt[c]
    BY <1>1, <1>3, <2>2
  <2>3. QED
    BY <2>1, <2>2
<1>9. QED
  BY <1>2, <1>6, <1>7, <1>8 DEF IInv

\* Every kind of message has its counter.
LEMMA RxStatKind ==
    ASSUME NEW method \in {"q_pg", "q_fn", "q_gp", "q_ap", "r_pg", "r_fn", "r_gp"}
    PROVE  RxStat(method) \in RxKinds
<1> DEFINE Pairs == {<<"q_pg", "rx_q_pg">>, <<"q_fn", "rx_q_fn">>, <<"q_gp", "rx_q_gp">>,
                     <<"q_ap", "rx_q_ap">>, <<"r_pg", "rx_r_pg">>, <<"r_fn", "rx_r_fn">>,
                     <<"r_gp", "rx_r_gp">>}
<1>1. PICK s \in RxKinds : <<method, s>> \in Pairs
  BY DEF RxKinds
<1>2. RxStat(method) = CHOOSE t \in RxKinds : <<method, t>> \in Pairs
  BY DEF RxStat
<1> HIDE DEF Pairs
<1>3. QED
  BY <1>1, <1>2

\* The state that cb_recv_msg hands to a handler: the datagram is counted.
LEMMA CountedSound ==
    ASSUME IInv, NEW ip, NEW kind \in RxKinds
    PROVE  Sound(Inc(Inc(Now, "rx_tot"), kind), ip)
<1>1. PICK e : e = Now
  OBVIOUS
<1>2. PICK y : y = Inc(e, "rx_tot")
  OBVIOUS
<1>3. PICK x : x = Inc(y, kind)
  OBVIOUS
<1>4. Sound(e, ip) /\ IsState(e) /\ Balanced(e.ctr)
  BY <1>1, NowSound DEF Sound
<1>5. /\ IsState(y) /\ y.ctr = [e.ctr EXCEPT !["rx_tot"] = @ + 1]
      /\ y.rt = e.rt /\ y.buf = e.buf /\ y.pg = e.pg /\ y.gp = e.gp
      /\ y.sent = e.sent /\ y.heard = e.heard
  BY <1>2, <1>4, IncFacts
<1>6. /\ IsState(x) /\ x.ctr = [y.ctr EXCEPT ![kind] = @ + 1]
      /\ x.rt = y.rt /\ x.buf = y.buf /\ x.pg = y.pg /\ x.gp = y.gp
      /\ x.sent = y.sent /\ x.heard = y.heard
  BY <1>3, <1>5, IncFacts
<1>7. Balanced(x.ctr)
  <2>1. x.ctr = [[e.ctr EXCEPT !["rx_tot"] = @ + 1] EXCEPT ![kind] = @ + 1]
    BY <1>5, <1>6
  <2>2. Balanced([[e.ctr EXCEPT !["rx_tot"] = @ + 1] EXCEPT ![kind] = @ + 1])
    BY <1>4, BalanceKept, Zenon
  <2>3. QED
    BY <2>1, <2>2, Zenon
<1>8. /\ x.rt = e.rt /\ x.buf = e.buf /\ x.pg = e.pg /\ x.gp = e.gp
      /\ x.sent = e.sent /\ x.heard = e.heard
  BY <1>5, <1>6
<1>9. Sound(x, ip)
  BY <1>4, <1>6, <1>7, <1>8 DEF Sound, TableSound, SentSound, PingsPaid, ChasesPaid
<1>10. QED
  BY <1>1, <1>2, <1>3, <1>9

LEMMA CbRecvMsgKeeps ==
    ASSUME IInv, NEW m \in Rx, NEW drop, NEW start \in StartsOf(m), NEW rand,
           CbRecvMsg(m, drop, start, rand)
    PROVE  IInv'
<1>1. PICK e0 : e0 = Inc(Inc(Now, "rx_tot"), RxStat(m.method))
  OBVIOUS
<1>2. PICK e : e = handle_msg(e0, m, drop, start, rand)
  OBVIOUS
<1>3. m.from.ip \in Ip /\ RxStat(m.method) \in RxKinds
  BY RxFacts, RxStatKind
<1>4. Sound(e0, m.from.ip)
  BY <1>1, <1>3, CountedSound
<1>5. Sound(e, m.from.ip)
  BY <1>2, <1>4, HandlerSound DEF IInv
<1>6. Admit(m.from.ip) /\ Commit(e, Charged(m.from.ip)) /\ epochs' = epochs
  BY <1>1, <1>2 DEF CbRecvMsg
<1>7. /\ Charged(m.from.ip) \in Maps(DOMAIN Charged(m.from.ip), RX.max)
      /\ handled' \in [Ip -> Nat] /\ handled'[m.from.ip] > 0
      /\ \A i \in Ip : handled'[i] >= handled[i]
      /\ \A i \in Ip : RX.withdraw * handled'[i] + Bucketed(Charged(m.from.ip), i, RX.max)
                          <= RX.max + epochs * RX.replenish
  BY <1>3, <1>6, AdmitFacts
<1>8. QED
  BY <1>3, <1>5, <1>6, <1>7, CallbackKeeps

LEMMA CbRecvBadParseKeeps ==
    ASSUME IInv, NEW ip \in Ip, CbRecvBadParse(ip)
    PROVE  IInv'
<1>1. Admit(ip) /\ Commit(Now, Charged(ip)) /\ epochs' = epochs
  BY DEF CbRecvBadParse
<1>2. Sound(Now, ip) /\ Now.rt = rt
  BY NowSound
<1>3. /\ Charged(ip) \in Maps(DOMAIN Charged(ip), RX.max)
      /\ handled' \in [Ip -> Nat]
      /\ \A i \in Ip : handled'[i] >= handled[i]
      /\ \A i \in Ip : RX.withdraw * handled'[i] + Bucketed(Charged(ip), i, RX.max)
                          <= RX.max + epochs * RX.replenish
  BY <1>1, AdmitFacts
<1>4. QED
  BY <1>1, <1>2, <1>3, CallbackKeeps

\* The invariant's part about the rx table.
LEMMA RxUnpaid ==
    ASSUME IInv
    PROVE  /\ spam.rx \in Maps(DOMAIN spam.rx, RX.max) /\ handled \in [Ip -> Nat]
           /\ \A i \in Ip : handled[i] >= handled[i]
           /\ \A i \in Ip : RX.withdraw * handled[i] + Bucketed(spam.rx, i, RX.max)
                               <= RX.max + epochs * RX.replenish
<1>1. /\ spam.rx \in Maps(DOMAIN spam.rx, RX.max) /\ handled \in [Ip -> Nat]
      /\ \A i \in Ip : WithinBudget(RX, handled[i], spam.rx, i)
  BY DEF IInv, Types, Levels
<1>2. QED
  BY <1>1 DEF WithinBudget

LEMMA CbRecvSpamKeeps ==
    ASSUME IInv, NEW ip \in Ip, CbRecvSpam(ip)
    PROVE  IInv'
<1>1. /\ ~ CanWithdraw(spam.rx, ip, RX.withdraw) /\ Commit(Now, Charged(ip))
      /\ epochs' = epochs /\ handled' = handled
  BY DEF CbRecvSpam
<1>2. Sound(Now, ip) /\ Now.rt = rt
  BY NowSound
<1>3. PICK w : w = Charged(ip)
  OBVIOUS
<1>4. w \in Maps(DOMAIN w, RX.max) /\ \A k : Bucketed(w, k, RX.max) = Bucketed(spam.rx, k, RX.max)
  <2>1. RX.max \in Nat /\ RX.withdraw \in 1..RX.max
    BY SpamTables DEF SpamTable
  <2>2. w = Withdrawn(spam.rx, ip, RX.max, RX.withdraw)
    BY <1>3 DEF Charged
  <2>3. QED
    BY <1>1, <2>1, <2>2, RxUnpaid, WithdrawnFacts
<1>5. /\ handled' \in [Ip -> Nat] /\ \A i \in Ip : handled'[i] >= handled[i]
      /\ \A i \in Ip : RX.withdraw * handled'[i] + Bucketed(w, i, RX.max)
                          <= RX.max + epochs * RX.replenish
  BY <1>1, <1>4, RxUnpaid
<1>6. Commit(Now, w)
  BY <1>1, <1>3
<1>7. QED
  BY <1>1, <1>2, <1>4, <1>5, <1>6, CallbackKeeps

LEMMA LoopBootstrapKeeps ==
    ASSUME IInv, NEW drop, LoopBootstrap(drop)
    PROVE  IInv'
<1>1. PICK e0 : e0 = Now
  OBVIOUS
<1>2. PICK msg : msg = Msg("q_fn", BOOTSTRAP, 0, 0)
  OBVIOUS
<1>3. PICK e : e = send_msg(e0, msg, BOOTSTRAP, "tx_q_fn", drop)
  OBVIOUS
<1>4. Commit(e, spam.rx) /\ epochs' = epochs /\ handled' = handled
  BY <1>1, <1>2, <1>3 DEF LoopBootstrap
<1>5. Sound(e0, 0) /\ e0.rt = rt
  BY <1>1, NowSound
<1>6. "tx_q_fn" \in TxKinds
  BY DEF TxKinds
<1>7. Sound(e, 0)
  BY <1>2, <1>3, <1>5, <1>6, PlainSound
<1>8. e.rt = rt
  <2>1. IsState(e0) /\ Balanced(e0.ctr) /\ IsMsg(msg)
    BY <1>2, <1>5, MsgFacts DEF Sound
  <2>2. Transmits(e, e0, msg, BOOTSTRAP)
    BY <1>3, <1>6, <2>1, SendFacts
  <2>3. QED
    BY <1>5, <2>2 DEF Transmits
<1>9. QED
  BY <1>4, <1>7, <1>8, RxUnpaid, CallbackKeeps

LEMMA RefillWithin ==
    ASSUME NEW table, SpamTable(table), NEW m, m \in Maps(DOMAIN m, table.max), NEW paid \in Nat,
           NEW k, epochs \in Nat, WithinBudget(table, paid, m, k),
           NEW r, r = Replenished(m, table.max, table.replenish)
    PROVE  table.withdraw * paid + Bucketed(r, k, table.max)
              <= table.max + (epochs + 1) * table.replenish
<1>1. table.max \in Nat /\ table.withdraw \in Nat /\ table.replenish \in Nat
  BY DEF SpamTable
<1> DEFINE cost == table.withdraw * paid
           refills == epochs * table.replenish
           left == Bucketed(r, k, table.max)
           had == Bucketed(m, k, table.max)
<1>2. cost \in Nat /\ refills \in Nat
  BY <1>1
<1>3. (epochs + 1) * table.replenish = refills + table.replenish
  <2>1. \A n, c \in Nat : (n + 1) * c = n * c + c
    OBVIOUS
  <2>2. QED
    BY <1>1, <2>1
<1>4. r \in Maps(DOMAIN r, table.max) /\ left <= had + table.replenish
  BY <1>1, ReplenishedFacts
<1>5. left \in Nat /\ had \in Nat
  BY <1>1, <1>4, BucketRange
<1>6. cost + had <= table.max + refills
  BY DEF WithinBudget
<1> HIDE DEF cost, refills, left, had
<1>7. cost + left <= table.max + (refills + table.replenish)
  BY <1>1, <1>2, <1>4, <1>5, <1>6
<1>8. QED
  BY <1>3, <1>7 DEF cost, left

LEMMA LoopStatgatherKeeps ==
    ASSUME IInv, LoopStatgather
    PROVE  IInv'
<1>1. /\ spam.rx \in Maps(DOMAIN spam.rx, RX.max) /\ spam.pg \in Maps(DOMAIN spam.pg, PG.max)
      /\ spam.gp \in Maps(DOMAIN spam.gp, GP.max) /\ epochs \in Nat
      /\ handled \in [Ip -> Nat] /\ pinged \in [Ip -> Nat] /\ chased \in [Key -> Nat]
  BY DEF IInv, Types
<1>2. /\ epochs' = epochs + 1 /\ sent' = << >>
      /\ spam' = [rx |-> Replenished(spam.rx, RX.max, RX.replenish),
                  pg |-> Replenished(spam.pg, PG.max, PG.replenish),
                  gp |-> Replenished(spam.gp, GP.max, GP.replenish)]
      /\ rt' = rt /\ buf' = buf /\ ctr' = ctr /\ heard' = heard
      /\ handled' = handled /\ pinged' = pinged /\ chased' = chased
  BY DEF LoopStatgather
<1>3. PICK rx : rx = Replenished(spam.rx, RX.max, RX.replenish)
  OBVIOUS
<1>4. PICK pg : pg = Replenished(spam.pg, PG.max, PG.replenish)
  OBVIOUS
<1>5. PICK gp : gp = Replenished(spam.gp, GP.max, GP.replenish)
  OBVIOUS
<1>6. /\ rx \in Maps(DOMAIN rx, RX.max) /\ pg \in Maps(DOMAIN pg, PG.max)
      /\ gp \in Maps(DOMAIN gp, GP.max)
  BY <1>1, <1>3, <1>4, <1>5, SpamTables, ReplenishedFacts DEF SpamTable
<1>7. spam' = [rx |-> rx, pg |-> pg, gp |-> gp]
  BY <1>2, <1>3, <1>4, <1>5
<1>8. Types'
  <2>1. << >> \in Seq({})
    OBVIOUS
  <2>2. IsSeq(sent') /\ epochs' \in Nat
    BY <1>1, <1>2, <2>1 DEF IsSeq
  <2>3. spam'.rx = rx /\ spam'.pg = pg /\ spam'.gp = gp
    BY <1>7
  <2>4. IsTable(rt') /\ IsBuf(buf') /\ ctr' \in [Stats -> Nat]
    BY <1>2 DEF IInv, Types
  <2>5. QED
    BY <1>1, <1>2, <1>6, <1>7, <2>2, <2>3, <2>4 DEF Types
<1>9. Levels'
  <2>1. ASSUME NEW i \in Ip PROVE WithinBudget(RX, handled[i], spam.rx, i)'
    <3>1. WithinBudget(RX, handled[i], spam.rx, i) /\ handled[i] \in Nat
      BY <1>1 DEF IInv, Levels
    <3>2. RX.withdraw * handled[i] + Bucketed(rx, i, RX.max) <= RX.max + (epochs + 1) * RX.replenish
      BY <1>1, <1>3, <3>1, SpamTables, RefillWithin
    <3>3. QED
      BY <1>2, <1>7, <3>2 DEF WithinBudget
  <2>2. ASSUME NEW i \in Ip PROVE WithinBudget(PG, pinged[i], spam.pg, i)'
    <3>1. WithinBudget(PG, pinged[i], spam.pg, i) /\ pinged[i] \in Nat
      BY <1>1 DEF IInv, Levels
    <3>2. PG.withdraw * pinged[i] + Bucketed(pg, i, PG.max) <= PG.max + (epochs + 1) * PG.replenish
      BY <1>1, <1>4, <3>1, SpamTables, RefillWithin
    <3>3. QED
      BY <1>2, <1>7, <3>2 DEF WithinBudget
  <2>3. ASSUME NEW k \in Key PROVE WithinBudget(GP, chased[k], spam.gp, k)'
    <3>1. WithinBudget(GP, chased[k], spam.gp, k) /\ chased[k] \in Nat
      BY <1>1 DEF IInv, Levels
    <3>2. GP.withdraw * chased[k] + Bucketed(gp, k, GP.max) <= GP.max + (epochs + 1) * GP.replenish
      BY <1>1, <1>5, <3>1, SpamTables, RefillWithin
    <3>3. QED
      BY <1>2, <1>7, <3>2 DEF WithinBudget
  <2>4. QED
    BY <2>1, <2>2, <2>3 DEF Levels
<1>10. AllHeard(rt, heard)' /\ Accounts' /\ FirstHand'
  BY <1>2 DEF IInv, AllHeard, Accounts, FirstHand
<1>11. HandsOutHeard'
  <2>1. DOMAIN sent' = {}
    BY <1>2
  <2>2. QED
    BY <2>1 DEF HandsOutHeard
<1>12. QED
  BY <1>8, <1>9, <1>10, <1>11 DEF IInv

\* A step that leaves all but the clock and the log of the callback alone.
LEMMA IdleKeeps ==
    ASSUME IInv, sent' = << >> \/ sent' = sent,
           UNCHANGED <<rt, buf, spam, ctr, heard, handled, pinged, chased, epochs>>
    PROVE  IInv'
<1>1. /\ rt' = rt /\ buf' = buf /\ spam' = spam /\ ctr' = ctr /\ heard' = heard
      /\ handled' = handled /\ pinged' = pinged /\ chased' = chased /\ epochs' = epochs
  OBVIOUS
<1>2. << >> \in Seq({}) /\ DOMAIN << >> = {}
  OBVIOUS
<1>3. IsSeq(sent')
  <2>1. IsSeq(sent)
    BY DEF IInv, Types
  <2>2. QED
    BY <1>2, <2>1 DEF IsSeq
<1>4. HandsOutHeard'
  <2>1. CASE sent' = << >>
    BY <1>2, <2>1 DEF HandsOutHeard
  <2>2. CASE sent' = sent
    BY <1>1, <2>2 DEF IInv, HandsOutHeard
  <2>3. QED
    BY <2>1, <2>2
<1>5. Types'
  BY <1>1, <1>3 DEF IInv, Types
<1>6. Levels'
  BY <1>1 DEF IInv, Levels, WithinBudget
<1>7. AllHeard(rt, heard)' /\ Accounts' /\ FirstHand'
  BY <1>1 DEF IInv, AllHeard, Accounts, FirstHand
<1>8. QED
  BY <1>4, <1>5, <1>6, <1>7 DEF IInv

LEMMA StepKeeps ==
    ASSUME IInv, [Next]_vars
    PROVE  IInv'
<1>1. CASE \E m \in Rx, drop \in Drops :
              \E start \in StartsOf(m), rand \in RandsOf(m) : CbRecvMsg(m, drop, start, rand)
  BY <1>1, CbRecvMsgKeeps
<1>2. CASE \E ip \in Ip : CbRecvBadParse(ip) \/ CbRecvSpam(ip)
  BY <1>2, CbRecvBadParseKeeps, CbRecvSpamKeeps
<1>3. CASE LoopStatgather
  BY <1>3, LoopStatgatherKeeps
<1>4. CASE \E drop \in Drops : LoopBootstrap(drop)
  BY <1>4, LoopBootstrapKeeps
<1>5. CASE Tick
  BY <1>5, IdleKeeps DEF Tick
<1>6. CASE UNCHANGED vars
  BY <1>6, IdleKeeps DEF vars
<1>7. QED
  BY <1>1, <1>2, <1>3, <1>4, <1>5, <1>6 DEF Next

-----------------------------------------------------------------------------
\* The inductive invariant: whatever callbacks run in whatever order, for any
\* contacts, messages, tables and spam tables, the shared state keeps its
\* types, the table holds what was announced and received at first hand, and
\* every bucket with what was paid from it stays within its refills.
THEOREM ServerInvariant == Spec => []IInv
<1>1. Init => IInv
  BY InitHolds
<1>2. IInv /\ [Next]_vars => IInv'
  BY StepKeeps
<1>3. QED
  BY <1>1, <1>2, PTL DEF Spec

\* The totals of stat.cpp are the sums of the counters by kind, after any
\* callback of main.cpp, whatever it sent, dropped or left by an early return.
THEOREM AccountsBalance == Spec => []Accounts
<1>1. IInv => Accounts
  BY DEF IInv
<1>2. QED
  BY <1>1, ServerInvariant, PTL

\* No address is pinged or handled, and no key chased, more often than the
\* spam filter's buckets and their refills allow, in a run of any length.
THEOREM BudgetsKept == Spec => []SpamBudgets
<1>1. IInv => SpamBudgets
  <2> SUFFICES ASSUME IInv PROVE SpamBudgets
    OBVIOUS
  <2>1. ASSUME NEW table, SpamTable(table), NEW m, m \in Maps(DOMAIN m, table.max),
               NEW paid \in Nat, NEW k, WithinBudget(table, paid, m, k)
        PROVE  table.withdraw * paid <= table.max + epochs * table.replenish
    <3> DEFINE cost == table.withdraw * paid
               bound == table.max + epochs * table.replenish
               left == Bucketed(m, k, table.max)
    <3>1. table.max \in Nat /\ table.withdraw \in Nat
      BY <2>1 DEF SpamTable
    <3>2. epochs \in Nat
      BY DEF IInv, Types
    <3>3. cost \in Nat
      BY <3>1
    <3>4. bound \in Nat
      BY <2>1, <3>2, BoundIsNat
    <3>5. left \in Nat
      BY <2>1, <3>1, BucketRange
    <3>6. cost + left <= bound
      BY <2>1 DEF WithinBudget
    <3> HIDE DEF cost, bound, left
    <3>7. cost <= bound
      BY <3>3, <3>4, <3>5, <3>6
    <3>8. QED
      BY <3>7 DEF cost, bound
  <2>2. /\ spam.rx \in Maps(DOMAIN spam.rx, RX.max) /\ spam.pg \in Maps(DOMAIN spam.pg, PG.max)
        /\ spam.gp \in Maps(DOMAIN spam.gp, GP.max)
        /\ handled \in [Ip -> Nat] /\ pinged \in [Ip -> Nat] /\ chased \in [Key -> Nat]
        /\ Levels
    BY DEF IInv, Types
  <2>3. \A i \in Ip : PG.withdraw * pinged[i] <= PG.max + epochs * PG.replenish
    BY <2>1, <2>2, SpamTables DEF Levels
  <2>4. \A i \in Ip : RX.withdraw * handled[i] <= RX.max + epochs * RX.replenish
    BY <2>1, <2>2, SpamTables DEF Levels
  <2>5. \A k \in Key : GP.withdraw * chased[k] <= GP.max + epochs * GP.replenish
    BY <2>1, <2>2, SpamTables DEF Levels
  <2>6. QED
    BY <2>3, <2>4, <2>5 DEF SpamBudgets
<1>2. QED
  BY <1>1, ServerInvariant, PTL

\* Only the handlers of a message store a contact, and only its sender's: no
\* address gets into the routing table by being named in a reply.
THEOREM TableIsFirstHand == Spec => []FirstHand
<1>1. IInv => FirstHand
  BY DEF IInv
<1>2. QED
  BY <1>1, ServerInvariant, PTL

\* What R_FN and R_GP carry and what a first Q_GP goes to was announced, with
\* its node id, address and port together.
THEOREM ContactsHandedOutWereHeard == Spec => []HandsOutHeard
<1>1. IInv => HandsOutHeard
  BY DEF IInv
<1>2. QED
  BY <1>1, ServerInvariant, PTL

-----------------------------------------------------------------------------
(* The choice of the next hops, one node at a time, as in BestHops.         *)

\* Of the nodes P at the distances d: those in front of node i, those no
\* farther than x, and the place of node i.
Before(P, d, i) == {k \in P : d[k] < d[i] \/ (d[k] = d[i] /\ k < i)}

Near(P, d, x) == {k \in P : d[k] <= x}

Ranked(P, d, i) == 1 + Cardinality(Before(P, d, i))

\* The place of a node of distance x behind those of P no farther.
Slot(P, d, x) == 1 + Cardinality(Near(P, d, x))

\* Finite sets of nodes with distances.
Measured(P, d) == IsFiniteSet(P) /\ \A k \in P : k \in Nat /\ d[k] \in Int

\* BestIsSorted for any set of nodes, and that no place is skipped.
Sorted(P, d, b) ==
    /\ \A i \in P : Ranked(P, d, i) <= MAX_GP_PNODES =>
           b[Ranked(P, d, i)] = [ix |-> i, dkad |-> d[i]]
    /\ \A j \in 1..MAX_GP_PNODES : j > Cardinality(P) => b[j] = NoBest[j]
    /\ \A j \in 1..Cardinality(P) : \E i \in P : Ranked(P, d, i) = j

LEMMA Counts ==
    ASSUME NEW P, NEW d, Measured(P, d)
    PROVE  /\ Cardinality(P) \in Nat
           /\ \A x : IsFiniteSet(Near(P, d, x)) /\ Cardinality(Near(P, d, x)) \in 0..Cardinality(P)
           /\ \A i : IsFiniteSet(Before(P, d, i)) /\ Ranked(P, d, i) \in Nat \ {0}
<1>1. IsFiniteSet(P) /\ Cardinality(P) \in Nat
  BY FS_CardinalityType DEF Measured
<1>2. ASSUME NEW T, T \subseteq P
      PROVE  IsFiniteSet(T) /\ Cardinality(T) \in 0..Cardinality(P)
  <2>1. IsFiniteSet(T) /\ Cardinality(T) <= Cardinality(P)
    BY <1>1, <1>2, FS_Subset
  <2>2. Cardinality(T) \in Nat
    BY <2>1, FS_CardinalityType
  <2>3. QED
    BY <1>1, <2>1, <2>2
<1>3. ASSUME NEW x
      PROVE  IsFiniteSet(Near(P, d, x)) /\ Cardinality(Near(P, d, x)) \in 0..Cardinality(P)
  <2>1. Near(P, d, x) \subseteq P
    BY Zenon DEF Near
  <2>2. QED
    BY <1>2, <2>1, Zenon
<1>4. ASSUME NEW i
      PROVE  IsFiniteSet(Before(P, d, i)) /\ Ranked(P, d, i) \in Nat \ {0}
  <2>1. Before(P, d, i) \subseteq P
    BY Zenon DEF Before
  <2>2. IsFiniteSet(Before(P, d, i)) /\ Cardinality(Before(P, d, i)) \in 0..Cardinality(P)
    BY <1>2, <2>1, Zenon
  <2>3. QED
    BY <1>1, <2>2 DEF Ranked
<1>5. QED
  BY <1>1, <1>3, <1>4

\* A node is placed among those no farther than x exactly when it is no
\* farther than x itself.
LEMMA RankNear ==
    ASSUME NEW P, NEW d, Measured(P, d), NEW i \in P, NEW x \in Int
    PROVE  /\ d[i] <= x => Ranked(P, d, i) <= Cardinality(Near(P, d, x))
           /\ d[i] > x => Ranked(P, d, i) > Cardinality(Near(P, d, x))
<1> DEFINE B == Before(P, d, i)
           N == Near(P, d, x)
<1>1. /\ IsFiniteSet(B) /\ Cardinality(B) \in Nat
      /\ IsFiniteSet(N) /\ Cardinality(N) \in Nat
  <2>1. IsFiniteSet(B) /\ IsFiniteSet(N)
    BY Counts
  <2>2. QED
    BY <2>1, FS_CardinalityType
<1>2. Ranked(P, d, i) = 1 + Cardinality(B)
  BY DEF Ranked
<1>3. \A k \in P : k \in Nat /\ d[k] \in Int
  BY DEF Measured
<1>4. CASE d[i] <= x
  <2>1. B \cup {i} \subseteq N
    BY <1>3, <1>4 DEF Before, Near
  <2>2. i \notin B
    BY <1>3 DEF Before
  <2> HIDE DEF B, N
  <2>3. IsFiniteSet(B \cup {i}) /\ Cardinality(B \cup {i}) = Cardinality(B) + 1
    BY <1>1, <2>2, FS_AddElement
  <2>4. Cardinality(B \cup {i}) <= Cardinality(N)
    BY <1>1, <2>1, FS_Subset
  <2>5. QED
    BY <1>1, <1>2, <1>3, <1>4, <2>3, <2>4 DEF B, N
<1>5. CASE d[i] > x
  <2>1. N \subseteq B
    BY <1>3, <1>5 DEF Before, Near
  <2> HIDE DEF B, N
  <2>2. Cardinality(N) <= Cardinality(B)
    BY <1>1, <2>1, FS_Subset
  <2>3. QED
    BY <1>1, <1>2, <1>3, <1>5, <2>2 DEF B, N
<1>6. QED
  BY <1>3, <1>4, <1>5

\* A later node comes behind those no farther than it, and moves those that
\* are farther by one place.
LEMMA RankAdd ==
    ASSUME NEW P, NEW d, Measured(P, d), NEW n \in Nat, n \notin P, d[n] \in Int,
           \A k \in P : k < n
    PROVE  /\ Measured(P \cup {n}, d)
           /\ Cardinality(P \cup {n}) = Cardinality(P) + 1
           /\ Ranked(P \cup {n}, d, n) = Slot(P, d, d[n])
           /\ \A i \in P : Ranked(P \cup {n}, d, i) =
                  IF d[i] <= d[n] THEN Ranked(P, d, i) ELSE Ranked(P, d, i) + 1
<1> DEFINE Q == P \cup {n}
<1>1. \A k \in P : k \in Nat /\ d[k] \in Int /\ k < n /\ k # n
  BY DEF Measured
<1>2. IsFiniteSet(P)
  BY DEF Measured
<1>3. Measured(Q, d) /\ Cardinality(Q) = Cardinality(P) + 1
  BY <1>1, <1>2, FS_AddElement DEF Measured
<1>4. Before(Q, d, n) = Near(P, d, d[n])
  BY <1>1 DEF Before, Near
<1>5. ASSUME NEW i \in P
      PROVE  Ranked(Q, d, i) = IF d[i] <= d[n] THEN Ranked(P, d, i) ELSE Ranked(P, d, i) + 1
  <2>1. CASE d[i] <= d[n]
    <3>1. Before(Q, d, i) = Before(P, d, i)
      BY <1>1, <2>1 DEF Before
    <3>2. QED
      BY <2>1, <3>1 DEF Ranked
  <2>2. CASE ~ (d[i] <= d[n])
    <3>1. Before(Q, d, i) = Before(P, d, i) \cup {n}
      BY <1>1, <2>2 DEF Before
    <3>2. n \notin Before(P, d, i)
      BY <1>1 DEF Before
    <3>3. IsFiniteSet(Before(P, d, i)) /\ Cardinality(Before(P, d, i)) \in Nat
      BY Counts, FS_CardinalityType
    <3>4. Cardinality(Before(Q, d, i)) = Cardinality(Before(P, d, i)) + 1
      BY <3>1, <3>2, <3>3, FS_AddElement
    <3>5. QED
      BY <2>2, <3>3, <3>4 DEF Ranked
  <2>3. QED
    BY <2>1, <2>2
<1>6. QED
  BY <1>3, <1>4, <1>5, Zenon DEF Ranked, Slot

\* Where the insertion of a node of distance x goes.
LEMMA WhereWorse ==
    ASSUME NEW P, NEW d, Measured(P, d), NEW b, Sorted(P, d, b),
           \A k \in P : d[k] < FAR, NEW x \in Int, NEW j \in 1..MAX_GP_PNODES
    PROVE  /\ b[j].dkad \in Int /\ b[j].dkad <= FAR
           /\ x < FAR => (x < b[j].dkad <=> j > Cardinality(Near(P, d, x)))
<1>1. FAR \in Int /\ j \in Int
  BY HopsAssumption DEF FAR
<1>2. Cardinality(P) \in Nat /\ Cardinality(Near(P, d, x)) \in 0..Cardinality(P)
  BY Counts
<1>3. CASE j > Cardinality(P)
  <2>1. b[j] = NoBest[j]
    BY <1>3 DEF Sorted
  <2>2. b[j].dkad = FAR
    BY <2>1 DEF NoBest
  <2>3. QED
    BY <1>1, <1>2, <1>3, <2>2
<1>4. CASE ~ (j > Cardinality(P))
  <2>1. j \in 1..Cardinality(P)
    BY <1>1, <1>2, <1>4
  <2>2. PICK i \in P : Ranked(P, d, i) = j
    BY <2>1 DEF Sorted
  <2>3. b[j] = [ix |-> i, dkad |-> d[i]]
    BY <2>2 DEF Sorted
  <2>4. b[j].dkad = d[i]
    BY <2>3
  <2>5. d[i] \in Int /\ d[i] < FAR
    BY DEF Measured
  <2>6. /\ d[i] <= x => j <= Cardinality(Near(P, d, x))
        /\ d[i] > x => j > Cardinality(Near(P, d, x))
    BY <2>2, RankNear
  <2>7. QED
    BY <1>1, <1>2, <2>4, <2>5, <2>6
<1>5. QED
  BY <1>3, <1>4

\* An implausible node changes nothing.
LEMMA PlaceSkips ==
    ASSUME NEW P, NEW d, Measured(P, d), NEW b, Sorted(P, d, b),
           \A k \in P : d[k] < FAR, NEW x \in Int, ~ (BULLSHIT_DKAD < x /\ x < FAR),
           NEW n
    PROVE  Place(b, n, x) = b
<1>1. BULLSHIT_DKAD \in Int /\ FAR \in Int
  BY HopsAssumption DEF FAR
<1>2. ASSUME NEW j \in 1..MAX_GP_PNODES
      PROVE  ~ (x < b[j].dkad /\ x > BULLSHIT_DKAD)
  <2>1. b[j].dkad \in Int /\ b[j].dkad <= FAR
    BY WhereWorse
  <2>2. QED
    BY <1>1, <2>1
<1>3. {j \in 1..MAX_GP_PNODES : x < b[j].dkad /\ x > BULLSHIT_DKAD} = {}
  BY <1>2, Zenon
<1>4. QED
  BY <1>3, Zenon DEF Place

\* The array after an insertion of node n in place r.
Placed(b, n, x, r, after) ==
    IF r > MAX_GP_PNODES THEN after = b
    ELSE \A j \in 1..MAX_GP_PNODES : after[j] =
             IF j < r THEN b[j]
             ELSE IF j = r THEN [ix |-> n, dkad |-> x] ELSE b[j - 1]

\* A plausible one goes to its place, and those behind it move on.
LEMMA PlaceAt ==
    ASSUME NEW P, NEW d, Measured(P, d), NEW b, Sorted(P, d, b),
           \A k \in P : d[k] < FAR,
           NEW x \in Int, BULLSHIT_DKAD < x, x < FAR, NEW n
    PROVE  Placed(b, n, x, Slot(P, d, x), Place(b, n, x))
<1>0. PICK r : r = Slot(P, d, x)
  OBVIOUS
<1> DEFINE worse == {j \in 1..MAX_GP_PNODES : x < b[j].dkad /\ x > BULLSHIT_DKAD}
<1>1. BULLSHIT_DKAD \in Int /\ FAR \in Int /\ MAX_GP_PNODES \in Nat
  BY HopsAssumption DEF FAR
<1>2. r \in Nat \ {0}
  BY <1>0, Counts DEF Slot
<1>3. ASSUME NEW j \in 1..MAX_GP_PNODES
      PROVE  j \in worse <=> j >= r
  <2>1. x < b[j].dkad <=> j > Cardinality(Near(P, d, x))
    BY WhereWorse
  <2>2. Cardinality(Near(P, d, x)) \in Int
    BY Counts
  <2>3. j > Cardinality(Near(P, d, x)) <=> j >= r
    BY <1>0, <2>2 DEF Slot
  <2>4. x > BULLSHIT_DKAD
    BY <1>1
  <2>5. QED
    BY <2>1, <2>3, <2>4, Zenon
<1>4. worse \subseteq 1..MAX_GP_PNODES
  OBVIOUS
<1>5. Place(b, n, x) =
        IF worse = {} THEN b
        ELSE [j \in 1..MAX_GP_PNODES |->
                IF j < Min(worse) THEN b[j]
                ELSE IF j = Min(worse) THEN [ix |-> n, dkad |-> x] ELSE b[j - 1]]
  BY Zenon DEF Place
<1> HIDE DEF worse
<1>6. CASE r > MAX_GP_PNODES
  <2>1. worse = {}
    BY <1>1, <1>2, <1>3, <1>4, <1>6
  <2>2. QED
    BY <1>0, <1>5, <1>6, <2>1, Zenon DEF Placed
<1>7. CASE ~ (r > MAX_GP_PNODES)
  <2>1. r \in 1..MAX_GP_PNODES
    BY <1>1, <1>2, <1>7
  <2>2. r \in worse
    BY <1>2, <1>3, <2>1
  <2>3. worse \subseteq Nat /\ worse # {}
    BY <1>1, <1>4, <2>2
  <2>4. Min(worse) \in worse /\ Min(worse) <= r
    BY <2>2, <2>3, MinIsLeast
  <2>5. Min(worse) = r
    <3>1. Min(worse) >= r
      BY <1>3, <1>4, <2>4
    <3>2. Min(worse) \in Nat
      BY <2>3, <2>4, Zenon
    <3>3. QED
      BY <1>2, <2>4, <3>1, <3>2
  <2>6. QED
    BY <1>0, <1>5, <1>7, <2>3, <2>5, Zenon DEF Placed
<1>8. QED
  BY <1>6, <1>7

\* So the nodes stay in order.
LEMMA PlaceSorts ==
    ASSUME NEW P, NEW d, Measured(P, d), NEW b, Sorted(P, d, b),
           \A k \in P : d[k] < FAR,
           NEW n \in Nat, n \notin P, \A k \in P : k < n,
           d[n] \in Int, BULLSHIT_DKAD < d[n], d[n] < FAR
    PROVE  Sorted(P \cup {n}, d, Place(b, n, d[n]))
<1> DEFINE Q == P \cup {n}
           after == Place(b, n, d[n])
<1>0. PICK r : r = Slot(P, d, d[n])
  OBVIOUS
<1>1. /\ Cardinality(Q) = Cardinality(P) + 1
      /\ Ranked(Q, d, n) = r
      /\ \A i \in P : Ranked(Q, d, i) =
             IF d[i] <= d[n] THEN Ranked(P, d, i) ELSE Ranked(P, d, i) + 1
  <2>1. /\ Cardinality(Q) = Cardinality(P) + 1
        /\ Ranked(Q, d, n) = Slot(P, d, d[n])
        /\ \A i \in P : Ranked(Q, d, i) =
               IF d[i] <= d[n] THEN Ranked(P, d, i) ELSE Ranked(P, d, i) + 1
    BY RankAdd
  <2>2. QED
    BY <1>0, <2>1, Zenon
<1>2. MAX_GP_PNODES \in Nat
  BY HopsAssumption
<1>3. Cardinality(P) \in Nat /\ r \in 1..(Cardinality(P) + 1)
  BY <1>0, Counts DEF Slot
<1>4. ASSUME NEW i \in P
      PROVE  /\ Ranked(P, d, i) \in Nat \ {0}
             /\ d[i] <= d[n] => Ranked(P, d, i) < r
             /\ ~ (d[i] <= d[n]) => Ranked(P, d, i) >= r
  <2>1. Ranked(P, d, i) \in Nat \ {0} /\ Cardinality(Near(P, d, d[n])) \in Int
    BY Counts
  <2>2. d[i] \in Int
    BY DEF Measured
  <2>3. QED
    BY <1>0, <2>1, <2>2, RankNear DEF Slot
<1>5. Placed(b, n, d[n], r, after)
  BY <1>0, PlaceAt
<1> HIDE DEF after, Q
<1>6. ASSUME NEW i \in Q, Ranked(Q, d, i) <= MAX_GP_PNODES
      PROVE  after[Ranked(Q, d, i)] = [ix |-> i, dkad |-> d[i]]
  <2>1. CASE i = n
    <3>1. r \in 1..MAX_GP_PNODES
      BY <1>1, <1>2, <1>3, <1>6, <2>1
    <3>2. ~ (r > MAX_GP_PNODES) /\ ~ (r < r)
      BY <1>2, <3>1
    <3>3. after[r] = [ix |-> n, dkad |-> d[n]]
      BY <1>5, <3>1, <3>2, Zenon DEF Placed
    <3>4. QED
      BY <1>1, <2>1, <3>3
  <2>2. CASE i \in P /\ d[i] <= d[n]
    <3> DEFINE j == Ranked(P, d, i)
    <3>1. Ranked(Q, d, i) = j
      BY <1>1, <2>2
    <3>2. j \in Nat \ {0} /\ j < r
      BY <1>4, <2>2
    <3> HIDE DEF j
    <3>3. j \in 1..MAX_GP_PNODES
      BY <1>2, <1>6, <3>1, <3>2
    <3>4. after[j] = b[j]
      BY <1>5, <3>2, <3>3, Zenon DEF Placed
    <3>5. b[j] = [ix |-> i, dkad |-> d[i]]
      BY <1>6, <2>2, <3>1 DEF Sorted, j
    <3>6. QED
      BY <3>1, <3>4, <3>5
  <2>3. CASE i \in P /\ ~ (d[i] <= d[n])
    <3> DEFINE j == Ranked(P, d, i)
    <3>1. Ranked(Q, d, i) = j + 1
      BY <1>1, <2>3
    <3>2. j \in Nat \ {0} /\ j >= r
      BY <1>4, <2>3
    <3> HIDE DEF j
    <3>3. j + 1 \in 1..MAX_GP_PNODES /\ j <= MAX_GP_PNODES
      BY <1>2, <1>6, <3>1, <3>2
    <3>4. ~ (r > MAX_GP_PNODES) /\ ~ (j + 1 < r) /\ j + 1 # r /\ (j + 1) - 1 = j
      BY <1>2, <1>3, <3>2, <3>3
    <3>5. after[j + 1] = b[j]
      BY <1>5, <3>3, <3>4, Zenon DEF Placed
    <3>6. b[j] = [ix |-> i, dkad |-> d[i]]
      BY <2>3, <3>3 DEF Sorted, j
    <3>7. QED
      BY <3>1, <3>5, <3>6
  <2>4. QED
    BY <2>1, <2>2, <2>3 DEF Q
<1>7. ASSUME NEW j \in 1..MAX_GP_PNODES, j > Cardinality(Q)
      PROVE  after[j] = NoBest[j]
  <2>1. j > r /\ j > Cardinality(P) /\ ~ (r > MAX_GP_PNODES) /\ ~ (j < r) /\ j # r
    BY <1>1, <1>2, <1>3, <1>7
  <2>2. j - 1 \in 1..MAX_GP_PNODES /\ j - 1 > Cardinality(P)
    BY <1>1, <1>2, <1>3, <1>7, <2>1
  <2>3. after[j] = b[j - 1]
    BY <1>5, <2>1, Zenon DEF Placed
  <2>4. b[j - 1] = NoBest[j - 1]
    BY <2>2, Zenon DEF Sorted
  <2>5. NoBest[j - 1] = NoBest[j]
    BY <2>2 DEF NoBest
  <2>6. QED
    BY <2>3, <2>4, <2>5
<1>8. ASSUME NEW j \in 1..Cardinality(Q)
      PROVE  \E i \in Q : Ranked(Q, d, i) = j
  <2>1. CASE j < r
    <3>1. j \in 1..Cardinality(P)
      BY <1>1, <1>3, <2>1
    <3>2. PICK i \in P : Ranked(P, d, i) = j
      BY <3>1 DEF Sorted
    <3>3. d[i] <= d[n]
      BY <1>3, <1>4, <2>1, <3>2
    <3>4. QED
      BY <1>1, <3>2, <3>3 DEF Q
  <2>2. CASE j = r
    BY <1>1, <2>2 DEF Q
  <2>3. CASE j > r
    <3>1. j - 1 \in 1..Cardinality(P) /\ j - 1 >= r
      BY <1>1, <1>3, <2>3
    <3>2. PICK i \in P : Ranked(P, d, i) = j - 1
      BY <3>1 DEF Sorted
    <3>3. ~ (d[i] <= d[n])
      BY <1>3, <1>4, <3>1, <3>2
    <3>4. Ranked(Q, d, i) = Ranked(P, d, i) + 1
      BY <1>1, <3>3
    <3>5. Ranked(Q, d, i) = j
      BY <3>2, <3>4
    <3>6. QED
      BY <3>5 DEF Q
  <2>4. QED
    BY <1>1, <1>3, <2>1, <2>2, <2>3
<1>9. Sorted(Q, d, after)
  BY <1>6, <1>7, <1>8 DEF Sorted
<1>10. QED
  BY <1>9 DEF Q, after

-----------------------------------------------------------------------------
(* The distance.                                                           *)

\* The greatest element of a non-empty set of numbers from 1 to n.
LEMMA MaxIsGreatest ==
    ASSUME NEW n \in Nat, NEW S, S \subseteq 1..n, S # {}
    PROVE  Max(S) \in S
<1> DEFINE T == {n - x : x \in S}
<1>1. T \subseteq Nat /\ T # {}
  <2>1. \A x \in S : n - x \in Nat
    OBVIOUS
  <2>2. QED
    BY <2>1, Zenon
<1>2. Min(T) \in T /\ \A y \in T : Min(T) <= y
  BY <1>1, MinIsLeast
<1>3. PICK x \in S : Min(T) = n - x
  BY <1>2
<1>4. \A y \in S : x >= y
  <2>1. ASSUME NEW y \in S PROVE x >= y
    <3>1. n - x <= n - y
      BY <1>2, <1>3
    <3>2. x \in Int /\ y \in Int
      OBVIOUS
    <3>3. QED
      BY <3>1, <3>2
  <2>2. QED
    BY <2>1
<1>5. QED
  BY <1>3, <1>4, Zenon DEF Max

\* Bytes that differ have a highest bit in which they differ.
LEMMA TabInRange ==
    ASSUME NEW x \in Byte, NEW y \in Byte, x # y
    PROVE  dkad_tab(Xor(x, y)) \in 1..BYTE_BITS
<1>1. Xor(x, y) \subseteq 1..BYTE_BITS /\ Xor(x, y) # {}
  BY Zenon DEF Xor, Byte, Bit
<1>2. BYTE_BITS \in Nat
  BY HopsAssumption
<1>3. Max(Xor(x, y)) \in 1..BYTE_BITS
  BY <1>1, <1>2, MaxIsGreatest
<1>4. QED
  BY <1>1, <1>3 DEF dkad_tab

\* The distance of hashes that differ first in byte i lies in a range of its
\* own.
LEMMA DkadRange ==
    ASSUME NEW x \in Nih, NEW y \in Nih
    PROVE  /\ Differ(x, y) = {} => dkad(x, y) = 0
           /\ Differ(x, y) # {} =>
                 /\ Min(Differ(x, y)) \in 1..NIH_LEN
                 /\ dkad(x, y) \in Int
                 /\ FAR - BYTE_BITS * Min(Differ(x, y)) <= dkad(x, y)
                 /\ dkad(x, y) < FAR - BYTE_BITS * (Min(Differ(x, y)) - 1)
<1>1. BYTE_BITS \in Nat \ {0} /\ NIH_LEN \in Nat \ {0} /\ FAR \in Int
  BY HopsAssumption DEF FAR
<1>2. CASE Differ(x, y) = {}
  BY <1>2 DEF dkad
<1>3. CASE Differ(x, y) # {}
  <2>1. Differ(x, y) \subseteq 1..NIH_LEN
    BY DEF Differ
  <2>2. Differ(x, y) \subseteq Nat
    BY <1>1, <2>1
  <2>3. PICK i : i = Min(Differ(x, y))
    OBVIOUS
  <2>4. i \in Differ(x, y)
    BY <1>3, <2>2, <2>3, MinIsLeast
  <2>5. i \in 1..NIH_LEN /\ x[i] # y[i]
    BY <2>4, Zenon DEF Differ
  <2>6. x[i] \in Byte /\ y[i] \in Byte
    BY <2>5 DEF Nih
  <2>7. PICK t : t = dkad_tab(Xor(x[i], y[i]))
    OBVIOUS
  <2>8. t \in 1..BYTE_BITS
    BY <2>5, <2>6, <2>7, TabInRange
  <2>9. dkad(x, y) = FAR - BYTE_BITS * (i - 1) - t
    BY <1>3, <2>3, <2>7, Zenon DEF dkad
  <2>10. BYTE_BITS * (i - 1) \in Int /\ BYTE_BITS * i = BYTE_BITS * (i - 1) + BYTE_BITS
    BY <1>1, <2>5
  <2>11. /\ dkad(x, y) \in Int
         /\ FAR - BYTE_BITS * i <= dkad(x, y)
         /\ dkad(x, y) < FAR - BYTE_BITS * (i - 1)
    BY <1>1, <2>8, <2>9, <2>10
  <2>12. QED
    BY <1>3, <2>3, <2>5, <2>11, Zenon
<1>4. QED
  BY <1>2, <1>3

\* A product with a larger number is no smaller.
LEMMA MoreTimes ==
    ASSUME NEW b \in Nat, NEW i \in Int, NEW j \in Int, i <= j
    PROVE  b * i \in Int /\ b * j \in Int /\ b * i <= b * j
<1>1. PICK k \in Nat : j = i + k
  OBVIOUS
<1>2. b * i \in Int /\ b * k \in Nat
  OBVIOUS
<1>3. b * j = b * i + b * k
  BY <1>1
<1>4. QED
  BY <1>2, <1>3

\* So distances are numbers, and a hash that agrees in more leading bytes is
\* nearer.
LEMMA DkadIsNat ==
    ASSUME NEW x \in Nih, NEW y \in Nih
    PROVE  dkad(x, y) \in Nat
<1>1. CASE Differ(x, y) = {}
  BY <1>1, DkadRange
<1>2. CASE Differ(x, y) # {}
  <2>1. PICK i : i = Min(Differ(x, y))
    OBVIOUS
  <2>2. i \in 1..NIH_LEN /\ dkad(x, y) \in Int /\ FAR - BYTE_BITS * i <= dkad(x, y)
    BY <1>2, <2>1, DkadRange
  <2>3. BYTE_BITS \in Nat /\ NIH_LEN \in Int /\ i \in Int /\ i <= NIH_LEN
    BY <2>2, HopsAssumption
  <2>4. BYTE_BITS * i <= FAR /\ BYTE_BITS * i \in Int /\ FAR \in Int
    BY <2>3, MoreTimes DEF FAR
  <2>5. QED
    BY <2>2, <2>4
<1>3. QED
  BY <1>1, <1>2

LEMMA DkadNearer ==
    ASSUME NEW z \in Nih, NEW x \in Nih, NEW y \in Nih,
           Differ(z, x) # {}, Differ(z, y) # {}, Min(Differ(z, x)) > Min(Differ(z, y))
    PROVE  dkad(z, x) < dkad(z, y)
<1>1. PICK i, j : i = Min(Differ(z, x)) /\ j = Min(Differ(z, y))
  OBVIOUS
<1>2. i \in 1..NIH_LEN /\ dkad(z, x) \in Int /\ dkad(z, x) < FAR - BYTE_BITS * (i - 1)
  BY <1>1, DkadRange
<1>3. j \in 1..NIH_LEN /\ dkad(z, y) \in Int /\ FAR - BYTE_BITS * j <= dkad(z, y)
  BY <1>1, DkadRange
<1>4. i > j
  BY <1>1
<1>5. BYTE_BITS \in Nat /\ FAR \in Int /\ NIH_LEN \in Int
  BY HopsAssumption DEF FAR
<1>6. j <= i - 1 /\ i - 1 \in Int /\ j \in Int
  BY <1>2, <1>3, <1>4, <1>5
<1>7. BYTE_BITS * j <= BYTE_BITS * (i - 1) /\ BYTE_BITS * j \in Int /\ BYTE_BITS * (i - 1) \in Int
  BY <1>5, <1>6, MoreTimes
<1>8. QED
  BY <1>2, <1>3, <1>5, <1>7

-----------------------------------------------------------------------------
(* The loop.                                                               *)

\* The distances of the reply's nodes, and the plausible ones so far.
Dist == [i \in 1..Len(nodes) |-> dkad(ih, nodes[i])]

Seen == {i \in 1..ix : BULLSHIT_DKAD < Dist[i] /\ Dist[i] < FAR}

HopTypes == ih \in Nih /\ nodes \in Seq(Nih) /\ ix \in 0..Len(nodes)

\* What find_best_hops returned is what it picked, after the last node.
OutPicked == out # << >> => out = Pick(best, nodes) /\ ix = Len(nodes)

HopInv == HopTypes /\ Sorted(Seen, Dist, best) /\ OutPicked

\* What the loop knows of the nodes that it has seen.
LEMMA SeenFacts ==
    ASSUME HopTypes
    PROVE  /\ Measured(Seen, Dist)
           /\ \A k \in Seen : Dist[k] < FAR
           /\ Len(nodes) \in Nat /\ ix \in 0..Len(nodes)
           /\ \A i \in 1..Len(nodes) :
                 /\ Dist[i] = dkad(ih, nodes[i]) /\ Dkad(i) = Dist[i]
                 /\ Dist[i] \in Nat /\ nodes[i] \in Nih
<1>1. Len(nodes) \in Nat /\ ix \in 0..Len(nodes)
  BY DEF HopTypes
<1>2. ASSUME NEW i \in 1..Len(nodes)
      PROVE  /\ Dist[i] = dkad(ih, nodes[i]) /\ Dkad(i) = Dist[i]
             /\ Dist[i] \in Nat /\ nodes[i] \in Nih
  <2>1. ih \in Nih /\ nodes[i] \in Nih
    BY DEF HopTypes
  <2>2. Dist[i] = dkad(ih, nodes[i])
    BY Zenon DEF Dist
  <2>3. Dkad(i) = Dist[i]
    BY <2>2, Zenon DEF Dkad
  <2>4. QED
    BY <2>1, <2>2, <2>3, DkadIsNat
<1>3. Seen \subseteq 1..ix /\ \A k \in Seen : Dist[k] < FAR
  BY Zenon DEF Seen
<1>4. IsFiniteSet(Seen)
  <2>1. IsFiniteSet(1..ix)
    BY <1>1, FS_Interval
  <2>2. QED
    BY <1>3, <2>1, FS_Subset
<1>5. \A k \in Seen : k \in Nat /\ Dist[k] \in Int
  BY <1>1, <1>2, <1>3
<1>6. QED
  BY <1>1, <1>2, <1>3, <1>4, <1>5, Zenon DEF Measured

\* Before the first node, nothing is placed.
LEMMA NothingSeen == ASSUME NEW d, NEW P, P = {} PROVE Sorted(P, d, NoBest)
<1>1. Cardinality(P) = 0
  BY FS_EmptySet
<1>2. \A j \in 1..Cardinality(P) : FALSE
  BY <1>1
<1>3. QED
  BY <1>2, Zenon DEF Sorted

LEMMA InitHop == HopsInit => HopInv
<1> SUFFICES ASSUME HopsInit PROVE HopInv
  OBVIOUS
<1>1. /\ ih \in Nih /\ nodes = << >> /\ ix = 0 /\ best = NoBest
      /\ out = << >>
  BY BestHopsAssumption DEF HopsInit
<1>2. Seen = {}
  BY <1>1 DEF Seen
<1>3. HopTypes
  BY <1>1 DEF HopTypes
<1>4. QED
  BY <1>1, <1>2, <1>3, NothingSeen, Zenon DEF HopInv, OutPicked

LEMMA NextHop == HopInv /\ [HopsNext]_hopsVars => HopInv'
<1> SUFFICES ASSUME HopInv, [HopsNext]_hopsVars
             PROVE  HopInv'
  OBVIOUS
<1> USE DEF HopInv
<1>1. ASSUME NEW h \in Target, NEW ns \in BoundedSeq(Node, MaxNodes), Call(h, ns)
      PROVE  HopInv'
  <2>1. /\ ih' = h /\ nodes' = ns /\ ix' = 0 /\ best' = NoBest
        /\ out' = << >>
    BY <1>1, Zenon DEF Call
  <2>2. h \in Nih /\ ns \in Seq(Nih)
    <3>1. ns \in Seq(Node)
      BY BestHopsAssumption DEF BoundedSeq, SeqOf
    <3>2. QED
      BY <3>1, BestHopsAssumption
  <2>3. Seen' = {}
    BY <2>1 DEF Seen
  <2>4. HopTypes'
    BY <2>1, <2>2 DEF HopTypes
  <2>5. Sorted(Seen', Dist', best')
    BY <2>1, <2>3, NothingSeen, Zenon
  <2>6. QED
    BY <2>1, <2>4, <2>5, Zenon DEF OutPicked, Sorted
<1>2. CASE Scan
  <2> DEFINE n == ix + 1
  <2>1. /\ ix < Len(nodes) /\ ix' = n
        /\ ih' = ih /\ nodes' = nodes /\ out' = out
        /\ best' = Place(best, n, Dkad(n))
    BY <1>2, Zenon DEF Scan
  <2>2. n \in 1..Len(nodes) /\ n \in Nat /\ ix \in Nat /\ ix # Len(nodes)
    BY <2>1 DEF HopTypes
  <2>3. HopTypes'
    BY <2>1, <2>2 DEF HopTypes
  <2>4. OutPicked'
    BY <2>1, <2>2 DEF OutPicked
  <2>5. Dist' = Dist
    BY <2>1, Zenon DEF Dist
  <2>6. Dist[n] \in Int /\ Dkad(n) = Dist[n]
    BY <2>2, SeenFacts
  <2>7. 1..ix' = (1..ix) \cup {n} /\ \A k \in Seen : k < n
    BY <2>1, <2>2 DEF Seen
  <2>8. n \notin Seen
    BY <2>2, <2>7
  <2> HIDE DEF n
  <2>9. CASE BULLSHIT_DKAD < Dist[n] /\ Dist[n] < FAR
    <3>1. Seen' = Seen \cup {n}
      BY <2>5, <2>7, <2>9, Zenon DEF Seen
    <3>2. Sorted(Seen \cup {n}, Dist, Place(best, n, Dist[n]))
      BY <2>2, <2>6, <2>7, <2>8, <2>9, SeenFacts, PlaceSorts
    <3>3. QED
      BY <2>1, <2>3, <2>4, <2>5, <2>6, <3>1, <3>2, Zenon DEF Sorted
  <2>10. CASE ~ (BULLSHIT_DKAD < Dist[n] /\ Dist[n] < FAR)
    <3>1. Seen' = Seen
      BY <2>5, <2>7, <2>10, Zenon DEF Seen
    <3>2. Place(best, n, Dist[n]) = best
      BY <2>6, <2>10, SeenFacts, PlaceSkips
    <3>3. QED
      BY <2>1, <2>3, <2>4, <2>5, <2>6, <3>1, <3>2, Zenon DEF Sorted
  <2>11. QED
    BY <2>9, <2>10
<1>3. CASE Return
  <2>1. /\ ix = Len(nodes) /\ out' = Pick(best, nodes)
        /\ ih' = ih /\ nodes' = nodes /\ ix' = ix /\ best' = best
    BY <1>3, Zenon DEF Return
  <2>2. Seen' = Seen /\ Dist' = Dist
    BY <2>1, Zenon DEF Seen, Dist
  <2>3. QED
    BY <2>1, <2>2, Zenon DEF HopTypes, OutPicked, Sorted
<1>4. CASE Done
  <2>1. /\ ih' = ih /\ nodes' = << >> /\ ix' = 0 /\ best' = NoBest
        /\ out' = << >>
    BY <1>4, Zenon DEF Done
  <2>2. Seen' = {}
    BY <2>1 DEF Seen
  <2>3. HopTypes'
    BY <2>1 DEF HopTypes
  <2>4. Sorted(Seen', Dist', best')
    BY <2>1, <2>2, NothingSeen, Zenon
  <2>5. QED
    BY <2>1, <2>3, <2>4, Zenon DEF OutPicked, Sorted
<1>5. CASE UNCHANGED hopsVars
  <2>1. /\ ih' = ih /\ nodes' = nodes /\ ix' = ix /\ best' = best
        /\ out' = out
    BY <1>5, Zenon DEF hopsVars
  <2>2. Seen' = Seen /\ Dist' = Dist
    BY <2>1, Zenon DEF Seen, Dist
  <2>3. QED
    BY <2>1, <2>2, Zenon DEF HopTypes, OutPicked, Sorted
<1>6. QED
  BY <1>1, <1>2, <1>3, <1>4, <1>5, Zenon DEF HopsNext

\* So it always holds.
LEMMA AlwaysHop == HopsSpec => []HopInv
  BY InitHop, NextHop, PTL DEF HopsSpec

-----------------------------------------------------------------------------
(* What follows.                                                           *)

LEMMA RankIs ==
    ASSUME HopTypes
    PROVE  /\ Plausible = Seen
           /\ \A i \in Seen : Rank(i) = Ranked(Seen, Dist, i)
<1>1. \A i \in 1..ix : Dkad(i) = Dist[i]
  BY SeenFacts
<1>2. Plausible = Seen
  BY <1>1, Zenon DEF Plausible, Seen
<1>3. Seen \subseteq 1..ix
  BY Zenon DEF Seen
<1>4. ASSUME NEW i \in Seen
      PROVE  Rank(i) = Ranked(Seen, Dist, i)
  <2>1. {k \in Seen : Dkad(k) < Dkad(i) \/ (Dkad(k) = Dkad(i) /\ k < i)}
          = Before(Seen, Dist, i)
    BY <1>1, <1>3, Zenon DEF Before
  <2>2. QED
    BY <1>2, <2>1, Zenon DEF Rank, Ranked
<1>5. QED
  BY <1>2, <1>4

LEMMA HopInvSorts == HopInv => BestIsSorted
<1> SUFFICES ASSUME HopInv PROVE BestIsSorted
  OBVIOUS
<1>1. HopTypes /\ Sorted(Seen, Dist, best)
  BY DEF HopInv
<1>2. \A i \in Seen : Dkad(i) = Dist[i]
  BY <1>1, SeenFacts DEF Seen
<1>3. ASSUME NEW i \in Seen, Rank(i) <= MAX_GP_PNODES
      PROVE  best[Rank(i)] = [ix |-> i, dkad |-> Dkad(i)]
  BY <1>1, <1>2, <1>3, RankIs DEF Sorted
<1>4. QED
  BY <1>1, <1>3, RankIs, Zenon DEF BestIsSorted, Sorted

LEMMA HopInvFills == HopInv => FillerIsFirst
<1> SUFFICES ASSUME HopInv, out # << >>
             PROVE  /\ Len(out) <= Len(nodes)
                    /\ \A j \in DOMAIN out :
                          IF j <= Cardinality(Plausible)
                          THEN \E i \in Plausible : Rank(i) = j /\ out[j] = nodes[i]
                          ELSE out[j] = nodes[1]
  BY Zenon DEF FillerIsFirst
<1>1. HopTypes /\ Sorted(Seen, Dist, best) /\ out = Pick(best, nodes)
  BY DEF HopInv, OutPicked
<1>2. Len(nodes) \in Nat /\ MAX_GP_PNODES \in Nat
  BY <1>1, SeenFacts, HopsAssumption
<1>3. PICK m : m = Min({MAX_GP_PNODES, Len(nodes)})
  OBVIOUS
<1>4. m \in Nat /\ m <= MAX_GP_PNODES /\ m <= Len(nodes)
  <2>1. {MAX_GP_PNODES, Len(nodes)} \subseteq Nat
    BY <1>2
  <2>2. m \in {MAX_GP_PNODES, Len(nodes)} /\ \A y \in {MAX_GP_PNODES, Len(nodes)} : m <= y
    BY <1>3, <2>1, MinIsLeast
  <2>3. QED
    BY <1>2, <2>2
<1>5. out = [j \in 1..m |-> nodes[best[j].ix]]
  BY <1>1, <1>3, Zenon DEF Pick
<1>6. Len(out) = m
  BY <1>4, <1>5
<1>7. ASSUME NEW j \in 1..m
      PROVE  IF j <= Cardinality(Seen)
             THEN \E i \in Seen : Ranked(Seen, Dist, i) = j /\ out[j] = nodes[i]
             ELSE out[j] = nodes[1]
  <2>1. out[j] = nodes[best[j].ix]
    BY <1>5
  <2>2. j \in 1..MAX_GP_PNODES /\ Cardinality(Seen) \in Nat /\ j <= MAX_GP_PNODES
    BY <1>1, <1>2, <1>4, SeenFacts, Counts
  <2>3. CASE j <= Cardinality(Seen)
    <3>1. j \in 1..Cardinality(Seen)
      BY <2>2, <2>3
    <3>2. PICK i \in Seen : Ranked(Seen, Dist, i) = j
      BY <1>1, <3>1, Zenon DEF Sorted
    <3>3. best[j] = [ix |-> i, dkad |-> Dist[i]]
      BY <1>1, <2>2, <3>2 DEF Sorted
    <3>4. best[j].ix = i
      BY <3>3
    <3>5. QED
      BY <2>1, <2>3, <3>2, <3>4, Zenon
  <2>4. CASE ~ (j <= Cardinality(Seen))
    <3>1. j > Cardinality(Seen)
      BY <2>2, <2>4
    <3>2. best[j] = NoBest[j]
      BY <1>1, <2>2, <3>1, Zenon DEF Sorted
    <3>3. best[j].ix = 1
      BY <2>2, <3>2 DEF NoBest
    <3>4. QED
      BY <2>1, <2>4, <3>3, Zenon
  <2>5. QED
    BY <2>3, <2>4
<1>8. DOMAIN out = 1..m
  BY <1>5
<1>9. Cardinality(Plausible) = Cardinality(Seen) /\ Plausible = Seen
      /\ \A i \in Seen : Rank(i) = Ranked(Seen, Dist, i)
  BY <1>1, RankIs, Zenon
<1>10. QED
  BY <1>4, <1>6, <1>7, <1>8, <1>9, Zenon

LEMMA HopInvNearer == HopInv => NearerByBytes
<1> SUFFICES ASSUME HopInv, NEW i \in DOMAIN nodes, NEW j \in DOMAIN nodes
             PROVE  LET di == Differ(ih, nodes[i])
                        dj == Differ(ih, nodes[j])
                    IN  /\ di = {} => Dkad(i) <= Dkad(j)
                        /\ (di # {} /\ dj # {} /\ Min(di) > Min(dj)) =>
                               Dkad(i) < Dkad(j)
  BY Zenon DEF NearerByBytes
<1>1. HopTypes
  BY DEF HopInv
<1>2. i \in 1..Len(nodes) /\ j \in 1..Len(nodes) /\ ih \in Nih
  BY <1>1 DEF HopTypes
<1>3. PICK x, y : x = nodes[i] /\ y = nodes[j]
  OBVIOUS
<1>4. x \in Nih /\ y \in Nih /\ Dkad(i) = dkad(ih, x) /\ Dkad(j) = dkad(ih, y)
  BY <1>1, <1>2, <1>3, SeenFacts
<1>5. Differ(ih, x) = {} => dkad(ih, x) <= dkad(ih, y)
  <2>1. dkad(ih, y) \in Nat
    BY <1>2, <1>4, DkadIsNat
  <2>2. Differ(ih, x) = {} => dkad(ih, x) = 0
    BY <1>2, <1>4, DkadRange
  <2>3. QED
    BY <2>1, <2>2
<1>6. Differ(ih, x) # {} /\ Differ(ih, y) # {}
        /\ Min(Differ(ih, x)) > Min(Differ(ih, y)) => dkad(ih, x) < dkad(ih, y)
  BY <1>2, <1>4, DkadNearer
<1>7. QED
  BY <1>3, <1>4, <1>5, <1>6, Zenon

\* The loop of find_best_hops puts every plausible node in its place.
THEOREM BestHopsAreSorted == HopsSpec => []BestIsSorted
  BY AlwaysHop, HopInvSorts, PTL

\* No implausible node is asked but the reply's first.
THEOREM OnlyFirstFills == HopsSpec => []FillerIsFirst
  BY AlwaysHop, HopInvFills, PTL

\* More equal leading bytes make a node nearer.
THEOREM BytesDecide == HopsSpec => []NearerByBytes
  BY AlwaysHop, HopInvNearer, PTL

=============================================================================
