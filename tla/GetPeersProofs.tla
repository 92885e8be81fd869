--------------------------- MODULE GetPeersProofs ---------------------------
(***************************************************************************)
(* The invariants of GetPeers, for every number of tokens, nodes,           *)
(* infohashes and hops.  None of them is inductive alone: a cell's infohash *)
(* is one of Ih only because the cell is some query's, and the chain grows  *)
(* only because the loop's infohash and hop are some query's.               *)
(***************************************************************************)
EXTENDS GetPeers, WellFoundedInduction, TLAPS

\* No query was composed after now.
Past == \A q \in queried : q.at <= now

\* The inductive invariant.
IInv == TypeOK /\ Past /\ CellsQueried /\ Attribution /\ Chain

-----------------------------------------------------------------------------
\* The least element of a non-empty set of naturals.
LEMMA MinIsLeast ==
    ASSUME NEW S, S \subseteq Nat, S # {}
    PROVE  Min(S) \in S /\ \A y \in S : Min(S) <= y
<1> DEFINE R == OpToRel(<, Nat)
<1>1. IsWellFoundedOn(R, Nat) /\ \A x, y \in Nat : y < x => <<y, x>> \in R
  BY NatLessThanWellFounded, Zenon DEF OpToRel
<1> HIDE DEF R
<1>2. PICK x \in S : \A y \in S : ~ (<<y, x>> \in R)
  BY <1>1, WFMin
<1>3. \A y \in S : ~ (y < x)
  BY <1>1, <1>2, Zenon
<1>4. \A y \in S : x <= y
  BY <1>3
<1>5. QED
  BY <1>4 DEF Min

\* unset_cell never changes a cell.
LEMMA UnsetIsIdentity ==
    ASSUME NEW b \in [Tok -> Cell], NEW tok \in Tok
    PROVE  unset_cell(b, tok) = b
<1> DEFINE c == b[tok]
           d == [c EXCEPT !.is_set = IF ~ @ THEN FALSE ELSE @]
<1>1. c \in Cell
  OBVIOUS
<1>2. d = c
  BY <1>1 DEF Cell
<1>3. unset_cell(b, tok) = [b EXCEPT ![tok] = d]
  BY DEF unset_cell
<1> HIDE DEF d
<1>4. QED
  BY <1>2, <1>3

\* Nor does clear_tok.
LEMMA ClearIsIdentity ==
    ASSUME NEW b \in [Tok -> Cell], NEW tok \in Tok, NEW checksum
    PROVE  clear_tok(b, tok, checksum) = b
  BY UnsetIsIdentity DEF clear_tok

\* Nor does take_tok, and the token that it returns is one of the tokens.
LEMMA TakeTokFacts ==
    ASSUME NEW b \in [Tok -> Cell], NEW t \in 0..MaxNow, NEW rand \in Tok,
           Reusable(b, t) # {}
    PROVE  /\ taken_tok(b, t, rand) \in Tok
           /\ after_take_tok(b, t, rand) = b
<1> DEFINE first == Min(Reusable(b, t))
<1>1. Reusable(b, t) \subseteq Tok
  BY DEF Reusable
<1>2. Tok \subseteq Nat
  BY GPMapAssumption DEF Tok
<1>3. first \in Tok
  <2>1. first \in Reusable(b, t)
    BY <1>1, <1>2, MinIsLeast
  <2> HIDE DEF first
  <2>2. QED
    BY <1>1, <2>1
<1> HIDE DEF first
<1>4. taken_tok(b, t, rand) = (rand + first) % N_BINS
  BY DEF taken_tok, first
<1>5. taken_tok(b, t, rand) \in Tok
  <2>1. rand + first \in Nat /\ N_BINS \in Nat /\ N_BINS > 0
    BY <1>2, <1>3, GPMapAssumption
  <2>2. (rand + first) % N_BINS \in 0..(N_BINS - 1)
    BY <2>1
  <2>3. QED
    BY <1>4, <2>2 DEF Tok
<1>6. QED
  BY <1>5, UnsetIsIdentity DEF after_take_tok

\* What Ask does to the invariants of the table and the history, for a hop
\* that continues a chain.
LEMMA AskFacts ==
    ASSUME TypeOK, Past, CellsQueried, Chain, now' = now,
           NEW nid \in Node, NEW ih \in Ih, NEW hop \in 0..(GP_MAX_HOPS + 1),
           NEW rand \in Tok, NEW sent \in BOOLEAN, Reusable(buf, now) # {},
           hop > 0 => \E p \in queried : p.ih = ih /\ p.hop + 1 = hop,
           Ask(nid, ih, hop, rand, sent)
    PROVE  /\ buf' \in [Tok -> Cell]
           /\ queried' \in SUBSET Query
           /\ queried \subseteq queried'
           /\ served' \in SUBSET Tok
           /\ Past' /\ CellsQueried'
           /\ Chain'
<1> DEFINE tok == taken_tok(buf, now, rand)
           q == [tok |-> tok, nid |-> nid, ih |-> ih, hop |-> hop, at |-> now, sent |-> sent]
           new == [is_set |-> TRUE, ih |-> ih, checksum |-> CHECKSUM[nid],
                   hop |-> hop, last |-> now]
<1>1. tok \in Tok /\ after_take_tok(buf, now, rand) = buf
  BY TakeTokFacts DEF TypeOK
<1> HIDE DEF tok
<1>2. /\ queried' = queried \cup {q}
      /\ buf' = IF hop > GP_MAX_HOPS THEN buf ELSE [buf EXCEPT ![tok] = new]
      /\ served' = IF hop > GP_MAX_HOPS THEN served ELSE served \ {tok}
  BY <1>1 DEF Ask, registered, tok
<1>3. q \in Query
  BY <1>1 DEF Query, TypeOK
<1>4. CHECKSUM[nid] \in Checksums
  BY DEF Checksums
<1>5. ~ (hop > GP_MAX_HOPS) => new \in Cell
  BY <1>4, GPMapAssumption DEF Cell, TypeOK
<1>6. /\ buf' \in [Tok -> Cell]
      /\ served' \in SUBSET Tok
      /\ queried' \in SUBSET Query
      /\ queried \subseteq queried'
  <2> HIDE DEF new, q
  <2> QED
    BY <1>1, <1>2, <1>3, <1>5 DEF TypeOK
<1>7. Past'
  <2>1. q.at = now /\ now \in Nat
    BY DEF TypeOK
  <2> HIDE DEF q
  <2>2. QED
    BY <1>2, <2>1 DEF Past
<1>8. CellsQueried'
  <2> SUFFICES ASSUME NEW t \in Tok, buf'[t].is_set
               PROVE  \E p \in queried' :
                        /\ p.tok = t /\ p.ih = buf'[t].ih /\ p.hop = buf'[t].hop
                        /\ CHECKSUM[p.nid] = buf'[t].checksum /\ p.at = buf'[t].last
                        /\ \A r \in queried' : r.tok = t /\ r.hop <= GP_MAX_HOPS => r.at <= p.at
    BY DEF CellsQueried
  <2>1. CASE t # tok \/ hop > GP_MAX_HOPS
    <3>1. buf'[t] = buf[t]
      <4> HIDE DEF new
      <4> QED
        BY <1>1, <1>2, <2>1 DEF TypeOK
    <3>2. PICK p \in queried :
             /\ p.tok = t /\ p.ih = buf[t].ih /\ p.hop = buf[t].hop
             /\ CHECKSUM[p.nid] = buf[t].checksum /\ p.at = buf[t].last
             /\ \A r \in queried : r.tok = t /\ r.hop <= GP_MAX_HOPS => r.at <= p.at
      BY <3>1 DEF CellsQueried
    <3>3. ~ (q.tok = t /\ q.hop <= GP_MAX_HOPS)
      BY <2>1, GPMapAssumption
    <3> HIDE DEF q
    <3>4. \A r \in queried' : r.tok = t /\ r.hop <= GP_MAX_HOPS => r.at <= p.at
      BY <1>2, <3>2, <3>3
    <3>5. QED
      BY <1>6, <3>1, <3>2, <3>4
  <2>2. CASE ~ (t # tok \/ hop > GP_MAX_HOPS)
    <3>1. t = tok /\ buf'[t] = new
      <4> HIDE DEF new
      <4> QED
        BY <1>1, <1>2, <2>2 DEF TypeOK
    <3>2. q \in queried'
      BY <1>2
    <3>3. \A r \in queried' : r.at <= now
      BY <1>7 DEF Past
    <3>4. QED
      BY <3>1, <3>2, <3>3
  <2>3. QED
    BY <2>1, <2>2
<1>9. Chain'
  <2> SUFFICES ASSUME NEW r \in queried', r.hop > 0
               PROVE  \E p \in queried' : p.ih = r.ih /\ p.hop + 1 = r.hop
    BY DEF Chain
  <2>1. CASE r \in queried
    BY <1>6, <2>1 DEF Chain
  <2>2. CASE r = q
    <3>1. r.hop = hop /\ r.ih = ih
      BY <2>2
    <3>2. QED
      BY <1>6, <3>1
  <2>3. QED
    BY <1>2, <2>1, <2>2
<1>10. QED
  BY <1>6, <1>7, <1>8, <1>9

-----------------------------------------------------------------------------
\* The invariant holds at the start, when nothing was asked.
LEMMA InitIInv == Init => IInv
<1> SUFFICES ASSUME Init PROVE IInv
  OBVIOUS
<1>1. /\ 0 \in 0..GP_MAX_HOPS
      /\ 0 \in 0..MaxNow
      /\ 0 \in Tok
  BY GPMapAssumption, GetPeersAssumption DEF Tok
<1>2. EmptyBuf \in [Tok -> Cell]
  BY <1>1 DEF EmptyBuf, Cell, Checksums
<1>3. NoHop \in [tok : Tok, from : Checksums, ih : Ih \cup {NoIh}, hop : 0..GP_MAX_HOPS]
  BY <1>1 DEF NoHop, Checksums
<1>4. << >> \in Seq(Node)
  OBVIOUS
<1>5. TypeOK
  BY <1>1, <1>2, <1>3, <1>4 DEF Init, TypeOK
<1>6. CellsQueried
  BY DEF Init, EmptyBuf, CellsQueried
<1>7. QED
  BY <1>5, <1>6 DEF Init, IInv, Past, Attribution, Chain

\* Every step keeps it.
LEMMA NextIInv == IInv /\ [Next]_vars => IInv'
<1> SUFFICES ASSUME IInv, [Next]_vars PROVE IInv'
  OBVIOUS
<1> USE DEF IInv
<1>1. ASSUME NEW nid \in Node, NEW ih \in Ih, NEW rand \in Tok, NEW sent \in BOOLEAN,
             QGp(nid, ih, rand, sent)
      PROVE  IInv'
  <2>1. 0 \in 0..(GP_MAX_HOPS + 1)
    BY GPMapAssumption
  <2>2. Reusable(buf, now) # {} /\ Ask(nid, ih, 0, rand, sent)
    BY <1>1 DEF QGp
  <2>3. todo = << >> /\ todo' = todo /\ now' = now /\ cur' = cur
    BY <1>1 DEF QGp
  <2>4. /\ buf' \in [Tok -> Cell]
        /\ queried' \in SUBSET Query
        /\ served' \in SUBSET Tok
        /\ Past' /\ CellsQueried' /\ Chain'
    BY <2>1, <2>2, <2>3, AskFacts
  <2>5. Attribution'
    BY <2>3 DEF Attribution
  <2>6. QED
    BY <2>3, <2>4, <2>5 DEF TypeOK
<1>2. ASSUME NEW from \in Node, NEW tok \in Tok, RGpValues(from, tok)
      PROVE  IInv'
  <2>1. buf' = buf
    BY <1>2, ClearIsIdentity DEF RGpValues, TypeOK
  <2>2. QED
    BY <1>2, <2>1 DEF RGpValues, TypeOK, Past, CellsQueried, Attribution, Answered, Chain
<1>3. ASSUME NEW from \in Node, NEW tok \in Tok, NEW ps \in HopLists,
             NEW values \in BOOLEAN, RGpNodes(from, tok, ps, values)
      PROVE  IInv'
  <2>1. (IF values THEN clear_tok(buf, tok, CHECKSUM[from]) ELSE buf) = buf
    BY ClearIsIdentity DEF TypeOK
  <2>2. /\ lookup_tok(buf, tok, CHECKSUM[from])
        /\ todo' = ps
        /\ cur' = [tok |-> tok, from |-> CHECKSUM[from],
                   ih |-> buf[tok].ih, hop |-> buf[tok].hop]
        /\ buf' = clear_tok(buf, tok, CHECKSUM[from])
        /\ served' = served \cup {tok}
        /\ now' = now /\ queried' = queried
    BY <1>3, <2>1 DEF RGpNodes
  <2>3. buf' = buf
    BY <2>2, ClearIsIdentity DEF TypeOK
  <2>4. ps \in Seq(Node)
    BY DEF HopLists, BoundedSeq, SeqOf
  <2>5. buf[tok].is_set /\ buf[tok].checksum = CHECKSUM[from]
    BY <2>2 DEF lookup_tok
  <2>6. buf[tok] \in Cell
    BY DEF TypeOK
  <2>7. cur' \in [tok : Tok, from : Checksums, ih : Ih \cup {NoIh}, hop : 0..GP_MAX_HOPS]
    BY <2>2, <2>6 DEF Cell, Checksums
  <2>8. Attribution'
    <3>1. PICK q \in queried : /\ q.tok = tok /\ q.ih = buf[tok].ih /\ q.hop = buf[tok].hop
                               /\ CHECKSUM[q.nid] = buf[tok].checksum
      BY <2>5 DEF CellsQueried
    <3>2. q \in Answered' /\ q \in queried'
      BY <2>2, <2>5, <3>1 DEF Answered
    <3>3. QED
      BY <3>2 DEF Attribution
  <2>9. QED
    BY <2>2, <2>3, <2>4, <2>7, <2>8 DEF TypeOK, Past, CellsQueried, Chain
<1>4. CASE SkipHop
  BY <1>4 DEF SkipHop, TypeOK, Past, CellsQueried, Attribution, Answered, Chain
<1>5. ASSUME NEW rand \in Tok, NEW sent \in BOOLEAN, AskHop(rand, sent)
      PROVE  IInv'
  <2>1. PICK p \in queried : /\ p.tok = cur.tok /\ p.ih = cur.ih /\ p.hop = cur.hop
                             /\ CHECKSUM[p.nid] = cur.from
    BY <1>5 DEF AskHop, Attribution, Answered
  <2>2. cur.ih \in Ih /\ cur.hop + 1 \in 0..(GP_MAX_HOPS + 1)
    <3>1. p \in Query /\ cur.hop \in 0..GP_MAX_HOPS
      BY DEF TypeOK
    <3>2. QED
      BY <2>1, <3>1, GPMapAssumption DEF Query
  <2>3. todo # << >> /\ Head(todo) \in Node /\ Tail(todo) \in Seq(Node)
    BY <1>5 DEF AskHop, TypeOK
  <2>4. /\ Reusable(buf, now) # {}
        /\ Ask(Head(todo), cur.ih, cur.hop + 1, rand, sent)
        /\ todo' = Tail(todo) /\ now' = now /\ cur' = cur
    BY <1>5 DEF AskHop
  <2>5. \E r \in queried : r.ih = cur.ih /\ r.hop + 1 = cur.hop + 1
    BY <2>1
  <2>6. /\ buf' \in [Tok -> Cell]
        /\ queried' \in SUBSET Query
        /\ queried \subseteq queried'
        /\ served' \in SUBSET Tok
        /\ Past' /\ CellsQueried' /\ Chain'
    BY <2>2, <2>3, <2>4, <2>5, AskFacts
  <2>7. Attribution'
    <3>1. p \in Answered' /\ p \in queried'
      BY <2>1, <2>4, <2>6 DEF Answered
    <3>2. QED
      BY <3>1 DEF Attribution
  <2>8. QED
    BY <2>3, <2>4, <2>6, <2>7 DEF TypeOK
<1>6. CASE BreakHops
  BY <1>6 DEF BreakHops, TypeOK, Past, CellsQueried, Attribution, Answered, Chain
<1>7. CASE Tick
  <2>1. now' \in 0..MaxNow
    BY <1>7, GetPeersAssumption DEF Tick, TypeOK
  <2>2. Past'
    BY <1>7 DEF Tick, TypeOK, Past, Query
  <2>3. QED
    BY <1>7, <2>1, <2>2 DEF Tick, TypeOK, CellsQueried, Attribution, Answered, Chain
<1>8. CASE UNCHANGED vars
  BY <1>8 DEF vars, TypeOK, Past, CellsQueried, Attribution, Answered, Chain
<1>9. QED
  BY <1>1, <1>2, <1>3, <1>4, <1>5, <1>6, <1>7, <1>8 DEF Next

\* So it always holds.
LEMMA AlwaysIInv == Spec => []IInv
  BY InitIInv, NextIInv, PTL DEF Spec

\* Types: tokens, hops and times stay in range; hops of cells never pass
\* GP_MAX_HOPS and hops of queries pass it by at most one.
THEOREM GetPeersTypeCorrect == Spec => []TypeOK
  BY AlwaysIInv, PTL DEF IInv

\* A set cell always describes one query that handle_msg composed with its
\* token, whether or not send_msg sent it.
THEOREM CellsAreQueries == Spec => []CellsQueried
  BY AlwaysIInv, PTL DEF IInv

\* A reply is pursued only for what its sender was asked, or was to be asked
\* by a query that send_msg refused.
THEOREM RepliesAreAttributed == Spec => []Attribution
  BY AlwaysIInv, PTL DEF IInv

\* When take_tok finds no token, every token was given out within the timeout.
THEOREM OverflowsAreLoad == Spec => []OverflowIsBusy
<1>1. IInv => OverflowIsBusy
  <2> SUFFICES ASSUME IInv, Reusable(buf, now) = {}, NEW tok \in Tok
               PROVE  \E q \in queried : q.tok = tok /\ now - q.at <= CTL_GPM_TIMEOUT
    BY DEF OverflowIsBusy
  <2>1. buf[tok].is_set /\ now - buf[tok].last <= CTL_GPM_TIMEOUT
    BY DEF Reusable, Live
  <2>2. PICK q \in queried : q.tok = tok /\ q.at = buf[tok].last
    BY <2>1 DEF IInv, CellsQueried
  <2>3. QED
    BY <2>1, <2>2
<1>2. QED
  BY <1>1, AlwaysIInv, PTL

\* Every query of hop h + 1 follows one of hop h about the same infohash.
THEOREM HopsAreChained == Spec => []Chain
  BY AlwaysIInv, PTL DEF IInv

=============================================================================
