------------------------------ MODULE GetPeers ------------------------------
(***************************************************************************)
(* The pursuit of infohashes: what handle_msg of cht/main.cpp does with the *)
(* table of GPMap for a get_peers query (Q_GP) and for a reply (R_GP).      *)
(*                                                                          *)
(* Any datagram may arrive at any time, so a reply of any node with any     *)
(* token is possible: replies may be lost, late, repeated, reordered or     *)
(* made up.  A handler runs to its end before the next event; the loop of   *)
(* the R_GP handler over the next hops is one step per hop, and no other    *)
(* event comes between (todo is empty in between handlers).                 *)
(*                                                                          *)
(* Left to other modules: the choice of the neighbour (RT), of the next     *)
(* hops (NextHops) and the spam filter (CTMap) may here choose anything.    *)
(***************************************************************************)
EXTENDS GPMap, Sequences, SequencesExt

CONSTANTS Node,          \* node ids, among them the zero id of an empty RT
          CHECKSUM,      \* node id -> checksum
          Ih,            \* infohashes
          MAX_GP_PNODES, \* nodes pursued of a reply
          MaxQueries,    \* bound on the queries composed
          MaxNow         \* bound on the clock

ASSUME GetPeersAssumption ==
    /\ CHECKSUM \in [Node -> Nat]
    /\ MAX_GP_PNODES \in Nat
    /\ MaxQueries \in Nat /\ MaxNow \in Nat

VARIABLES buf,      \* g_ifl_buf
          now,      \* the clock
          todo,     \* the next hops that the R_GP handler has still to ask
          cur,      \* next_hop of the R_GP handler, with the reply's origin
          queried,  \* history: the q_gp messages composed, sent or not
          served    \* history: tokens extracted since they were registered

vars == <<buf, now, todo, cur, queried, served>>

Query == [tok : Tok, nid : Node, ih : Ih, hop : 0..(GP_MAX_HOPS + 1),
          at : 0..MaxNow, sent : BOOLEAN]

NoHop == [tok |-> 0, from |-> 0, ih |-> NoIh, hop |-> 0]

Init ==
    /\ buf = EmptyBuf
    /\ now = 0
    /\ todo = << >>
    /\ cur = NoHop
    /\ queried = {}
    /\ served = {}

\* take_tok, send_msg and register_q_gp_ihash, in one block of execution.
\* send_msg refuses a bad address, and libuv may fail at once: then the query
\* is not sent.  Nobody looks at what send_msg returns, so it is registered
\* all the same.
Ask(nid, ih, hop, rand, sent) ==
    LET tok == taken_tok(buf, now, rand)
    IN  /\ queried' = queried \cup {[tok |-> tok, nid |-> nid, ih |-> ih, hop |-> hop,
                                    at |-> now, sent |-> sent]}
        /\ buf' = registered(after_take_tok(buf, now, rand), CHECKSUM[nid], ih, hop, tok, now)
        /\ served' = IF hop > GP_MAX_HOPS THEN served ELSE served \ {tok}

\* Q_GP for ih, with the neighbour nid from the routing table.
QGp(nid, ih, rand, sent) ==
    /\ todo = << >>
    /\ Cardinality(queried) < MaxQueries
    /\ Reusable(buf, now) # {}
    /\ Ask(nid, ih, 0, rand, sent)
    /\ UNCHANGED <<now, todo, cur>>

\* R_GP of node from with values and no nodes.
RGpValues(from, tok) ==
    /\ todo = << >>
    /\ buf' = clear_tok(buf, tok, CHECKSUM[from])
    /\ UNCHANGED <<now, todo, cur, queried, served>>

\* R_GP of node from, with nodes of which ps are the best hops, and perhaps
\* with values; nothing happens when the token is not found.
RGpNodes(from, tok, ps, values) ==
    LET cleared == IF values THEN clear_tok(buf, tok, CHECKSUM[from]) ELSE buf
    IN  /\ todo = << >>
        /\ Cardinality(queried) + Len(ps) <= MaxQueries
        /\ lookup_tok(cleared, tok, CHECKSUM[from])
        /\ todo' = ps
        /\ cur' = [tok |-> tok, from |-> CHECKSUM[from],
                   ih |-> cleared[tok].ih, hop |-> cleared[tok].hop]
        /\ buf' = clear_tok(cleared, tok, CHECKSUM[from])
        /\ served' = served \cup {tok}
        /\ UNCHANGED <<now, queried>>

\* One iteration of the loop: the spam filter says no,
SkipHop ==
    /\ todo # << >>
    /\ todo' = Tail(todo)
    /\ UNCHANGED <<buf, now, cur, queried, served>>

\* or the next hop is asked,
AskHop(rand, sent) ==
    /\ todo # << >>
    /\ Reusable(buf, now) # {}
    /\ Ask(Head(todo), cur.ih, cur.hop + 1, rand, sent)
    /\ todo' = Tail(todo)
    /\ UNCHANGED <<now, cur>>

\* or there is no token and the loop is left.
BreakHops ==
    /\ todo # << >>
    /\ Reusable(buf, now) = {}
    /\ todo' = << >>
    /\ UNCHANGED <<buf, now, cur, queried, served>>

Tick ==
    /\ todo = << >>
    /\ now < MaxNow
    /\ now' = now + 1
    /\ UNCHANGED <<buf, todo, cur, queried, served>>

HopLists == BoundedSeq(Node, MAX_GP_PNODES) \ {<< >>}

Next ==
    \/ \E nid \in Node, ih \in Ih, rand \in Tok, sent \in BOOLEAN : QGp(nid, ih, rand, sent)
    \/ \E from \in Node, tok \in Tok : RGpValues(from, tok)
    \/ \E from \in Node, tok \in Tok, ps \in HopLists, values \in BOOLEAN :
          RGpNodes(from, tok, ps, values)
    \/ SkipHop
    \/ \E rand \in Tok, sent \in BOOLEAN : AskHop(rand, sent)
    \/ BreakHops
    \/ Tick

Spec == Init /\ [][Next]_vars

-----------------------------------------------------------------------------
Checksums == {CHECKSUM[n] : n \in Node} \cup {0}

Cell == [is_set : BOOLEAN, ih : Ih \cup {NoIh}, checksum : Checksums,
         hop : 0..GP_MAX_HOPS, last : 0..MaxNow]

\* Types.
TypeOK ==
    /\ buf \in [Tok -> Cell]
    /\ now \in 0..MaxNow
    /\ todo \in Seq(Node)
    /\ cur \in [tok : Tok, from : Checksums, ih : Ih \cup {NoIh}, hop : 0..GP_MAX_HOPS]
    /\ queried \in SUBSET Query
    /\ served \in SUBSET Tok

\* A set cell describes one query that handle_msg composed with its token:
\* token, infohash, node, hop and time are of one and the same query, and none
\* that was registered with that token is newer, although tokens are reused
\* while older queries are still in flight.  It need not have been sent.
CellsQueried ==
    \A tok \in Tok : buf[tok].is_set =>
        \E q \in queried :
            /\ q.tok = tok /\ q.ih = buf[tok].ih /\ q.hop = buf[tok].hop
            /\ CHECKSUM[q.nid] = buf[tok].checksum /\ q.at = buf[tok].last
            /\ \A p \in queried : p.tok = tok /\ p.hop <= GP_MAX_HOPS => p.at <= q.at

\* The queries that the reply being pursued may answer.
Answered ==
    {q \in queried : /\ q.tok = cur.tok /\ q.ih = cur.ih /\ q.hop = cur.hop
                     /\ CHECKSUM[q.nid] = cur.from}

\* A reply is pursued only for what its sender (up to its checksum) was meant to
\* be asked: a query with that token, about that infohash, at that hop was
\* composed for it, however tokens are reused while the handler works.  When
\* send_msg refused that query, the sender was never asked and its made-up reply
\* is pursued all the same; when it refused none, the sender was asked.
Attribution ==
    todo # << >> =>
        /\ Answered # {}
        /\ (\A q \in queried : q.sent) => \E q \in Answered : q.sent

\* take_tok has no token only under real load: for every token a query was
\* composed within the last CTL_GPM_TIMEOUT, whatever became of it.  Older
\* queries, answered or lost, never fill the table.
OverflowIsBusy ==
    Reusable(buf, now) = {} =>
        \A tok \in Tok : \E q \in queried :
            q.tok = tok /\ now - q.at <= CTL_GPM_TIMEOUT

\* No hop appears out of thin air: every query of hop h + 1 follows a query of
\* hop h about the same infohash, back to a Q_GP somebody sent us.
Chain ==
    \A q \in queried : q.hop > 0 =>
        \E p \in queried : p.ih = q.ih /\ p.hop + 1 = q.hop

\* The comment of take_tok: "Reserves a vacant token."
ReservesVacant ==
    [][\A q \in queried' \ queried : ~ Live(buf[q.tok], now)]_vars

\* The comment of extract_tok: "This function deletes the entry if one is
\* found."  So an entry is extracted once.
ExtractDeletes ==
    [][(todo = << >> /\ todo' # << >>) => cur'.tok \notin served]_vars

=============================================================================
