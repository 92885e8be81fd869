------------------------------- MODULE Server -------------------------------
(***************************************************************************)
(* The crawler of cht/main.cpp: cb_recv_msg with handle_msg for the seven   *)
(* kinds of message that KRPC::validate lets through, the two timers, and   *)
(* the components they share: the routing table (RT), the table of queries  *)
(* in flight (GPMap), the choice of next hops (NextHops), the three tables  *)
(* of the spam filter (CTMap) and the counters.                             *)
(*                                                                          *)
(* A callback runs to its end, so it is one step.  Its effects are put      *)
(* together in a record of the shared state, one call of the source after   *)
(* the other; sent collects the datagrams given to uv_udp_send in the       *)
(* callback.  The set drop names the addresses to which uv_udp_send fails   *)
(* at once in the callback.                                                 *)
(***************************************************************************)
EXTENDS RT, GPMap, NextHops, CTMap

CONSTANTS Peer,            \* the contacts that send messages or are sent in them
          Ih,              \* infohashes, which are node ids to the routing table
          DKAD,            \* infohash -> node id -> dkad of the two
          GPKEY,           \* <<ih, ip>> -> ih.checksum XOR ip
          Rx,              \* the messages that may arrive
          Tables,          \* the tables that load_rt may find
          Drops,           \* the sets of addresses that uv_udp_send may refuse
          BOOTSTRAP,       \* the contact of the bootstrap node
          RX, PG, GP,      \* [max, withdraw, replenish] of the spam tables
          MaxRx,           \* bound on the datagrams received
          MaxEpochs,       \* bound on the statistics rollovers
          MaxBoots,        \* bound on the bootstrap timer's callbacks
          MaxNow           \* bound on the clock

Ip == {p.ip : p \in Peer}
Key == {GPKEY[k] : k \in DOMAIN GPKEY}

Queries == {"q_pg", "q_fn", "q_gp", "q_ap"}
Replies == {"r_pg", "r_fn", "r_gp"}

\* Contacts and tables are those of RT; validate lets no R_GP through whose
\* token is not one of a cell; the static_assert of withdraw.
ASSUME ServerAssumption ==
    /\ \A p \in Peer :
          /\ p.nid.cell \in Cells
          /\ p = [nid  |-> [cell |-> p.nid.cell, body |-> p.nid.body,
                            checksum |-> p.nid.checksum],
                  ip   |-> p.ip,
                  port |-> p.port]
    /\ \A m \in Rx :
          /\ m.method \in Queries \cup Replies
          /\ m.from \in Peer /\ m.nodes \in Seq(Peer) /\ m.target.cell \in Cells
          /\ m.method = "r_gp" => m.tok \in Tok
    /\ \A T \in Tables : T = [c \in Cells |-> T[c]]
    /\ \A table \in {RX, PG, GP} :
          /\ table.max \in Nat /\ table.replenish \in Nat
          /\ table.withdraw \in 1..table.max

VARIABLES rt, buf, now,
          spam,       \* [rx, pg, gp]: the maps of the spam filter
          ctr,        \* the counters of stat.cpp
          sent,       \* the datagrams given to uv_udp_send in the last callback
          heard,      \* history: contacts passed to insert_contact
          handled,    \* history: ip -> datagrams that passed the rx filter
          pinged,     \* history: ip -> q_pg datagrams sent
          chased,     \* history: spam key -> q_gp datagrams of hop > 0 sent
          epochs, boots, received

vars == <<rt, buf, now, spam, ctr, sent, heard, handled, pinged, chased,
          epochs, boots, received>>

TxKinds == {"tx_q_pg", "tx_q_fn", "tx_q_gp", "tx_r_pg", "tx_r_fn", "tx_r_gp", "tx_r_ap"}
RxKinds == {"rx_q_pg", "rx_q_fn", "rx_q_gp", "rx_q_ap", "rx_r_pg", "rx_r_fn", "rx_r_gp"}
Stats == TxKinds \cup RxKinds \cup {"tx_tot", "rx_tot", "drop"}

Init ==
    /\ rt \in Tables /\ buf = EmptyBuf /\ now = 0
    /\ spam = [rx |-> EmptyMap, pg |-> EmptyMap, gp |-> EmptyMap]
    /\ ctr = [s \in Stats |-> 0]
    /\ sent = << >>
    /\ heard = {ContactAt(rt, c) : c \in {c \in Cells : ~ is_empty(rt[c])}}
    /\ handled = [i \in Ip |-> 0]
    /\ pinged = [i \in Ip |-> 0]
    /\ chased = [k \in Key |-> 0]
    /\ epochs = 0 /\ boots = 0 /\ received = 0

-----------------------------------------------------------------------------
(* The calls that callbacks are made of, on records of the shared state.   *)

\* The shared state when a callback starts; stop is the break of its loop.
Now == [rt |-> rt, buf |-> buf, pg |-> spam.pg, gp |-> spam.gp, ctr |-> ctr,
        sent |-> << >>, heard |-> heard, stop |-> FALSE]

Inc(e, stat) == [e EXCEPT !.ctr[stat] = @ + 1]

\* Mutation: a datagram that uv_udp_send refused is counted in tx_tot.
send_msg_miscount(e, msg, dest, acct, drop) ==
    IF ~ validate_addr(dest.ip, dest.port) THEN Inc(e, "drop")
    ELSE IF dest.ip \in drop THEN Inc(Inc(e, "drop"), "tx_tot")
    ELSE [Inc(Inc(e, acct), "tx_tot") EXCEPT !.sent = Append(@, [msg EXCEPT !.to = dest])]

\* send_msg; which of its drop counters is incremented is left out.
send_msg(e, msg, dest, acct, drop) ==
    IF ~ validate_addr(dest.ip, dest.port) \/ dest.ip \in drop THEN Inc(e, "drop")
    ELSE [Inc(Inc(e, acct), "tx_tot") EXCEPT !.sent = Append(@, [msg EXCEPT !.to = dest])]

\* A datagram to send: its kind, the contact in it, its token and its hop.
Msg(kind, contact, tok, hop) ==
    [kind |-> kind, contact |-> contact, tok |-> tok, hop |-> hop, ih |-> NoIh,
     to |-> NoContact]

insert_contact(e, contact) ==
    [e EXCEPT !.rt = Inserted(@, contact), !.heard = @ \cup {contact}]

\* Mutation: the ping sweep does not ask the spam filter.
ping_node_unfiltered(e, node, drop) ==
    send_msg(e, Msg("q_pg", node, 0, 0), node, "tx_q_pg", drop)

\* Mutation: a node is inserted into the table when it is pinged.
ping_node_inserts(e, node, drop) ==
    LET paid == [insert_contact(e, node) EXCEPT !.pg = Withdrawn(@, node.ip, PG.max, PG.withdraw)]
    IN  IF ~ CanWithdraw(e.pg, node.ip, PG.withdraw) THEN paid
        ELSE send_msg(paid, Msg("q_pg", node, 0, 0), node, "tx_q_pg", drop)

\* One iteration of ping_sweep_nodes: ctl_decide_ping always says yes.
ping_node(e, node, drop) ==
    LET paid == [e EXCEPT !.pg = Withdrawn(@, node.ip, PG.max, PG.withdraw)]
    IN  IF ~ CanWithdraw(e.pg, node.ip, PG.withdraw) THEN paid
        ELSE send_msg(paid, Msg("q_pg", node, 0, 0), node, "tx_q_pg", drop)

ping_sweep_nodes(e, nodes, drop) ==
    LET after[ix \in 0..Len(nodes)] ==
            IF ix = 0 THEN e ELSE ping_node(after[ix - 1], nodes[ix], drop)
    IN  after[Len(nodes)]

\* Send a q_gp to dest and register it, after take_tok.
pursue(e, dest, ih, hop, rand, drop) ==
    LET tok  == taken_tok(e.buf, now, rand)
        took == [e EXCEPT !.buf = after_take_tok(@, now, rand)]
        msg  == [Msg("q_gp", dest, tok, hop) EXCEPT !.ih = ih]
    IN  [send_msg(took, msg, dest, "tx_q_gp", drop) EXCEPT
            !.buf = registered(@, dest.nid.checksum, ih, hop, tok, now)]

\* Mutation: the next hops are asked without asking the spam filter.
next_hop_unfiltered(e, node, hop, rand, drop) ==
    IF e.stop \/ Reusable(e.buf, now) = {} THEN [e EXCEPT !.stop = TRUE]
    ELSE pursue(e, node, hop.ih, hop.ctr + 1, rand, drop)

\* One iteration of the loop of the R_GP handler.
next_hop(e, node, hop, rand, drop) ==
    LET key  == GPKEY[<<hop.ih, node.ip>>]
        paid == [e EXCEPT !.gp = Withdrawn(@, key, GP.max, GP.withdraw)]
    IN  IF e.stop THEN e                                              \* left by break
        ELSE IF ~ CanWithdraw(e.gp, key, GP.withdraw) THEN paid       \* continue
        ELSE IF Reusable(e.buf, now) = {} THEN [paid EXCEPT !.stop = TRUE]
        ELSE pursue(paid, node, hop.ih, hop.ctr + 1, rand, drop)

\* The loop of the R_GP handler over the nodes that find_best_hops chose.
next_hops(e, best, hop, rand, drop) ==
    LET after[ix \in 0..Len(best)] ==
            IF ix = 0 THEN e ELSE next_hop(after[ix - 1], best[ix], hop, rand[ix], drop)
    IN  after[Len(best)]

-----------------------------------------------------------------------------
(* The cases of handle_msg.  m is the parsed message, with its sender.     *)

HandleQPg(e, m, drop) ==
    insert_contact(send_msg(e, Msg("r_pg", m.from, m.tok, 0), m.from, "tx_r_pg", drop), m.from)

HandleQFn(e, m, drop, start) ==
    LET payload == neighbor_contact(e.rt, m.target, start[1])
    IN  insert_contact(
            send_msg(e, Msg("r_fn", payload, m.tok, 0), m.from, "tx_r_fn", drop), m.from)

HandleQGp(e, m, drop, start, rand) ==
    LET pursued == Reusable(e.buf, now) # {}
        near    == neighbor_contact(e.rt, m.target, start[1])
        neig    == IF pursued /\ near.nid.checksum = m.from.nid.checksum
                   THEN random_valid_node(e.rt, start[2]) ELSE near
        asked   == IF pursued THEN pursue(e, neig, m.target, 0, rand, drop) ELSE e
    IN  insert_contact(
            send_msg(asked, Msg("r_gp", neig, m.tok, 0), m.from, "tx_r_gp", drop), m.from)

\* An announcement whose name is not UTF-8 is not answered.
HandleQAp(e, m, drop) ==
    IF m.badName THEN e
    ELSE send_msg(e, Msg("r_pg", m.from, m.tok, 0), m.from, "tx_r_ap", drop)

HandleRFn(e, m, drop) == ping_sweep_nodes(e, m.nodes, drop)

\* The replies with values first, then those with nodes; a reply may be both.
HandleRGp(e, m, drop, rand) ==
    LET sum    == m.from.nid.checksum
        valued == IF m.values
                  THEN insert_contact([e EXCEPT !.buf = clear_tok(@, m.tok, sum)], m.from)
                  ELSE e
        swept  == ping_sweep_nodes(valued, m.nodes, drop)
        cell   == swept.buf[m.tok]
        best   == find_best_hops(m.nodes, [c \in Peer |-> DKAD[cell.ih][c.nid]])
        start  == [swept EXCEPT !.buf = clear_tok(@, m.tok, sum)]
    IN  IF m.nodes = << >> THEN valued
        ELSE IF ~ lookup_tok(swept.buf, m.tok, sum) THEN swept
        ELSE next_hops(start, best, [ih |-> cell.ih, ctr |-> cell.hop], rand, drop)

HandleRPg(e, m) == insert_contact(e, m.from)

handle_msg(e, m, drop, start, rand) ==
    CASE m.method = "q_pg" -> HandleQPg(e, m, drop)
      [] m.method = "q_fn" -> HandleQFn(e, m, drop, start)
      [] m.method = "q_gp" -> HandleQGp(e, m, drop, start, rand[1])
      [] m.method = "q_ap" -> HandleQAp(e, m, drop)
      [] m.method = "r_fn" -> HandleRFn(e, m, drop)
      [] m.method = "r_gp" -> HandleRGp(e, m, drop, rand)
      [] m.method = "r_pg" -> HandleRPg(e, m)

-----------------------------------------------------------------------------
(* The callbacks.                                                          *)

RxStat(method) == CHOOSE s \in RxKinds : <<method, s>> \in
    {<<"q_pg", "rx_q_pg">>, <<"q_fn", "rx_q_fn">>, <<"q_gp", "rx_q_gp">>,
     <<"q_ap", "rx_q_ap">>, <<"r_pg", "rx_r_pg">>, <<"r_fn", "rx_r_fn">>,
     <<"r_gp", "rx_r_gp">>}

\* How many datagrams of a callback satisfy P.
Count(msgs, P(_)) == Cardinality({i \in DOMAIN msgs : P(msgs[i])})

\* The effects e become the shared state, and the history of what was sent.
Commit(e, rx) ==
    /\ rt' = e.rt /\ buf' = e.buf /\ ctr' = e.ctr /\ sent' = e.sent /\ heard' = e.heard
    /\ spam' = [rx |-> rx, pg |-> e.pg, gp |-> e.gp]
    /\ pinged' = [i \in Ip |-> pinged[i] +
                     Count(e.sent, LAMBDA d : d.kind = "q_pg" /\ d.to.ip = i)]
    /\ chased' = [k \in Key |-> chased[k] +
                     Count(e.sent, LAMBDA d : /\ d.kind = "q_gp" /\ d.hop > 0
                                              /\ GPKEY[<<d.ih, d.to.ip>>] = k)]

\* A datagram that the spam filter lets through to the parser.
Admit(ip) ==
    /\ received < MaxRx
    /\ received' = received + 1
    /\ CanWithdraw(spam.rx, ip, RX.withdraw)
    /\ handled' = [handled EXCEPT ![ip] = @ + 1]

Charged(ip) == Withdrawn(spam.rx, ip, RX.max, RX.withdraw)

\* cb_recv_msg for a message that parses.
CbRecvMsg(m, drop, start, rand) ==
    /\ Admit(m.from.ip)
    /\ Commit(handle_msg(Inc(Inc(Now, "rx_tot"), RxStat(m.method)), m, drop, start, rand),
              Charged(m.from.ip))
    /\ UNCHANGED <<now, epochs, boots>>

\* cb_recv_msg for a datagram that does not.
CbRecvBadParse(ip) ==
    /\ Admit(ip)
    /\ Commit(Now, Charged(ip))
    /\ UNCHANGED <<now, epochs, boots>>

\* cb_recv_msg for a datagram that spam_check_rx refuses.
CbRecvSpam(ip) ==
    /\ received < MaxRx
    /\ received' = received + 1
    /\ ~ CanWithdraw(spam.rx, ip, RX.withdraw)
    /\ Commit(Now, Charged(ip))
    /\ UNCHANGED <<now, epochs, boots, handled>>

\* loop_statgather_cb: of st_rollover, what is not statistics.
LoopStatgather ==
    /\ epochs < MaxEpochs
    /\ epochs' = epochs + 1
    /\ spam' = [rx |-> Replenished(spam.rx, RX.max, RX.replenish),
                pg |-> Replenished(spam.pg, PG.max, PG.replenish),
                gp |-> Replenished(spam.gp, GP.max, GP.replenish)]
    /\ sent' = << >>
    /\ UNCHANGED <<rt, buf, now, ctr, heard, handled, pinged, chased, boots, received>>

\* loop_bootstrap_cb.
LoopBootstrap(drop) ==
    /\ boots < MaxBoots
    /\ boots' = boots + 1
    /\ Commit(send_msg(Now, Msg("q_fn", BOOTSTRAP, 0, 0), BOOTSTRAP, "tx_q_fn", drop), spam.rx)
    /\ UNCHANGED <<now, handled, epochs, received>>

Tick ==
    /\ now < MaxNow
    /\ now' = now + 1
    /\ sent' = << >>
    /\ UNCHANGED <<rt, buf, spam, ctr, heard, handled, pinged, chased, epochs, boots, received>>

\* The random numbers that a handler may draw, fixed where it draws none.
StartsOf(m) ==
    IF m.method \in {"q_fn", "q_gp"} THEN [1..2 -> Starts] ELSE {[i \in 1..2 |-> 0]}
RandsOf(m) ==
    IF m.method \in {"q_gp", "r_gp"}
    THEN [1..MAX_GP_PNODES -> Tok] ELSE {[i \in 1..MAX_GP_PNODES |-> 0]}

Next ==
    \/ \E m \in Rx, drop \in Drops :
          \E start \in StartsOf(m), rand \in RandsOf(m) : CbRecvMsg(m, drop, start, rand)
    \/ \E ip \in Ip : CbRecvBadParse(ip) \/ CbRecvSpam(ip)
    \/ LoopStatgather
    \/ \E drop \in Drops : LoopBootstrap(drop)
    \/ Tick

Spec == Init /\ [][Next]_vars

-----------------------------------------------------------------------------
\* The totals that the heartbeat prints are the sums of the counters by kind:
\* every datagram sent or handled is counted once as a whole and once by kind,
\* whatever its handler does after.
Accounts ==
    /\ ctr["tx_tot"] = ctr["tx_q_pg"] + ctr["tx_q_fn"] + ctr["tx_q_gp"]
                       + ctr["tx_r_pg"] + ctr["tx_r_fn"] + ctr["tx_r_gp"] + ctr["tx_r_ap"]
    /\ ctr["rx_tot"] = ctr["rx_q_pg"] + ctr["rx_q_fn"] + ctr["rx_q_gp"] + ctr["rx_q_ap"]
                       + ctr["rx_r_pg"] + ctr["rx_r_fn"] + ctr["rx_r_gp"]

\* Over the whole run, what an address is pinged, what a key is asked by way
\* of next hops and what an address gets handled stay within the budget of
\* its bucket, however often replies repeat and lists of nodes name it.
SpamBudgets ==
    /\ \A i \in Ip : PG.withdraw * pinged[i] <= PG.max + epochs * PG.replenish
    /\ \A i \in Ip : RX.withdraw * handled[i] <= RX.max + epochs * RX.replenish
    /\ \A k \in Key : GP.withdraw * chased[k] <= GP.max + epochs * GP.replenish

\* The table holds no hearsay: an address in it is one that a datagram came
\* from and passed the filter, or was in the file at the start.  Nodes named in
\* replies are pinged and asked, and get in only by what they send themselves.
FirstHand ==
    \A c \in Cells : ~ is_empty(rt[c]) =>
        \/ rt[c].ip \in Ip /\ handled[rt[c].ip] > 0
        \/ \E T \in Tables : rt[c] = T[c]

\* What replies hand out was announced to us, and a query of hop 0 goes to a
\* node that was: the table and the handlers mix up no contact.
HandsOutHeard ==
    \A i \in DOMAIN sent :
        (sent[i].kind \in {"r_fn", "r_gp"} \/ (sent[i].kind = "q_gp" /\ sent[i].hop = 0)) =>
            sent[i].contact \in heard \cup {NoContact}

=============================================================================
