----------------------------- MODULE Bootstrap -----------------------------
(***************************************************************************)
(* How an empty crawler finds its first contact, over a network that loses  *)
(* datagrams: the bootstrap timer sends q_fn to the bootstrap node          *)
(* (loop_bootstrap_cb), its reply names a peer, which ping_sweep_nodes      *)
(* pings, and the peer's reply is inserted into the routing table.  Two     *)
(* tables of the spam filter stand in the way, and only the statistics      *)
(* timer's spam_run_epoch opens them again.                                 *)
(*                                                                          *)
(* The timers have no rates here: any number of ticks of one may fall       *)
(* between two of the other.                                                *)
(***************************************************************************)
EXTENDS RT, CTMap

CONSTANTS PeerNode,        \* the contact that the bootstrap node names
          BOOTSTRAP,       \* the contact of the bootstrap node
          RX, PG           \* [max, withdraw, replenish] of the spam tables

\* bootstrap_node is compiled in, and the peer is one that can be sent to.
ASSUME BootstrapAssumption ==
    \A c \in {PeerNode, BOOTSTRAP} : validate_addr(c.ip, c.port)

VARIABLES rt,
          rx, pg,          \* g_rx_spamtable and g_pg_spamtable
          net              \* the datagrams under way

vars == <<rt, rx, pg, net>>

Init ==
    /\ rt = EmptyTable
    /\ rx = EmptyMap /\ pg = EmptyMap
    /\ net = {}

LoopBootstrap ==
    /\ net' = IF validate_addr(BOOTSTRAP.ip, BOOTSTRAP.port) THEN net \cup {"q_fn"} ELSE net
    /\ UNCHANGED <<rt, rx, pg>>

\* Mutation: the epoch does not replenish the ping table.
LoopStatgatherRxOnly ==
    /\ rx' = Replenished(rx, RX.max, RX.replenish)
    /\ UNCHANGED <<rt, pg, net>>

\* Mutation: the epoch does not replenish the rx table.
LoopStatgatherPgOnly ==
    /\ pg' = Replenished(pg, PG.max, PG.replenish)
    /\ UNCHANGED <<rt, rx, net>>

LoopStatgather ==
    /\ rx' = Replenished(rx, RX.max, RX.replenish)
    /\ pg' = Replenished(pg, PG.max, PG.replenish)
    /\ UNCHANGED <<rt, net>>

\* The bootstrap node and the peer answer what reaches them.
Answer(query, reply) ==
    /\ query \in net
    /\ net' = (net \ {query}) \cup {reply}
    /\ UNCHANGED <<rt, rx, pg>>

BootNodeAnswers == Answer("q_fn", "r_fn")
PeerAnswers == Answer("q_pg", "r_pg")

\* cb_recv_msg for the bootstrap node's reply, unless spam_check_rx refuses
\* it: ping_sweep_nodes pings the peer, unless spam_check_tx_pg refuses that.
CbRecvRFn ==
    LET admitted == CanWithdraw(rx, BOOTSTRAP.ip, RX.withdraw)
        pings    == /\ admitted
                    /\ CanWithdraw(pg, PeerNode.ip, PG.withdraw)
                    /\ validate_addr(PeerNode.ip, PeerNode.port)
    IN  /\ "r_fn" \in net
        /\ rx' = Withdrawn(rx, BOOTSTRAP.ip, RX.max, RX.withdraw)
        /\ pg' = IF admitted THEN Withdrawn(pg, PeerNode.ip, PG.max, PG.withdraw) ELSE pg
        /\ net' = (net \ {"r_fn"}) \cup (IF pings THEN {"q_pg"} ELSE {})
        /\ UNCHANGED rt

\* cb_recv_msg for the peer's reply to the ping.
CbRecvRPg ==
    /\ "r_pg" \in net
    /\ net' = net \ {"r_pg"}
    /\ rx' = Withdrawn(rx, PeerNode.ip, RX.max, RX.withdraw)
    /\ rt' = IF CanWithdraw(rx, PeerNode.ip, RX.withdraw) THEN Inserted(rt, PeerNode) ELSE rt
    /\ UNCHANGED pg

Lose(d) ==
    /\ d \in net
    /\ net' = net \ {d}
    /\ UNCHANGED <<rt, rx, pg>>

Datagrams == {"q_fn", "r_fn", "q_pg", "r_pg"}

Next ==
    \/ LoopBootstrap \/ LoopStatgather
    \/ BootNodeAnswers \/ PeerAnswers
    \/ CbRecvRFn \/ CbRecvRPg
    \/ \E d \in Datagrams : Lose(d)

\* libuv's repeating timers fire again and again.  The network loses
\* datagrams, but of a kind that is sent again and again some arrive, and the
\* two nodes answer what arrives again and again.
Fairness ==
    /\ WF_vars(LoopBootstrap) /\ WF_vars(LoopStatgather)
    /\ SF_vars(BootNodeAnswers) /\ SF_vars(PeerAnswers)
    /\ SF_vars(CbRecvRFn) /\ SF_vars(CbRecvRPg)

Spec == Init /\ [][Next]_vars /\ Fairness

-----------------------------------------------------------------------------
\* The crawler gets its first contact, however many datagrams are lost and
\* although a lost ping empties the peer's bucket.
Bootstrapped == <>(\E c \in Cells : ~ is_empty(rt[c]))

\* And it never stops pinging: an empty bucket, of the bootstrap node's
\* replies or of the pings, is never the last word.
KeepsPinging == []<>("q_pg" \in net)

=============================================================================
