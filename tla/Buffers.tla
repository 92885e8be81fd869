------------------------------ MODULE Buffers ------------------------------
(***************************************************************************)
(* The buffers of cht/main.cpp and who owns them: the pool of receive       *)
(* buffers (KRPC objects) that cb_alloc and cb_recv_msg share with libuv,   *)
(* and the pool of send requests that send_msg and cb_send_msg share with   *)
(* it.  libuv calls cb_alloc and then cb_recv_msg, in turns, and calls      *)
(* cb_send_msg for a request some time after uv_udp_send accepted it, never *)
(* from within another callback.                                            *)
(*                                                                          *)
(* phase is where the event loop is: in no callback ("idle"), between       *)
(* cb_alloc and cb_recv_msg ("alloced"), or inside handle_msg ("handling"), *)
(* which may send any number of messages.  Objects are numbered in the      *)
(* order of their allocation.                                               *)
(***************************************************************************)
EXTENDS Integers, Sequences, SequencesExt, FiniteSets

CONSTANTS Msg,            \* messages to send
          None,
          MaxDatagrams,   \* bound on cb_recv_msg calls
          MaxReqs         \* bound on send requests allocated

ASSUME BuffersAssumption ==
    /\ None \notin Msg
    /\ MaxDatagrams \in Nat /\ MaxReqs \in Nat

VARIABLES phase,
          recv_buf_pool,   \* sequence of receive buffers
          krpc_map,        \* the receive buffers that cb_alloc registered
          parsed,          \* the receive buffers whose fields hold a parse
          current,         \* the receive buffer that libuv has, or None
          n_recv_bufs,     \* ST_ctl_n_recv_bufs, and the buffers allocated
          send_req_pool,   \* sequence of send requests
          inflight,        \* the <<request, message>> pairs that libuv was given
          written,         \* request -> the message in its buffer
          n_send_bufs,     \* ST_ctl_n_send_bufs, and the requests allocated
          early,           \* history: requests whose uv_udp_send failed
          datagrams        \* history: cb_recv_msg calls

recvVars == <<recv_buf_pool, krpc_map, parsed, current, n_recv_bufs, datagrams>>
sendVars == <<send_req_pool, inflight, written, n_send_bufs, early>>
vars == <<phase, recvVars, sendVars>>

Init ==
    /\ phase = "idle"
    /\ recv_buf_pool = << >> /\ krpc_map = {} /\ parsed = {} /\ current = None
    /\ n_recv_bufs = 0 /\ datagrams = 0
    /\ send_req_pool = << >> /\ inflight = {} /\ written = << >>
    /\ n_send_bufs = 0 /\ early = {}

-----------------------------------------------------------------------------
(* Receiving.                                                              *)

\* libuv is given the buffer krpc to read a datagram into.
HandOut(krpc, fields, count, map) ==
    /\ phase = "idle" /\ datagrams < MaxDatagrams
    /\ phase' = "alloced" /\ current' = krpc
    /\ parsed' = fields /\ n_recv_bufs' = count /\ krpc_map' = map
    /\ UNCHANGED <<recv_buf_pool, datagrams, sendVars>>

Reused == Last(recv_buf_pool)
Fresh == n_recv_bufs + 1

\* Mutation: a pooled buffer is handed out without clear().
CbAllocDirty ==
    \/ recv_buf_pool # << >> /\ HandOut(Reused, parsed, n_recv_bufs, krpc_map \cup {Reused})
    \/ recv_buf_pool = << >> /\ HandOut(Fresh, parsed, Fresh, krpc_map \cup {Fresh})

\* Mutation: a new buffer is not counted in ST_ctl_n_recv_bufs.
CbAllocUncounted ==
    \/ recv_buf_pool # << >> /\ HandOut(Reused, parsed \ {Reused}, n_recv_bufs, krpc_map)
    \/ recv_buf_pool = << >> /\ HandOut(Fresh, parsed, n_recv_bufs, krpc_map \cup {Fresh})

\* Mutation: the test for an empty pool is off by one.
CbAllocTwo ==
    \/ Len(recv_buf_pool) > 1 /\ HandOut(Reused, parsed \ {Reused}, n_recv_bufs, krpc_map)
    \/ Len(recv_buf_pool) <= 1 /\ HandOut(Fresh, parsed, Fresh, krpc_map \cup {Fresh})

\* cb_alloc: the last pooled buffer, which stays in the pool and is cleared,
\* or a new one.
CbAlloc ==
    \/ /\ recv_buf_pool # << >>
       /\ HandOut(Reused, parsed \ {Reused}, n_recv_bufs, krpc_map \cup {Reused})
    \/ /\ recv_buf_pool = << >>
       /\ HandOut(Fresh, parsed, Fresh, krpc_map \cup {Fresh})

\* cb_recv_msg of nothing, an error, a short or clipped datagram, or one that
\* the spam filter refuses: the buffer is pushed unparsed.
CbRecvEarlyFree ==
    /\ phase = "alloced" /\ current \in krpc_map
    /\ phase' = "idle"
    /\ recv_buf_pool' = Append(recv_buf_pool, current)
    /\ current' = None
    /\ datagrams' = datagrams + 1
    /\ UNCHANGED <<krpc_map, parsed, n_recv_bufs, sendVars>>

\* cb_recv_msg of a datagram that does not parse: the callback returns and
\* does not push the buffer.
CbRecvBadParse ==
    /\ phase = "alloced" /\ current \in krpc_map
    /\ phase' = "idle"
    /\ parsed' = parsed \cup {current}
    /\ current' = None
    /\ datagrams' = datagrams + 1
    /\ UNCHANGED <<recv_buf_pool, krpc_map, n_recv_bufs, sendVars>>

\* cb_recv_msg of a datagram that parses: handle_msg is called,
CbRecvHandle ==
    /\ phase = "alloced" /\ current \in krpc_map
    /\ phase' = "handling"
    /\ parsed' = parsed \cup {current}
    /\ datagrams' = datagrams + 1
    /\ UNCHANGED <<recv_buf_pool, krpc_map, current, n_recv_bufs, sendVars>>

\* and when it returns, the buffer is pushed.
HandleReturn ==
    /\ phase = "handling"
    /\ phase' = "idle"
    /\ recv_buf_pool' = Append(recv_buf_pool, current)
    /\ current' = None
    /\ UNCHANGED <<krpc_map, parsed, n_recv_bufs, datagrams, sendVars>>

-----------------------------------------------------------------------------
(* Sending: from handle_msg, or from the bootstrap timer's callback.       *)

\* The message m is written to the request's buffer, which uv_udp_send takes
\* or refuses.
Submit(req, m, ok, pool, count) ==
    /\ written' = [r \in 1..count |-> IF r = req THEN m ELSE written[r]]
    /\ \/ /\ ok
          /\ inflight' = inflight \cup {<<req, m>>}
          /\ UNCHANGED early
       \/ /\ ~ ok
          /\ early' = early \cup {req}
          /\ UNCHANGED inflight
    /\ send_req_pool' = pool
    /\ n_send_bufs' = count
    /\ UNCHANGED <<phase, recvVars>>

\* send_msg to an address that does not validate: a counter and no request.
SendMsgBadAddr ==
    /\ phase \in {"idle", "handling"}
    /\ UNCHANGED vars

\* Mutation: send_msg does not pop the request that it takes.
SendMsgNoPop(m, ok) ==
    /\ phase \in {"idle", "handling"}
    /\ \/ /\ send_req_pool = << >> /\ n_send_bufs < MaxReqs
          /\ Submit(n_send_bufs + 1, m, ok, << >>, n_send_bufs + 1)
       \/ /\ send_req_pool # << >>
          /\ Submit(Last(send_req_pool), m, ok, send_req_pool, n_send_bufs)

\* send_msg to an address that validates: a new request, or the last pooled
\* one.  When uv_udp_send refuses it, nobody keeps the request.
SendMsg(m, ok) ==
    /\ phase \in {"idle", "handling"}
    /\ \/ /\ send_req_pool = << >> /\ n_send_bufs < MaxReqs
          /\ Submit(n_send_bufs + 1, m, ok, << >>, n_send_bufs + 1)
       \/ /\ send_req_pool # << >>
          /\ Submit(Last(send_req_pool), m, ok, Front(send_req_pool), n_send_bufs)

\* Mutation: a request that failed late is not pushed.
CbSendMsgDrop(req, status) ==
    /\ phase = "idle"
    /\ \E p \in inflight : p[1] = req /\ inflight' = inflight \ {p}
    /\ send_req_pool' = IF status < 0 THEN send_req_pool ELSE Append(send_req_pool, req)
    /\ UNCHANGED <<phase, recvVars, written, n_send_bufs, early>>

\* cb_send_msg: whatever the status, the request is pushed.
CbSendMsg(req, status) ==
    /\ phase = "idle"
    /\ \E p \in inflight : p[1] = req /\ inflight' = inflight \ {p}
    /\ send_req_pool' = Append(send_req_pool, req)
    /\ UNCHANGED <<phase, recvVars, written, n_send_bufs, early>>

Next ==
    \/ CbAlloc \/ CbRecvEarlyFree \/ CbRecvBadParse \/ CbRecvHandle \/ HandleReturn
    \/ SendMsgBadAddr
    \/ \E m \in Msg, ok \in BOOLEAN : SendMsg(m, ok)
    \/ \E req \in 1..MaxReqs, status \in {-1, 0} : CbSendMsg(req, status)

Spec == Init /\ [][Next]_vars

-----------------------------------------------------------------------------
Pooled == {send_req_pool[i] : i \in DOMAIN send_req_pool}
Flying == {p[1] : p \in inflight}

\* Types.
TypeOK ==
    /\ phase \in {"idle", "alloced", "handling"}
    /\ datagrams \in 0..MaxDatagrams
    /\ n_recv_bufs \in Nat
    /\ recv_buf_pool \in Seq(1..n_recv_bufs)
    /\ krpc_map \in SUBSET (1..n_recv_bufs)
    /\ parsed \in SUBSET (1..n_recv_bufs)
    /\ current \in (1..n_recv_bufs) \cup {None}
    /\ n_send_bufs \in 0..MaxReqs
    /\ send_req_pool \in Seq(1..n_send_bufs)
    /\ written \in [1..n_send_bufs -> Msg]
    /\ inflight \in SUBSET ((1..n_send_bufs) \X Msg)
    /\ early \in SUBSET (1..n_send_bufs)

\* libuv is never given a buffer with fields of an earlier message in it:
\* parse_msg does not clear ("NO CLEAR"), so a reply could otherwise be
\* handled with an earlier message's nodes.
FreshBuffer == phase = "alloced" => current \notin parsed

\* Although cb_alloc leaves the buffer that it hands out in the pool, no two
\* users share one: all entries of the pool are the same buffer, and while a
\* datagram is handled it is that buffer, which only the handler's message
\* has been read into.
OneRecvBuffer ==
    /\ \A i, j \in DOMAIN recv_buf_pool : recv_buf_pool[i] = recv_buf_pool[j]
    /\ (current # None /\ recv_buf_pool # << >>) => current = Last(recv_buf_pool)

\* Every send request has exactly one owner: the pool, where it stands once,
\* libuv, or nobody any more when uv_udp_send failed at once.  So
\* ctl_n_send_bufs never falls, and grows with early errors.
OneOwner ==
    /\ \A i, j \in DOMAIN send_req_pool : i # j => send_req_pool[i] # send_req_pool[j]
    /\ Pooled \cap Flying = {}
    /\ Pooled \cap early = {}
    /\ Flying \cap early = {}
    /\ Pooled \cup Flying \cup early = 1..n_send_bufs

\* While libuv has a request, its buffer holds the message it was sent with.
InFlightIntact == \A p \in inflight : written[p[1]] = p[2]

=============================================================================
