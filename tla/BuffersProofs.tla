--------------------------- MODULE BuffersProofs ---------------------------
(***************************************************************************)
(* The invariants of Buffers, for every set of messages and all bounds.     *)
(*                                                                          *)
(* On the receiving side OneRecvBuffer needs to know what the event loop is *)
(* doing: outside of the callbacks libuv has no buffer, and inside it has   *)
(* the one on top of the pool, which is why pushing it again leaves the     *)
(* pool with copies of one buffer.  On the sending side OneOwner and        *)
(* InFlightIntact need each other: a callback takes one pair from inflight, *)
(* and that the request has no other pair there is what the content of its  *)
(* buffer says; and the buffer keeps its content because the request stands *)
(* nowhere else.                                                            *)
(***************************************************************************)
EXTENDS Buffers, SequenceTheorems, TLAPS

\* The buffer of a callback, and where the bound on datagrams is tested.
LoopState ==
    /\ phase = "idle" => current = None
    /\ phase = "alloced" => datagrams < MaxDatagrams
    /\ phase # "idle" =>
          /\ current \in 1..n_recv_bufs
          /\ recv_buf_pool # << >> => current = Last(recv_buf_pool)

\* The two sides share nothing but phase, which sending does not change.
RecvInv ==
    /\ phase \in {"idle", "alloced", "handling"}
    /\ datagrams \in 0..MaxDatagrams
    /\ n_recv_bufs \in Nat
    /\ recv_buf_pool \in Seq(1..n_recv_bufs)
    /\ krpc_map \in SUBSET (1..n_recv_bufs)
    /\ parsed \in SUBSET (1..n_recv_bufs)
    /\ current \in (1..n_recv_bufs) \cup {None}
    /\ LoopState /\ FreshBuffer /\ OneRecvBuffer

SendInv ==
    /\ n_send_bufs \in 0..MaxReqs
    /\ send_req_pool \in Seq(1..n_send_bufs)
    /\ written \in [1..n_send_bufs -> Msg]
    /\ inflight \in SUBSET ((1..n_send_bufs) \X Msg)
    /\ early \in SUBSET (1..n_send_bufs)
    /\ OneOwner /\ InFlightIntact

\* The inductive invariant.
IInv == RecvInv /\ SendInv

-----------------------------------------------------------------------------
(* Pushing to and popping from a pool.                                     *)

\* The elements of a sequence with one more, at its end.
LEMMA PushFacts ==
    ASSUME NEW T, NEW s \in Seq(T), NEW e \in T
    PROVE  /\ Append(s, e) \in Seq(T) /\ Append(s, e) # << >>
           /\ DOMAIN Append(s, e) = 1..(Len(s) + 1) /\ DOMAIN s = 1..Len(s)
           /\ Len(s) \in Nat
           /\ \A i \in 1..Len(s) : Append(s, e)[i] = s[i]
           /\ Append(s, e)[Len(s) + 1] = e
           /\ Last(Append(s, e)) = e
<1>1. /\ Append(s, e) \in Seq(T) /\ Append(s, e) # << >>
      /\ Len(Append(s, e)) = Len(s) + 1
      /\ \A i \in 1..Len(s) : Append(s, e)[i] = s[i]
      /\ Append(s, e)[Len(s) + 1] = e
  BY AppendProperties
<1>2. Len(s) \in Nat /\ DOMAIN s = 1..Len(s)
  BY LenProperties
<1>3. DOMAIN Append(s, e) = 1..(Len(s) + 1)
  BY <1>1, LenProperties
<1>4. QED
  BY <1>1, <1>2, <1>3 DEF Last

\* The elements of a sequence without its last one.
LEMMA PopFacts ==
    ASSUME NEW T, NEW s \in Seq(T), s # << >>
    PROVE  /\ Front(s) \in Seq(T) /\ Last(s) \in T
           /\ Len(s) \in Nat \ {0} /\ DOMAIN s = 1..Len(s)
           /\ DOMAIN Front(s) = 1..(Len(s) - 1)
           /\ \A i \in 1..(Len(s) - 1) : Front(s)[i] = s[i]
<1>1. Len(s) \in Nat \ {0} /\ DOMAIN s = 1..Len(s) /\ s \in [1..Len(s) -> T]
  BY EmptySeq, LenProperties
<1>2. /\ Front(s) \in Seq(T)
      /\ Len(Front(s)) = Len(s) - 1
      /\ \A i \in 1..(Len(s) - 1) : Front(s)[i] = s[i]
  <2> DEFINE n == Len(s) - 1
  <2>1. n \in Int /\ 1 \in Int /\ \A i \in 1..n : s[i] \in T
    BY <1>1
  <2>2. /\ SubSeq(s, 1, n) \in Seq(T)
        /\ Len(SubSeq(s, 1, n)) = IF 1 <= n THEN n - 1 + 1 ELSE 0
        /\ \A i \in 1..(n - 1 + 1) : SubSeq(s, 1, n)[i] = s[1 + i - 1]
    BY <2>1, SubSeqProperties
  <2>3. QED
    BY <1>1, <2>2 DEF Front
<1>3. DOMAIN Front(s) = 1..(Len(s) - 1)
  BY <1>2, LenProperties
<1>4. QED
  BY <1>1, <1>2, <1>3 DEF Last

-----------------------------------------------------------------------------
LEMMA InitIInv == Init => IInv
<1> SUFFICES ASSUME Init PROVE IInv
  OBVIOUS
<1>1. RecvInv
  BY BuffersAssumption
     DEF Init, RecvInv, LoopState, FreshBuffer, OneRecvBuffer
<1>2. SendInv
  BY BuffersAssumption DEF Init, SendInv, OneOwner, InFlightIntact, Pooled, Flying
<1>3. QED
  BY <1>1, <1>2 DEF IInv

\* Each side is kept by what does not touch it.
LEMMA RecvUnchanged == RecvInv /\ UNCHANGED <<phase, recvVars>> => RecvInv'
  BY DEF RecvInv, recvVars, LoopState, FreshBuffer, OneRecvBuffer

LEMMA SendUnchanged == SendInv /\ UNCHANGED sendVars => SendInv'
<1> SUFFICES ASSUME SendInv, UNCHANGED sendVars PROVE SendInv'
  OBVIOUS
<1>1. Pooled' = Pooled /\ Flying' = Flying
  BY DEF sendVars, Pooled, Flying
<1>2. OneOwner' /\ InFlightIntact'
  BY <1>1 DEF SendInv, sendVars, OneOwner, InFlightIntact
<1>3. QED
  BY <1>2 DEF SendInv, sendVars

-----------------------------------------------------------------------------
(* Receiving.                                                              *)

\* What is handed out: the buffer on top of the pool, cleared, or a new one
\* when the pool is empty.
LEMMA CbAllocKeeps == ASSUME RecvInv, CbAlloc PROVE RecvInv'
<1>1. CASE /\ recv_buf_pool # << >>
           /\ HandOut(Reused, parsed \ {Reused}, n_recv_bufs, krpc_map \cup {Reused})
  <2>1. Reused \in 1..n_recv_bufs
    BY <1>1, PopFacts DEF RecvInv, Reused
  <2>2. QED
    BY <1>1, <2>1 DEF RecvInv, HandOut, Reused, LoopState, FreshBuffer, OneRecvBuffer
<1>2. CASE /\ recv_buf_pool = << >>
           /\ HandOut(Fresh, parsed, Fresh, krpc_map \cup {Fresh})
  <2>1. Fresh \in Nat /\ 1..n_recv_bufs \subseteq 1..Fresh /\ Fresh \in 1..Fresh
        /\ Fresh \notin 1..n_recv_bufs
    BY DEF RecvInv, Fresh
  <2>2. recv_buf_pool' \in Seq(1..Fresh)
    BY <1>2 DEF HandOut
  <2>3. QED
    BY <1>2, <2>1, <2>2 DEF RecvInv, HandOut, LoopState, FreshBuffer, OneRecvBuffer
<1>3. QED
  BY <1>1, <1>2 DEF CbAlloc

\* Pushing the buffer that the callback has leaves copies of one buffer.
LEMMA PushKeeps ==
    ASSUME RecvInv, phase # "idle", recv_buf_pool' = Append(recv_buf_pool, current),
           current' = None
    PROVE  recv_buf_pool' \in Seq(1..n_recv_bufs) /\ OneRecvBuffer'
<1> DEFINE T == 1..n_recv_bufs
<1>1. recv_buf_pool \in Seq(T) /\ current \in T
      /\ (recv_buf_pool # << >> => current = Last(recv_buf_pool))
  BY DEF RecvInv, LoopState
<1>2. \A i \in DOMAIN recv_buf_pool : recv_buf_pool[i] = current
  <2>1. ASSUME NEW i \in DOMAIN recv_buf_pool PROVE recv_buf_pool[i] = current
    <3>1. recv_buf_pool # << >>
      OBVIOUS
    <3>2. Len(recv_buf_pool) \in DOMAIN recv_buf_pool
      BY <1>1, <3>1, PopFacts
    <3>3. QED
      BY <1>1, <3>1, <3>2 DEF RecvInv, OneRecvBuffer, Last
  <2>2. QED
    BY <2>1
<1> HIDE DEF T
<1>3. /\ recv_buf_pool' \in Seq(T)
      /\ DOMAIN recv_buf_pool' = 1..(Len(recv_buf_pool) + 1)
      /\ DOMAIN recv_buf_pool = 1..Len(recv_buf_pool)
      /\ Len(recv_buf_pool) \in Nat
      /\ \A i \in 1..Len(recv_buf_pool) : recv_buf_pool'[i] = recv_buf_pool[i]
      /\ recv_buf_pool'[Len(recv_buf_pool) + 1] = current
  BY <1>1, PushFacts
<1>4. \A i \in DOMAIN recv_buf_pool' : recv_buf_pool'[i] = current
  BY <1>2, <1>3
<1>5. QED
  BY <1>3, <1>4 DEF OneRecvBuffer, T

LEMMA CbRecvEarlyFreeKeeps == ASSUME RecvInv, CbRecvEarlyFree PROVE RecvInv'
<1>1. recv_buf_pool' \in Seq(1..n_recv_bufs) /\ OneRecvBuffer'
  BY PushKeeps DEF CbRecvEarlyFree
<1>2. LoopState' /\ FreshBuffer'
  BY DEF RecvInv, CbRecvEarlyFree, LoopState, FreshBuffer
<1>3. current \in 1..n_recv_bufs /\ datagrams' \in 0..MaxDatagrams
  BY BuffersAssumption DEF RecvInv, CbRecvEarlyFree, LoopState
<1>4. QED
  BY <1>1, <1>2, <1>3 DEF RecvInv, CbRecvEarlyFree

LEMMA CbRecvBadParseKeeps == ASSUME RecvInv, CbRecvBadParse PROVE RecvInv'
<1>1. recv_buf_pool' \in Seq(1..n_recv_bufs) /\ OneRecvBuffer'
  BY DEF RecvInv, CbRecvBadParse, OneRecvBuffer, LoopState
<1>2. LoopState' /\ FreshBuffer'
  BY DEF RecvInv, CbRecvBadParse, LoopState, FreshBuffer
<1>3. current \in 1..n_recv_bufs /\ datagrams' \in 0..MaxDatagrams
  BY BuffersAssumption DEF RecvInv, CbRecvBadParse, LoopState
<1>4. QED
  BY <1>1, <1>2, <1>3 DEF RecvInv, CbRecvBadParse

LEMMA CbRecvHandleKeeps == ASSUME RecvInv, CbRecvHandle PROVE RecvInv'
<1>1. recv_buf_pool' \in Seq(1..n_recv_bufs) /\ OneRecvBuffer'
  BY DEF RecvInv, CbRecvHandle, OneRecvBuffer, LoopState
<1>2. LoopState' /\ FreshBuffer'
  BY DEF RecvInv, CbRecvHandle, LoopState, FreshBuffer
<1>3. current \in 1..n_recv_bufs /\ datagrams' \in 0..MaxDatagrams
  BY BuffersAssumption DEF RecvInv, CbRecvHandle, LoopState
<1>4. QED
  BY <1>1, <1>2, <1>3 DEF RecvInv, CbRecvHandle

LEMMA HandleReturnKeeps == ASSUME RecvInv, HandleReturn PROVE RecvInv'
<1>1. recv_buf_pool' \in Seq(1..n_recv_bufs) /\ OneRecvBuffer'
  BY PushKeeps DEF HandleReturn
<1>2. LoopState' /\ FreshBuffer'
  BY DEF RecvInv, HandleReturn, LoopState, FreshBuffer
<1>3. current \in 1..n_recv_bufs /\ datagrams' \in 0..MaxDatagrams
  BY BuffersAssumption DEF RecvInv, HandleReturn, LoopState
<1>4. QED
  BY <1>1, <1>2, <1>3 DEF RecvInv, HandleReturn

-----------------------------------------------------------------------------
(* Sending.                                                                *)

\* A request has one message in flight at most: the one in its buffer.
LEMMA OnePair ==
    ASSUME InFlightIntact, inflight \in SUBSET ((1..n_send_bufs) \X Msg),
           NEW p \in inflight, NEW q \in inflight, p[1] = q[1]
    PROVE  p = q
<1>1. p = <<p[1], p[2]>> /\ q = <<q[1], q[2]>>
  OBVIOUS
<1>2. p[2] = q[2]
  BY DEF InFlightIntact
<1>3. QED
  BY <1>1, <1>2

\* A request that has no owner but the caller of uv_udp_send is given to libuv,
\* or to nobody.
LEMMA SubmitKeeps ==
    ASSUME SendInv, NEW count \in 0..MaxReqs, NEW req \in 1..count, NEW m \in Msg,
           NEW ok \in BOOLEAN, NEW pool \in Seq(1..count),
           n_send_bufs <= count,
           1..count = (1..n_send_bufs) \cup {req},
           req \notin Flying, req \notin early,
           \A i, j \in DOMAIN pool : i # j => pool[i] # pool[j],
           {pool[i] : i \in DOMAIN pool} = Pooled \ {req},
           Submit(req, m, ok, pool, count)
    PROVE  SendInv'
<1> DEFINE P == {pool[i] : i \in DOMAIN pool}
<1>1. Pooled' = P
  BY DEF Submit, Pooled
<1>2. /\ Flying' \cup early' = Flying \cup early \cup {req}
      /\ Flying' \cap early' = {}
      /\ Flying \subseteq Flying' /\ early \subseteq early'
  <2>1. CASE ok
    <3>1. inflight' = inflight \cup {<<req, m>>} /\ early' = early
      BY <2>1 DEF Submit
    <3>2. Flying' = Flying \cup {req}
      <4>1. <<req, m>> \in inflight' /\ <<req, m>>[1] = req
        BY <3>1
      <4>2. req \in Flying'
        BY <4>1 DEF Flying
      <4>3. \A p \in inflight' : p \in inflight \/ p[1] = req
        BY <3>1
      <4>4. Flying' \subseteq Flying \cup {req}
        BY <4>3 DEF Flying
      <4>5. Flying \subseteq Flying'
        BY <3>1 DEF Flying
      <4>6. QED
        BY <4>2, <4>4, <4>5
    <3>3. QED
      BY <3>1, <3>2 DEF SendInv, OneOwner
  <2>2. CASE ~ ok
    <3>1. inflight' = inflight /\ early' = early \cup {req}
      BY <2>2 DEF Submit
    <3>2. Flying' = Flying
      BY <3>1 DEF Flying
    <3>3. QED
      BY <3>1, <3>2 DEF SendInv, OneOwner
  <2>3. QED
    BY <2>1, <2>2
<1>3. OneOwner'
  <2>1. /\ send_req_pool' = pool /\ n_send_bufs' = count
    BY DEF Submit
  <2>2. P = Pooled \ {req}
    OBVIOUS
  <2> HIDE DEF P
  <2>3. Pooled' \cap Flying' = {} /\ Pooled' \cap early' = {}
    BY <1>1, <1>2, <2>2 DEF SendInv, OneOwner
  <2>4. Pooled' \cup Flying' \cup early' = 1..count
    BY <1>1, <1>2, <2>2 DEF SendInv, OneOwner
  <2>5. QED
    BY <1>2, <2>1, <2>3, <2>4 DEF OneOwner
<1>4. InFlightIntact'
  <2> SUFFICES ASSUME NEW p \in inflight' PROVE written'[p[1]] = p[2]
    BY DEF InFlightIntact
  <2>1. CASE p \in inflight
    <3>1. p[1] # req /\ p[1] \in 1..n_send_bufs
      BY <2>1 DEF Flying, SendInv
    <3>2. written'[p[1]] = written[p[1]]
      BY <3>1 DEF Submit
    <3>3. QED
      BY <2>1, <3>2 DEF SendInv, InFlightIntact
  <2>2. CASE p \notin inflight
    <3>1. p = <<req, m>>
      BY <2>2 DEF Submit
    <3>2. QED
      BY <3>1 DEF Submit
  <2>3. QED
    BY <2>1, <2>2
<1>5. written' \in [1..count -> Msg]
  <2>1. \A r \in 1..count : r # req => r \in 1..n_send_bufs
    OBVIOUS
  <2>2. written \in [1..n_send_bufs -> Msg]
    BY DEF SendInv
  <2>3. written' = [r \in 1..count |-> IF r = req THEN m ELSE written[r]]
    BY DEF Submit
  <2>4. QED
    BY <2>1, <2>2, <2>3
<1>6. inflight' \in SUBSET ((1..count) \X Msg) /\ early' \in SUBSET (1..count)
  <2>1. <<req, m>> \in (1..count) \X Msg /\ 1..n_send_bufs \subseteq 1..count
    OBVIOUS
  <2>2. inflight \in SUBSET ((1..count) \X Msg) /\ early \in SUBSET (1..count)
    BY <2>1 DEF SendInv
  <2>3. /\ inflight' = inflight \/ inflight' = inflight \cup {<<req, m>>}
        /\ early' = early \/ early' = early \cup {req}
    BY DEF Submit
  <2>4. QED
    BY <2>1, <2>2, <2>3
<1>7. QED
  BY <1>3, <1>4, <1>5, <1>6 DEF SendInv, Submit

LEMMA SendMsgKeeps ==
    ASSUME SendInv, NEW m \in Msg, NEW ok \in BOOLEAN, SendMsg(m, ok)
    PROVE  SendInv'
<1>1. CASE /\ send_req_pool = << >> /\ n_send_bufs < MaxReqs
           /\ Submit(n_send_bufs + 1, m, ok, << >>, n_send_bufs + 1)
  <2> DEFINE n == n_send_bufs + 1
             none == << >>
  <2>1. /\ n \in 0..MaxReqs /\ n \in 1..n /\ n_send_bufs <= n
        /\ 1..n = (1..n_send_bufs) \cup {n} /\ n \notin 1..n_send_bufs
    BY <1>1, BuffersAssumption DEF SendInv
  <2>2. n \notin Flying /\ n \notin early
    BY <2>1 DEF SendInv, OneOwner
  <2>3. none \in Seq(1..n) /\ DOMAIN none = {} /\ Pooled = {}
    BY <1>1 DEF Pooled
  <2>4. Submit(n, m, ok, none, n)
    BY <1>1
  <2> HIDE DEF n, none
  <2>5. {none[i] : i \in DOMAIN none} = Pooled \ {n}
    BY <2>3
  <2>6. \A i, j \in DOMAIN none : i # j => none[i] # none[j]
    BY <2>3
  <2>7. QED
    BY <2>1, <2>2, <2>3, <2>4, <2>5, <2>6, SubmitKeeps
<1>2. CASE /\ send_req_pool # << >>
           /\ Submit(Last(send_req_pool), m, ok, Front(send_req_pool), n_send_bufs)
  <2> DEFINE n == n_send_bufs
             s == send_req_pool
             req == Last(s)
  <2>1. /\ Front(s) \in Seq(1..n) /\ req \in 1..n
        /\ Len(s) \in Nat \ {0} /\ DOMAIN s = 1..Len(s)
        /\ DOMAIN Front(s) = 1..(Len(s) - 1)
        /\ \A i \in 1..(Len(s) - 1) : Front(s)[i] = s[i]
    BY <1>2, PopFacts DEF SendInv
  <2>2. /\ \A i, j \in DOMAIN s : i # j => s[i] # s[j]
        /\ req = s[Len(s)]
    BY DEF SendInv, OneOwner, Last
  <2>3. \A i, j \in DOMAIN Front(s) : i # j => Front(s)[i] # Front(s)[j]
    BY <2>1, <2>2
  <2>4. {Front(s)[i] : i \in DOMAIN Front(s)} = Pooled \ {req}
    <3>1. ASSUME NEW x \in {Front(s)[i] : i \in DOMAIN Front(s)}
          PROVE  x \in Pooled \ {req}
      BY <2>1, <2>2 DEF Pooled
    <3>2. ASSUME NEW x \in Pooled \ {req}
          PROVE  x \in {Front(s)[i] : i \in DOMAIN Front(s)}
      <4>1. PICK i \in DOMAIN s : x = s[i]
        BY DEF Pooled
      <4>2. i # Len(s)
        BY <2>2, <4>1
      <4>3. i \in 1..(Len(s) - 1)
        BY <2>1, <4>2
      <4>4. QED
        BY <2>1, <4>1, <4>3
    <3>3. QED
      BY <3>1, <3>2
  <2>5. req \in Pooled
    BY <2>1, <2>2 DEF Pooled
  <2>6. req \notin Flying /\ req \notin early
    BY <2>5 DEF SendInv, OneOwner
  <2>7. n \in 0..MaxReqs /\ n_send_bufs <= n /\ 1..n = (1..n_send_bufs) \cup {req}
    BY <2>1, BuffersAssumption DEF SendInv
  <2> HIDE DEF n, s, req
  <2>8. Submit(req, m, ok, Front(s), n)
    BY <1>2 DEF n, s, req
  <2>9. QED
    BY <2>1, <2>3, <2>4, <2>6, <2>7, <2>8, SubmitKeeps
<1>3. QED
  BY <1>1, <1>2 DEF SendMsg

\* A request goes back from libuv to the pool.
LEMMA CbSendMsgKeeps ==
    ASSUME SendInv, NEW req \in 1..MaxReqs, NEW status \in {-1, 0}, CbSendMsg(req, status)
    PROVE  SendInv'
<1> DEFINE s == send_req_pool
           T == 1..n_send_bufs
<1>1. PICK p \in inflight : p[1] = req /\ inflight' = inflight \ {p}
  BY DEF CbSendMsg
<1>2. req \in T /\ s \in Seq(T)
  BY <1>1 DEF SendInv
<1>3. req \in Flying /\ req \notin Pooled /\ req \notin early
  BY <1>1 DEF Flying, SendInv, OneOwner
<1>4. Flying' = Flying \ {req}
  <2>1. \A q \in inflight : q[1] = req => q = p
    BY <1>1, OnePair DEF SendInv
  <2>2. QED
    BY <1>1, <2>1 DEF Flying
<1>5. send_req_pool' = Append(s, req) /\ n_send_bufs' = n_send_bufs
      /\ written' = written /\ early' = early
  BY DEF CbSendMsg
<1> HIDE DEF T
<1>6. /\ send_req_pool' \in Seq(T)
      /\ DOMAIN send_req_pool' = 1..(Len(s) + 1) /\ DOMAIN s = 1..Len(s)
      /\ Len(s) \in Nat
      /\ \A i \in 1..Len(s) : send_req_pool'[i] = s[i]
      /\ send_req_pool'[Len(s) + 1] = req
  BY <1>2, <1>5, PushFacts
<1>7. Pooled' = Pooled \cup {req}
  BY <1>6 DEF Pooled
<1>8. \A i, j \in DOMAIN send_req_pool' : i # j => send_req_pool'[i] # send_req_pool'[j]
  <2>1. \A i \in DOMAIN s : s[i] # req
    BY <1>3 DEF Pooled
  <2>2. \A i, j \in DOMAIN s : i # j => s[i] # s[j]
    BY DEF SendInv, OneOwner
  <2>3. QED
    BY <1>6, <2>1, <2>2
<1>9. OneOwner'
  <2>1. /\ Pooled' \cap Flying' = {} /\ Pooled' \cap early' = {} /\ Flying' \cap early' = {}
        /\ Pooled' \cup Flying' \cup early' = 1..n_send_bufs
    BY <1>3, <1>4, <1>5, <1>7 DEF SendInv, OneOwner
  <2>2. QED
    BY <1>5, <1>8, <2>1 DEF OneOwner
<1>10. InFlightIntact'
  BY <1>1, <1>5 DEF SendInv, InFlightIntact
<1>11. QED
  BY <1>1, <1>5, <1>6, <1>9, <1>10 DEF SendInv, T

-----------------------------------------------------------------------------
\* The invariant holds of every behaviour.
LEMMA Invariance == Spec => []IInv
<1>1. IInv /\ [Next]_vars => IInv'
  <2> SUFFICES ASSUME IInv, [Next]_vars PROVE IInv'
    OBVIOUS
  <2>1. RecvInv /\ SendInv
    BY DEF IInv
  <2>2. ASSUME RecvInv', UNCHANGED sendVars PROVE IInv'
    BY <2>1, <2>2, SendUnchanged DEF IInv
  <2>3. ASSUME SendInv', UNCHANGED <<phase, recvVars>> PROVE IInv'
    BY <2>1, <2>3, RecvUnchanged DEF IInv
  <2>4. CASE CbAlloc
    BY <2>1, <2>2, <2>4, CbAllocKeeps DEF CbAlloc, HandOut
  <2>5. CASE CbRecvEarlyFree
    BY <2>1, <2>2, <2>5, CbRecvEarlyFreeKeeps DEF CbRecvEarlyFree
  <2>6. CASE CbRecvBadParse
    BY <2>1, <2>2, <2>6, CbRecvBadParseKeeps DEF CbRecvBadParse
  <2>7. CASE CbRecvHandle
    BY <2>1, <2>2, <2>7, CbRecvHandleKeeps DEF CbRecvHandle
  <2>8. CASE HandleReturn
    BY <2>1, <2>2, <2>8, HandleReturnKeeps DEF HandleReturn
  <2>9. CASE SendMsgBadAddr \/ UNCHANGED vars
    BY <2>1, <2>9, RecvUnchanged, SendUnchanged DEF SendMsgBadAddr, vars, IInv
  <2>10. ASSUME NEW m \in Msg, NEW ok \in BOOLEAN, SendMsg(m, ok) PROVE IInv'
    BY <2>1, <2>3, <2>10, SendMsgKeeps DEF SendMsg, Submit
  <2>11. ASSUME NEW req \in 1..MaxReqs, NEW status \in {-1, 0}, CbSendMsg(req, status)
         PROVE  IInv'
    BY <2>1, <2>3, <2>11, CbSendMsgKeeps DEF CbSendMsg
  <2>12. QED
    BY <2>4, <2>5, <2>6, <2>7, <2>8, <2>9, <2>10, <2>11 DEF Next
<1>2. QED
  BY <1>1, InitIInv, PTL DEF Spec

\* Every buffer and request that is referred to was allocated, and libuv's
\* requests are among those that ST_ctl_n_send_bufs counts.
THEOREM BuffersTypeCorrect == Spec => []TypeOK
<1>1. IInv => TypeOK
  BY DEF IInv, RecvInv, SendInv, TypeOK
<1>2. QED
  BY <1>1, Invariance, PTL

\* cb_alloc hands libuv a buffer without the fields of an earlier message,
\* although parse_msg does not clear it.
THEOREM BuffersAreFresh == Spec => []FreshBuffer
<1>1. IInv => FreshBuffer
  BY DEF IInv, RecvInv
<1>2. QED
  BY <1>1, Invariance, PTL

\* However often cb_recv_msg pushes a buffer that cb_alloc never popped, no two
\* users share one.
THEOREM RecvBufferUnshared == Spec => []OneRecvBuffer
<1>1. IInv => OneRecvBuffer
  BY DEF IInv, RecvInv
<1>2. QED
  BY <1>1, Invariance, PTL

\* send_msg and cb_send_msg neither lose a request, unless uv_udp_send refuses
\* it at once, nor give it two owners.
THEOREM RequestsOwnedOnce == Spec => []OneOwner
<1>1. IInv => OneOwner
  BY DEF IInv, SendInv
<1>2. QED
  BY <1>1, Invariance, PTL

\* send_msg never writes into a buffer that libuv is still sending from.
THEOREM InFlightUntouched == Spec => []InFlightIntact
<1>1. IInv => InFlightIntact
  BY DEF IInv, SendInv
<1>2. QED
  BY <1>1, Invariance, PTL

=============================================================================
