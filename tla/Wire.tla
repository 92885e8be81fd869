-------------------------------- MODULE Wire --------------------------------
(***************************************************************************)
(* The writers of cht/msg.cpp composed with the parser of cht/krpc.cpp: a   *)
(* crawler asks a node that is a crawler too, the node reads the query and  *)
(* answers, and the first one reads the answer.  Other nodes ask as well,   *)
(* with message ids (tok) of any length, and anybody sends anything.        *)
(*                                                                          *)
(* A datagram is the sequence of elements that xdecode reads, one a step.   *)
(* A string is [name, len], and [name, len, val] when its bytes are those   *)
(* of a node id, an infohash or a tok.  An id is five parts, the first four *)
(* bytes and the sixteen after them, each a set of one bits.                *)
(***************************************************************************)
EXTENDS Krpc, Sequences

CONSTANTS Bit,            \* the bits that stand for those of a part of an id
          MSG_CLOSE_SID,  \* whether the build defines MSG_CLOSE_SID
          GpTok,          \* the two-byte tokens of get_peers queries
          ForeignTok,     \* the lengths of the toks of other nodes
          ForeignQuery    \* the queries that other nodes send

\* A longer tok is refused, whatever comes with it.
ASSUME WireAssumption ==
    /\ Bit # {} /\ MSG_CLOSE_SID \in BOOLEAN
    /\ ForeignTok \subseteq 0..MAXLEN_TOK /\ ForeignQuery \subseteq Q_ANY

VARIABLES at,      \* the strings that the pointers of the KRPC object point to
          rest,    \* the elements of the datagram that are still to be read
          size,    \* the bytes of the datagram
          leg,     \* "idle", "query", "reply" or "dropped"
          talk     \* history: what was asked of whom, [nid, tok, meant, foreign]

talkVars == <<at, rest, size, leg, talk>>
wireVars == <<vars, talkVars>>

MIN_MSG_LEN == 45
MAXLEN == 1024
MSG_SEND_LEN == 256

Nih == [1..5 -> SUBSET Bit]

S(name, len) == [name |-> name, len |-> len]
Bytes(name, len, val) == [name |-> name, len |-> len, val |-> val]
Hash(nih) == Bytes("hash", NIH_LEN, nih)
Null == S("null", 0)

Dict == [el |-> "d"]
End == [el |-> "e"]
Int4 == [el |-> "i"]       \* an integer of four digits
Nul == [el |-> "nul"]      \* a zero byte
Elem(s) == [el |-> "s", s |-> s]

-----------------------------------------------------------------------------
(* The writers.                                                            *)

\* SID_MASK: three zero bytes, SID4, and sixteen letters, none of them zero.
SID_MASK == <<{}, {}, {}, IF MSG_CLOSE_SID THEN Bit ELSE {}, Bit>>

\* Mutation: the mask is set, not flipped.
write_sid_or(nid) == [i \in 1..5 |-> nid[i] \cup SID_MASK[i]]

\* write_sid: the id we show to a node is its own id XOR the mask.
write_sid(nid) ==
    [i \in 1..5 |-> (nid[i] \ SID_MASK[i]) \cup (SID_MASK[i] \ nid[i])]

\* Key, value.
Pair(key, value) == <<Elem(key), Elem(value)>>

\* The frame that Q_FN_PROTO, Q_GP_PROTO and Q_PG_PROTO share.
Query(sid, args, method, tok) ==
    <<Dict, Elem(S("a", 1)), Dict>> \o Pair(S("id", 2), Hash(sid)) \o args \o <<End>>
        \o Pair(S("q", 1), method) \o Pair(S("t", 1), tok) \o Pair(S("y", 1), S("q", 1))
        \o <<End>>

OUR_TOK_PG == Bytes("pg", 1, 0)
OUR_TOK_FN == Bytes("fn", 1, 0)
OUR_TOK_GP(tok) == Bytes("gp", 3, tok)
OUR_TOKEN == S("ours", 1)

q_pg(nid) == Query(write_sid(nid), << >>, S("ping", 4), OUR_TOK_PG)

q_fn(nid, target) ==
    Query(write_sid(nid), Pair(S("target", 6), Hash(target)), S("find_node", 9), OUR_TOK_FN)

\* Q_GP_PROTO is an array of 97 bytes with 96 initialisers.
q_gp(nid, ih, tok) ==
    Append(Query(write_sid(nid), Pair(S("info_hash", 9), Hash(ih)), S("get_peers", 9),
                 OUR_TOK_GP(tok)), Nul)

\* Mutation: the inner dictionary of a reply is not closed.
ReplyOpen(nid, body, tok) ==
    <<Dict>> \o Pair(S("y", 1), S("r", 1)) \o <<Elem(S("r", 1)), Dict>>
        \o Pair(S("id", 2), Hash(write_sid(nid))) \o body
        \o Pair(S("t", 1), tok) \o <<End>>

\* R_BASE and close_r_with_tok around the body of a reply.
Reply(nid, body, tok) ==
    <<Dict>> \o Pair(S("y", 1), S("r", 1)) \o <<Elem(S("r", 1)), Dict>>
        \o Pair(S("id", 2), Hash(write_sid(nid))) \o body \o <<End>>
        \o Pair(S("t", 1), tok) \o <<End>>

R_NODES == Pair(S("nodes", 5), S("pnode", PNODE_LEN))
R_TOKEN == Pair(S("token", 5), OUR_TOKEN)

r_pg(nid, tok) == Reply(nid, << >>, tok)
r_fn(nid, tok) == Reply(nid, R_NODES, tok)

\* Mutation: the get_peers reply has no token.
r_gp_no_token(nid, tok) == Reply(nid, R_NODES, tok)

r_gp(nid, tok) == Reply(nid, R_NODES \o R_TOKEN, tok)

\* The bytes of an element: a string has its length in decimal and a colon in
\* front.
SizeOf(e) ==
    CASE e.el = "s" -> (IF e.s.len < 10 THEN 2 ELSE 3) + e.s.len
      [] e.el = "i" -> 6
      [] OTHER -> 1

Size(elems) ==
    LET upTo[i \in 0..Len(elems)] == IF i = 0 THEN 0 ELSE upTo[i - 1] + SizeOf(elems[i])
    IN  upTo[Len(elems)]

-----------------------------------------------------------------------------
WireInit ==
    /\ Init
    /\ at = [k \in {"id", "t"} |-> Null]
    /\ rest = << >> /\ size = 0 /\ leg = "idle"
    /\ talk = [nid |-> Null, tok |-> Null, meant |-> "ANY", foreign |-> FALSE]

\* A cleared KRPC object, and the datagram on its way to it.
Send(elems) ==
    /\ xd_state' = "START" /\ hist' = NoHist /\ krpc' = Cleared /\ typed' = TRUE
    /\ at' = [k \in DOMAIN at |-> Null]
    /\ rest' = elems
    /\ size' = Size(elems)

\* A crawler asks the node nid.
Ask(nid, elems, meant, tok) ==
    /\ leg' = "query"
    /\ talk' = [nid |-> Hash(nid), tok |-> tok, meant |-> meant, foreign |-> FALSE]
    /\ Send(elems)

AskPing(nid) == Ask(nid, q_pg(nid), "Q_PG", OUR_TOK_PG)
AskFindNode(nid) == \E target \in Nih : Ask(nid, q_fn(nid, target), "Q_FN", OUR_TOK_FN)
AskGetPeers(nid) ==
    \E tok \in GpTok, ih \in Nih :
        Ask(nid, q_gp(nid, ih, tok), "Q_GP", OUR_TOK_GP(tok))

\* Another node's query, with its own id and tok.  One of the queries has a
\* port that it does not need, and an announcement has the token that we gave
\* out.
ForeignArgs(query, ih) ==
    CASE query = "Q_PG" -> << >>
      [] query = "Q_FN" -> Pair(S("target", 6), Hash(ih)) \o <<Elem(S("port", 4)), Int4>>
      [] query = "Q_GP" -> Pair(S("info_hash", 9), Hash(ih))
      [] query = "Q_AP" -> Pair(S("info_hash", 9), Hash(ih)) \o <<Elem(S("port", 4)), Int4>>
                               \o Pair(S("token", 5), OUR_TOKEN)

ForeignName(query) ==
    CASE query = "Q_PG" -> S("ping", 4)
      [] query = "Q_FN" -> S("find_node", 9)
      [] query = "Q_GP" -> S("get_peers", 9)
      [] query = "Q_AP" -> S("announce_peer", 13)

AskForeign(query, nid, len) ==
    LET tok == Bytes("foreign", len, 0)
    IN  /\ leg' = "query"
        /\ talk' = [nid |-> Hash(nid), tok |-> tok, meant |-> query, foreign |-> TRUE]
        /\ Send(Query(nid, ForeignArgs(query, nid), ForeignName(query), tok))

\* A datagram that ends after k elements of a query, or goes on with a byte
\* that is no element.
AskGarbled(nid, k, junk) ==
    /\ leg' = "query"
    /\ talk' = [nid |-> Hash(nid), tok |-> OUR_TOK_PG, meant |-> "none", foreign |-> TRUE]
    /\ Send(SubSeq(q_pg(nid), 1, k) \o junk)

\* One of them, when no datagram is being read.
AskOne ==
    /\ leg = "idle" /\ xd_state = "START" /\ krpc = Cleared
    /\ \/ \E nid \in Nih : AskPing(nid) \/ AskFindNode(nid) \/ AskGetPeers(nid)
       \/ \E query \in ForeignQuery, nid \in Nih, len \in ForeignTok :
             AskForeign(query, nid, len)
       \/ \E nid \in Nih, junk \in {<< >>, <<Nul>>} :
             \E k \in 1..(Len(q_pg(nid)) - 1) : AskGarbled(nid, k, junk)

\* Anybody's datagram, of which any element may come next.
AskAnything == leg = "idle" /\ Next /\ UNCHANGED talkVars

-----------------------------------------------------------------------------
\* The length checks of cb_recv_msg.  The buffer has MAXLEN bytes: a longer
\* datagram is clipped and fills it.
BadSize == size < MIN_MSG_LEN \/ size >= MAXLEN

Arriving == leg = "query" \/ (leg = "reply" /\ ~ talk.foreign)

Drop ==
    /\ Arriving /\ krpc.status = "reading" /\ xd_state = "START" /\ BadSize
    /\ leg' = "dropped"
    /\ UNCHANGED <<vars, at, rest, size, talk>>

\* The pointers that the value s of the current key is stored in.
Stores(s) ==
    IF \/ xd_state = "OVAL" /\ hist.key = "t"
       \/ xd_state = "IVAL" /\ hist.key = "id"
    THEN [at EXCEPT ![hist.key] = s] ELSE at

\* xdecode reads the next element.  No datagram here has a list.
ReadString(s) == OuterKey(s) \/ InnerKey(s) \/ OuterVal(s) \/ InnerVal(s)

ReadElem(e) ==
    \/ e.el = "d" /\ ReadDict /\ UNCHANGED at
    \/ e.el = "e" /\ ReadEnd /\ UNCHANGED at
    \/ e.el = "i" /\ ReadInt /\ UNCHANGED at
    \/ e.el = "nul" /\ ReadBad /\ UNCHANGED at
    \/ e.el = "s" /\ ReadString(e.s) /\ at' = Stores(e.s)

Read ==
    /\ Arriving /\ ~ BadSize
    /\ krpc.status = "reading" /\ rest # << >>
    /\ ReadElem(Head(rest))
    /\ rest' = Tail(rest)
    /\ UNCHANGED <<size, leg, talk>>

ReadOver ==
    /\ Arriving /\ ~ BadSize
    /\ rest = << >> /\ DataEnds
    /\ UNCHANGED <<at, rest, size, leg, talk>>

\* The writers that handle_msg calls for a query, with the KReply made of it.
\* The reply of Q_AP is that of Q_PG.
Answers(method) ==
    CASE method \in {"Q_PG", "Q_AP"} -> r_pg(at["id"].val, at["t"])
      [] method = "Q_FN" -> r_fn(at["id"].val, at["t"])
      [] method = "Q_GP" -> r_gp(at["id"].val, at["t"])

ReplyTo(query) ==
    CASE query \in {"Q_PG", "Q_AP"} -> "R_PG" [] query = "Q_FN" -> "R_FN" [] query = "Q_GP" -> "R_GP"

HandleQuery ==
    /\ leg = "query" /\ krpc.status = "ok" /\ krpc.method \in Q_ANY
    /\ leg' = "reply"
    /\ talk' = [talk EXCEPT !.meant = ReplyTo(krpc.method)]
    /\ Send(Answers(krpc.method))

\* The conversation is over: the answer was read, or is another node's to read.
Finish ==
    /\ leg = "dropped" \/ (leg = "reply" /\ (talk.foreign \/ krpc.status # "reading"))
       \/ (leg = "query" /\ krpc.status \notin {"reading", "ok"})
    /\ leg' = "idle"
    /\ talk' = [nid |-> Null, tok |-> Null, meant |-> "ANY", foreign |-> FALSE]
    /\ Send(<< >>)

WireNext ==
    \/ AskOne \/ AskAnything
    \/ Drop \/ Read \/ ReadOver \/ HandleQuery \/ Finish

WireSpec == WireInit /\ [][WireNext]_wireVars

-----------------------------------------------------------------------------
\* What a crawler writes, another one reads as what was meant: no query and no
\* reply is too short or too long for cb_recv_msg, none ends before xdecode is
\* done with it, and each is classified as the kind that the writer is named
\* for, whatever tok it carries.  So are the queries of other nodes, except
\* announcements: their case in xdecode falls into the error after it, which
\* refuses them, but none is ever taken for a query of another kind.
Understood ==
    talk.meant # "none" =>
        /\ leg # "dropped"
        /\ (leg # "idle" /\ krpc.status # "reading") =>
              /\ krpc.status # "abort"
              /\ krpc.status = "ok" => krpc.method = talk.meant
              /\ talk.meant # "Q_AP" => krpc.status = "ok"

\* A reply finds the cell of its query: two crawlers that do not know of each
\* other show each other masked ids, and the mask of the reply takes off the
\* mask of the query, so that the id and the tok that lookup_tok compares are
\* those of the query.
Attributable ==
    (leg = "reply" /\ ~ talk.foreign /\ krpc.status = "ok") =>
        at["id"] = talk.nid /\ at["t"] = talk.tok

\* Whatever tok another node's query has, the reply fits into the buffer of
\* send_msg, within the 100 bytes that the static_assert of msg.hpp allows
\* beside the tok, and is not so short that a crawler would not read it.
RepliesFit ==
    leg = "reply" =>
        /\ size <= 100 + talk.tok.len /\ size < MSG_SEND_LEN
        /\ size >= MIN_MSG_LEN

=============================================================================
