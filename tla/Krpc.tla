-------------------------------- MODULE Krpc --------------------------------
(***************************************************************************)
(* KRPC::xdecode and KRPC::validate of cht/krpc.cpp: the one-pass parser of *)
(* bencoded messages, which keeps only a few fields of what it reads, and   *)
(* the decision what kind of message it was.                                *)
(*                                                                          *)
(* One step reads one element of the datagram: the start of a dictionary or *)
(* of a list, an end, an integer or a string.  A string is [name, len]: the *)
(* name stands for its bytes.  The rest of the datagram can be anything, so *)
(* any element may come next.  The bit sets of the source, Key and Method,  *)
(* are sets here.  The error codes are one status, "error"; "abort" is an   *)
(* assertion that failed or the use of a null pointer.  ap_port is left     *)
(* out: the key port does not become current_key, so nothing sets it.       *)
(***************************************************************************)
EXTENDS Integers, FiniteSets

CONSTANTS Str,          \* the strings that messages are made of
          MAX_NODES,    \* 8
          MAX_PEERS,    \* 36
          MaxKeys       \* bound on the different known keys of a message

ASSUME KrpcAssumption ==
    /\ \A s \in Str : s.len \in Nat
    /\ MAX_NODES \in Nat \ {0} /\ MAX_PEERS \in Nat \ {0} /\ MaxKeys \in Nat

NIH_LEN == 20
PNODE_LEN == 26
PEERINFO_LEN == 6
MAXLEN_TOK == 32
MAXLEN_TOKEN == 32

Q_ANY == {"Q_AP", "Q_FN", "Q_GP", "Q_PG"}
R_ANY == {"R_FN", "R_GP", "R_PG"}
ANY == Q_ANY \cup R_ANY

OKeys == {"a", "r", "t", "q", "y"}
IKeys == {"id", "name", "port", "nodes", "token", "values", "target", "info_hash", "implied_port"}

IKEY_ANY_BODY == {"nodes", "values", "info_hash", "target", "token"}
IKEY_ANY_NON_TOKEN_BODY == IKEY_ANY_BODY \ {"token"}

NOKEY == "NOKEY"

\* Of a tok and a token, what validate tells apart: nothing stored yet, a tok
\* of the length and with the last byte of one of ours, a token that starts
\* with ours and is longer, or another string.
TokKind(s) == IF <<s.name, s.len>> \in {<<"gp", 3>>, <<"fn", 1>>, <<"pg", 1>>}
              THEN s.name ELSE "other"
TokenKind(s) == IF s.name = "ours" /\ s.len # 1 THEN "ours" ELSE "other"

VARIABLES xd_state,   \* "START", "OKEY", "IKEY", "OVAL", "IVAL" or "IVLIST"
          hist,       \* XDHist: [key, seen, kind]
          krpc,       \* the fields of the KRPC object
          typed       \* history: the values of string keys were strings so far

vars == <<xd_state, hist, krpc, typed>>

\* xd_hist at the start of xdecode, and a cleared KRPC object.
NoHist == [key |-> NOKEY, seen |-> {}, kind |-> ANY]
Cleared ==
    [status |-> "reading", method |-> "ANY", nid |-> FALSE, ih |-> FALSE, target |-> FALSE,
     tok |-> "null", token |-> "null", n_nodes |-> 0, n_peers |-> 0]

Init ==
    /\ xd_state = "START" /\ hist = NoHist /\ krpc = Cleared
    /\ typed = TRUE

Reading == krpc.status = "reading"

\* XD_FAIL, and the other ways to leave xdecode without a message: its locals
\* are gone, and the fields it wrote stay in the object.
Leave(status) ==
    /\ krpc' = [krpc EXCEPT !.status = status]
    /\ xd_state' = "START" /\ hist' = NoHist
    /\ UNCHANGED typed

-----------------------------------------------------------------------------
(* Keys.                                                                   *)

\* Mutation: the key a does not make the message a query.
NarrowsOnlyQ(k) ==
    CASE k = "q" -> Q_ANY
      [] k = "r" -> R_ANY
      [] k = "nodes" -> {"R_FN", "R_GP"}
      [] k = "token" -> ANY \ {"Q_FN"}
      [] k = "values" -> {"R_GP"}
      [] k = "target" -> {"Q_FN"}
      [] k = "info_hash" -> {"Q_GP", "Q_AP"}
      [] k \in {"implied_port", "name"} -> {"Q_AP"}
      [] OTHER -> ANY

\* The kinds of message in which a key may be.
Narrows(k) ==
    CASE k \in {"a", "q"} -> Q_ANY
      [] k = "r" -> R_ANY
      [] k = "nodes" -> {"R_FN", "R_GP"}
      [] k = "token" -> ANY \ {"Q_FN"}
      [] k = "values" -> {"R_GP"}
      [] k = "target" -> {"Q_FN"}
      [] k = "info_hash" -> {"Q_GP", "Q_AP"}
      [] k \in {"implied_port", "name"} -> {"Q_AP"}
      [] OTHER -> ANY

\* XDHist after the key k; the key port does not become the current one.
Saw(k) ==
    [key  |-> IF k = "port" THEN hist.key ELSE k,
     seen |-> hist.seen \cup {k},
     kind |-> hist.kind \cap Narrows(k)]

\* A key is read and its value comes next.
Key(state, h) ==
    /\ xd_state' = state
    /\ hist' = h
    /\ UNCHANGED <<krpc, typed>>

Clash(k) ==
    \/ k \in {"a", "q"} /\ "r" \in hist.seen
    \/ k = "r" /\ hist.seen \cap {"a", "q"} # {}

\* The keys that an inner dictionary of the message may have; name is unknown
\* unless the message may be an announcement.
IKnown == IF "Q_AP" \in hist.kind THEN IKeys ELSE IKeys \ {"name"}

\* case XD_OKEY of a string.  A key that is not one byte long leaves the
\* current key as it was.
OuterKey(s) ==
    /\ Reading /\ xd_state = "OKEY"
    /\ \/ s.len # 1 /\ Key("OVAL", hist)
       \/ s.len = 1 /\ s.name \notin OKeys /\ Key("OVAL", [hist EXCEPT !.key = NOKEY])
       \/ s.name \in OKeys /\ Clash(s.name) /\ Leave("error")
       \/ s.name \in OKeys /\ ~ Clash(s.name) /\ Key("OVAL", Saw(s.name))

\* case XD_IKEY of a string.  An unknown key leaves the current key as it was
\* when no known key has its length.
InnerKey(s) ==
    /\ Reading /\ xd_state = "IKEY"
    /\ \/ s.len \notin {2, 4, 5, 6, 9, 12} /\ Key("IVAL", hist)
       \/ /\ s.len \in {2, 4, 5, 6, 9, 12} /\ s.name \notin IKnown
          /\ Key("IVAL", [hist EXCEPT !.key = NOKEY])
       \/ s.name \in IKnown /\ Key("IVAL", Saw(s.name))

-----------------------------------------------------------------------------
(* Values.                                                                 *)

\* The value is read, and with it the fields become f and the kinds kind.
Value(state, f, kind) ==
    /\ xd_state' = state
    /\ krpc' = f
    /\ hist' = [hist EXCEPT !.kind = kind]
    /\ UNCHANGED typed

\* The queries that the value of q may name.  The case of announce_peer runs
\* into the error that follows it.
QueryOf(name) ==
    CASE name = "ping" -> {"Q_PG"}
      [] name = "get_peers" -> {"Q_GP"}
      [] name = "find_node" -> {"Q_FN"}
      [] OTHER -> {}

TypeOf(name) ==
    CASE name = "r" -> R_ANY [] name = "q" -> Q_ANY [] OTHER -> {}

\* case XD_OVAL of a string.
OuterVal(s) ==
    /\ Reading /\ xd_state = "OVAL"
    /\ \/ /\ hist.key = "q"
          /\ \/ QueryOf(s.name) = {} /\ Leave("error")
             \/ QueryOf(s.name) # {} /\ Value("OKEY", krpc, hist.kind \cap QueryOf(s.name))
       \/ /\ hist.key = "t"
          /\ \/ s.len > MAXLEN_TOK /\ Leave("error")
             \/ s.len <= MAXLEN_TOK /\ Value("OKEY", [krpc EXCEPT !.tok = TokKind(s)], hist.kind)
       \/ /\ hist.key = "y"
          /\ \/ TypeOf(s.name) = {} /\ Leave("error")
             \/ TypeOf(s.name) # {} /\ Value("OKEY", krpc, hist.kind \cap TypeOf(s.name))
       \/ hist.key \notin {"q", "t", "y"} /\ Value("OKEY", krpc, hist.kind)

\* Mutation: the length of a nodes list is not looked at.
GoodLengthNodes(key, len) ==
    CASE key \in {"id", "info_hash", "target"} -> len = NIH_LEN
      [] key = "token" -> len <= MAXLEN_TOKEN
      [] OTHER -> TRUE

\* The lengths that the value of an inner key may have.
GoodLength(key, len) ==
    CASE key \in {"id", "info_hash", "target"} -> len = NIH_LEN
      [] key = "nodes" -> len > 0 /\ len % PNODE_LEN = 0
      [] key = "token" -> len <= MAXLEN_TOKEN
      [] OTHER -> TRUE

\* Mutation: a long list of nodes is not truncated.
FieldsUncapped(s) ==
    CASE hist.key = "id" -> [krpc EXCEPT !.nid = TRUE]
      [] hist.key = "info_hash" -> [krpc EXCEPT !.ih = TRUE]
      [] hist.key = "target" -> [krpc EXCEPT !.target = TRUE]
      [] hist.key = "token" -> [krpc EXCEPT !.token = TokenKind(s)]
      [] hist.key = "nodes" -> [krpc EXCEPT !.n_nodes = s.len \div PNODE_LEN]
      [] OTHER -> krpc

\* The fields after the value of an inner key.  A name is not looked at here.
Fields(s) ==
    CASE hist.key = "id" -> [krpc EXCEPT !.nid = TRUE]
      [] hist.key = "info_hash" -> [krpc EXCEPT !.ih = TRUE]
      [] hist.key = "target" -> [krpc EXCEPT !.target = TRUE]
      [] hist.key = "token" -> [krpc EXCEPT !.token = TokenKind(s)]
      [] hist.key = "nodes" ->
            [krpc EXCEPT !.n_nodes =
                IF s.len > PNODE_LEN * MAX_NODES THEN MAX_NODES ELSE s.len \div PNODE_LEN]
      [] OTHER -> krpc

\* case XD_IVAL of a string.
InnerVal(s) ==
    /\ Reading /\ xd_state = "IVAL"
    /\ \/ ~ GoodLength(hist.key, s.len) /\ Leave("error")
       \/ GoodLength(hist.key, s.len) /\ Value("IKEY", Fields(s), hist.kind)

\* case XD_IVLIST of a string.
ListVal(s) ==
    /\ Reading /\ xd_state = "IVLIST"
    /\ \/ (hist.key # "values" \/ s.len # PEERINFO_LEN) /\ Leave("error")
       \/ /\ hist.key = "values" /\ s.len = PEERINFO_LEN
          /\ Value("IVLIST",
                   [krpc EXCEPT !.n_peers = IF @ < MAX_PEERS THEN @ + 1 ELSE @], hist.kind)

\* An element that is no string, in place of the value of the current key.
Skip(state) ==
    /\ xd_state' = state
    /\ typed' = (typed /\ hist.key \notin {"id", "info_hash", "target", "nodes", "t"})
    /\ UNCHANGED <<hist, krpc>>

\* case 'i'.
ReadInt ==
    /\ Reading
    /\ \/ xd_state = "OVAL" /\ Skip("OKEY")
       \/ xd_state = "IVAL" /\ Skip("IKEY")
       \/ xd_state \notin {"OVAL", "IVAL"} /\ Leave("error")

\* case 'l'.
ReadList ==
    /\ Reading
    /\ \/ xd_state = "IVAL" /\ Skip("IVLIST")
       \/ xd_state # "IVAL" /\ Leave("error")

\* case 'd'.  The value of any outer key may be the inner dictionary.
ReadDict ==
    /\ Reading
    /\ \/ xd_state = "START" /\ xd_state' = "OKEY" /\ UNCHANGED <<hist, krpc, typed>>
       \/ xd_state = "OVAL" /\ Skip("IKEY")
       \/ xd_state \notin {"START", "OVAL"} /\ Leave("error")

-----------------------------------------------------------------------------
(* The end of the message.                                                 *)

Has(keys) == hist.seen \cap keys # {}

\* The branches of validate for queries: the method, "error" or "abort".
\* token[0] is read of a token that may be null, and must be our token while
\* the token must be longer than ours is.
QueryVerdict ==
    CASE hist.kind \in {{"Q_AP"}, {"Q_GP"}} /\ ~ Has({"info_hash"}) -> "error"
      [] hist.kind = {"Q_GP"} /\ Has({"info_hash"}) -> "Q_GP"
      [] hist.kind = {"Q_AP"} /\ Has({"info_hash"}) ->
            (IF ~ Has({"port", "implied_port"}) THEN "error"
             ELSE IF krpc.token = "null" THEN "abort"
             ELSE IF krpc.token = "ours" THEN "Q_AP"
             ELSE "error")
      [] hist.kind = {"Q_FN"} -> (IF Has({"target"}) THEN "Q_FN" ELSE "error")
      [] hist.kind = {"Q_PG"} -> (IF Has(IKEY_ANY_BODY) THEN "error" ELSE "Q_PG")
      [] Cardinality(hist.kind) > 1 -> "error"

\* Mutation: nodes make a find_node reply, whatever comes with them.
ReplyVerdictNodesFirst ==
    CASE Has({"nodes"}) -> (IF krpc.tok = "fn" THEN "R_FN" ELSE "error")
      [] ~ Has({"nodes"}) /\ Has({"token"}) /\ Has({"values"}) ->
            (IF krpc.tok = "gp" THEN "R_GP" ELSE "error")
      [] ~ Has({"nodes"}) /\ ~ (Has({"token"}) /\ Has({"values"})) ->
            (IF krpc.tok = "pg" THEN "R_PG" ELSE "error")

\* The branches of validate for replies.
ReplyVerdict ==
    CASE Has({"token"}) /\ Has({"values", "nodes"}) ->
            (IF krpc.tok = "gp" /\ krpc.n_nodes + krpc.n_peers > 0 THEN "R_GP" ELSE "error")
      [] Has({"values"}) /\ ~ Has({"token"}) -> "error"
      [] Has({"nodes"}) /\ ~ Has({"values", "token"}) ->
            (IF krpc.tok = "fn" THEN "R_FN" ELSE "error")
      [] ~ Has({"nodes", "values"}) ->
            (IF krpc.tok = "pg" /\ ~ Has(IKEY_ANY_NON_TOKEN_BODY) THEN "R_PG" ELSE "error")

\* validate.
Verdict ==
    IF ~ {"id", "t"} \subseteq hist.seen THEN "error"
    ELSE IF hist.kind \cap Q_ANY # {} /\ hist.kind \cap R_ANY # {} THEN "abort"
    ELSE IF hist.kind \cap Q_ANY # {} THEN QueryVerdict
    ELSE IF hist.kind \cap R_ANY # {} THEN ReplyVerdict
    ELSE "error"

\* case 'e'.
ReadEnd ==
    /\ Reading
    /\ \/ xd_state = "IKEY" /\ xd_state' = "OKEY" /\ UNCHANGED <<hist, krpc, typed>>
       \/ xd_state = "IVLIST" /\ xd_state' = "IKEY" /\ UNCHANGED <<hist, krpc, typed>>
       \/ xd_state \in {"START", "OVAL", "IVAL"} /\ Leave("error")
       \/ xd_state = "OKEY" /\ Verdict \in {"error", "abort"} /\ Leave(Verdict)
       \/ /\ xd_state = "OKEY" /\ Verdict \in ANY
          /\ krpc' = [krpc EXCEPT !.status = "ok", !.method = Verdict]
          /\ UNCHANGED <<xd_state, hist, typed>>

\* Any other byte, a number that is negative or too large, a string outside
\* of a dictionary or one that is longer than what is left of the datagram.
ReadBad == Reading /\ Leave("error")

\* The datagram ends before the message does.
DataEnds == Reading /\ Leave("abort")

\* clear() and the next datagram.
NextDatagram ==
    /\ ~ Reading
    /\ xd_state' = "START" /\ hist' = NoHist /\ krpc' = Cleared
    /\ typed' = TRUE

Next ==
    \/ \E s \in Str :
          \/ (OuterKey(s) \/ InnerKey(s)) /\ Cardinality(hist'.seen) <= MaxKeys
          \/ OuterVal(s) \/ InnerVal(s) \/ ListVal(s)
    \/ ReadInt \/ ReadList \/ ReadDict \/ ReadEnd \/ ReadBad \/ DataEnds
    \/ NextDatagram

Spec == Init /\ [][Next]_vars

-----------------------------------------------------------------------------
\* Types; the node and peer counts stay within what was reserved for them.
TypeOK ==
    /\ xd_state \in {"START", "OKEY", "IKEY", "OVAL", "IVAL", "IVLIST"}
    /\ hist.key \in OKeys \cup IKeys \cup {NOKEY}
    /\ hist.seen \subseteq OKeys \cup IKeys /\ hist.kind \subseteq ANY
    /\ krpc.status \in {"reading", "ok", "error", "abort"}
    /\ krpc.method \in ANY \cup {"ANY"}
    /\ krpc.tok \in {"null", "gp", "fn", "pg", "other"}
    /\ krpc.token \in {"null", "ours", "other"}
    /\ krpc.n_nodes \in 0..MAX_NODES /\ krpc.n_peers \in 0..MAX_PEERS
    /\ krpc.nid \in BOOLEAN /\ krpc.ih \in BOOLEAN /\ krpc.target \in BOOLEAN
    /\ typed \in BOOLEAN

\* A message that is handed to handle_msg has the fields that its handler
\* reads without looking, as long as the values of its string keys were
\* strings: validate asks for keys that were seen, and the handlers follow the
\* pointers.
HandlerFields ==
    (krpc.status = "ok" /\ typed) =>
        /\ krpc.nid /\ krpc.tok # "null"
        /\ krpc.method \in {"Q_GP", "Q_AP"} => krpc.ih
        /\ krpc.method = "Q_FN" => krpc.target
        /\ krpc.method = "R_GP" => krpc.tok = "gp" /\ krpc.n_nodes + krpc.n_peers > 0
        /\ krpc.method = "R_FN" => krpc.n_nodes > 0

\* The two classifications agree: the method that validate picks by the keys
\* seen is one of the kinds that xdecode had not ruled out on the way, in
\* whatever order the keys came.
MethodAmongKinds == krpc.status = "ok" => krpc.method \in hist.kind

\* validate asserts that no message is both a query and a reply, and reads the
\* first byte of a token without asking whether there is one.  Which keys may
\* come before it fails: none that belongs to queries or to replies alone, or
\* those of an announcement that gave no token string.  Every other message
\* gets past both, whatever else it has and in whatever order.
WhatAborts ==
    (Reading /\ xd_state = "OKEY" /\ Verdict = "abort") =>
        \/ hist.seen \subseteq {"id", "t", "port", "token", "y"}
        \/ /\ hist.seen \cap {"implied_port", "name"} # {} /\ "info_hash" \in hist.seen
           /\ krpc.token = "null"

=============================================================================
