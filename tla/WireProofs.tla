----------------------------- MODULE WireProofs -----------------------------
(***************************************************************************)
(* The invariants of the parser, for every set of strings and all limits,   *)
(* and whoever writes the datagrams: other nodes, crawlers, or anybody.     *)
(*                                                                          *)
(* HandlerFields is about the end of a message and validate asks only which *)
(* keys were seen, so the invariant has to say all along that a key which   *)
(* was seen has its value, or that its value comes next.  MethodAmongKinds  *)
(* is about the choice by keys against the kinds that are left; it needs    *)
(* that a kind of reply is only ever ruled out by a key of another one.     *)
(*                                                                          *)
(* Understood is about whole messages, so the invariant of the conversation *)
(* says where the parser is after each number of elements of a query or a   *)
(* reply, and what was written is compared with it element by element.      *)
(***************************************************************************)
EXTENDS Wire, FiniteSetsExt, FiniteSetTheorems, SequenceTheorems, WellFoundedInduction, TLAPS

XDHist == [key : OKeys \cup IKeys \cup {NOKEY}, seen : SUBSET (OKeys \cup IKeys),
           kind : SUBSET ANY]

Object ==
    [status : {"reading", "ok", "error", "abort"}, method : ANY \cup {"ANY"},
     nid : BOOLEAN, ih : BOOLEAN, target : BOOLEAN,
     tok : {"null", "gp", "fn", "pg", "other"}, token : {"null", "ours", "other"},
     n_nodes : 0..MAX_NODES, n_peers : 0..MAX_PEERS]

Types ==
    /\ xd_state \in {"START", "OKEY", "IKEY", "OVAL", "IVAL", "IVLIST"}
    /\ hist \in XDHist /\ krpc \in Object /\ typed \in BOOLEAN

\* The value of the key k is what comes next.
Awaits(state, k) == xd_state = state /\ hist.key = k

\* A key that was seen has its value, or it comes next.
SeenHasValue ==
    (Reading /\ typed) =>
        /\ "id" \in hist.seen => krpc.nid \/ Awaits("IVAL", "id")
        /\ "info_hash" \in hist.seen => krpc.ih \/ Awaits("IVAL", "info_hash")
        /\ "target" \in hist.seen => krpc.target \/ Awaits("IVAL", "target")
        /\ "nodes" \in hist.seen => krpc.n_nodes > 0 \/ Awaits("IVAL", "nodes")
        /\ "t" \in hist.seen => krpc.tok # "null" \/ Awaits("OVAL", "t")

\* While any kind of reply is left, those that the keys allow are.
RepliesLeft ==
    hist.kind \cap R_ANY # {} =>
        /\ "R_GP" \in hist.kind
        /\ "values" \notin hist.seen => "R_FN" \in hist.kind
        /\ hist.seen \cap {"values", "nodes"} = {} => "R_PG" \in hist.kind

\* What every key seen has ruled out; and announcements are not told from
\* get_peers queries by any other key than implied_port and name.
Sides ==
    /\ \A k \in hist.seen : hist.kind \subseteq Narrows(k)
    /\ ("Q_AP" \in hist.kind /\ hist.seen \cap {"implied_port", "name"} = {}) =>
          "Q_GP" \in hist.kind

\* The inductive invariant of the parser.
KInv ==
    /\ Types /\ SeenHasValue /\ RepliesLeft /\ Sides
    /\ HandlerFields /\ MethodAmongKinds

\* What leaves the parser alone keeps its invariant.
LEMMA StutterKeepsKInv == ASSUME KInv, UNCHANGED vars PROVE KInv'
  BY DEF KInv, Types, SeenHasValue, RepliesLeft, Sides, HandlerFields, MethodAmongKinds, Awaits,
         Reading, vars

-----------------------------------------------------------------------------
LEMMA ClearedFacts == Cleared \in Object /\ NoHist \in XDHist
  BY KrpcAssumption DEF Cleared, NoHist, Object, XDHist, ANY, NOKEY

\* A cleared object and a fresh history satisfy the invariant.
LEMMA StartKInv ==
    ASSUME xd_state = "START", hist = NoHist, krpc = Cleared, typed = TRUE
    PROVE  KInv
<1>1. Types
  BY ClearedFacts DEF Types
<1>2. SeenHasValue /\ RepliesLeft /\ Sides /\ HandlerFields /\ MethodAmongKinds
  BY DEF SeenHasValue, RepliesLeft, Sides, HandlerFields, MethodAmongKinds, NoHist, Cleared,
         ANY, Q_ANY, R_ANY
<1>3. QED
  BY <1>1, <1>2 DEF KInv

LEMMA RestartKInv ==
    ASSUME xd_state' = "START", hist' = NoHist, krpc' = Cleared, typed' = TRUE
    PROVE  KInv'
<1>1. Types'
  BY ClearedFacts DEF Types
<1>2. SeenHasValue' /\ RepliesLeft' /\ Sides' /\ HandlerFields' /\ MethodAmongKinds'
  BY DEF SeenHasValue, RepliesLeft, Sides, HandlerFields, MethodAmongKinds, NoHist, Cleared,
         ANY, Q_ANY, R_ANY
<1>3. QED
  BY <1>1, <1>2 DEF KInv

\* Leaving xdecode without a message.
LEMMA LeaveKInv ==
    ASSUME KInv, NEW status \in {"error", "abort"}, Leave(status)
    PROVE  KInv'
<1>1. krpc' = [krpc EXCEPT !.status = status] /\ xd_state' = "START" /\ hist' = NoHist
      /\ typed' = typed
  BY DEF Leave
<1>2. Types' /\ krpc'.status = status
  BY <1>1, ClearedFacts DEF KInv, Types, Object
<1>3. SeenHasValue' /\ RepliesLeft' /\ Sides' /\ HandlerFields' /\ MethodAmongKinds'
  BY <1>1, <1>2 DEF SeenHasValue, RepliesLeft, Sides, HandlerFields, MethodAmongKinds, NoHist,
                    Reading, ANY, Q_ANY, R_ANY
<1>4. QED
  BY <1>2, <1>3 DEF KInv

-----------------------------------------------------------------------------
(* Keys.                                                                   *)

LEMMA SawFacts ==
    ASSUME hist \in XDHist, NEW k \in OKeys \cup IKeys
    PROVE  /\ Saw(k) \in XDHist
           /\ Saw(k).seen = hist.seen \cup {k}
           /\ Saw(k).kind = hist.kind \cap Narrows(k)
           /\ k # "port" => Saw(k).key = k
  BY DEF Saw, XDHist

\* What a key rules out.
LEMMA NarrowsFacts ==
    ASSUME NEW k \in OKeys \cup IKeys
    PROVE  /\ k \in {"a", "q"} => Narrows(k) = Q_ANY
           /\ k = "r" => Narrows(k) = R_ANY
           /\ ("Q_AP" \in Narrows(k) /\ k \notin {"implied_port", "name"}) => "Q_GP" \in Narrows(k)
           /\ \/ Narrows(k) \cap R_ANY = {}
              \/ R_ANY \subseteq Narrows(k)
              \/ k = "values" /\ Narrows(k) = {"R_GP"}
              \/ k = "nodes" /\ Narrows(k) = {"R_FN", "R_GP"}
  BY DEF Narrows, OKeys, IKeys, ANY, Q_ANY, R_ANY

\* A key outside of this list is in queries or in replies, never in both.
LEMMA SideKeys ==
    ASSUME NEW k \in OKeys \cup IKeys, k \notin {"id", "t", "port", "token", "y"}
    PROVE  Narrows(k) \cap Q_ANY = {} \/ Narrows(k) \cap R_ANY = {}
  BY DEF Narrows, OKeys, IKeys, ANY, Q_ANY, R_ANY

\* The history after a key keeps the relation of keys and kinds.
LEMMA SawKinds ==
    ASSUME hist \in XDHist, RepliesLeft, Sides, NEW k \in OKeys \cup IKeys, hist' = Saw(k)
    PROVE  RepliesLeft' /\ Sides'
<1>1. hist'.seen = hist.seen \cup {k} /\ hist'.kind = hist.kind \cap Narrows(k)
  BY SawFacts
<1>2. Sides'
  BY <1>1, NarrowsFacts DEF Sides
<1>3. RepliesLeft'
  <2>1. CASE Narrows(k) \cap R_ANY = {}
    BY <1>1, <2>1 DEF RepliesLeft
  <2>2. CASE R_ANY \subseteq Narrows(k)
    BY <1>1, <2>2 DEF RepliesLeft, R_ANY
  <2>3. CASE k = "values" /\ Narrows(k) = {"R_GP"}
    BY <1>1, <2>3 DEF RepliesLeft, R_ANY
  <2>4. CASE k = "nodes" /\ Narrows(k) = {"R_FN", "R_GP"}
    BY <1>1, <2>4 DEF RepliesLeft, R_ANY
  <2>5. QED
    BY <2>1, <2>2, <2>3, <2>4, NarrowsFacts
<1>4. QED
  BY <1>2, <1>3

\* A key that becomes the current one awaits its value; one that does not is
\* none of those whose value is asked for.
LEMMA KeyKInv ==
    ASSUME KInv, Reading,
           NEW state \in {"OVAL", "IVAL"}, NEW h \in XDHist, Key(state, h),
           xd_state = IF state = "OVAL" THEN "OKEY" ELSE "IKEY",
           \/ h.seen = hist.seen /\ h.kind = hist.kind
           \/ /\ state = "OVAL" /\ \E k \in OKeys : h = Saw(k)
           \/ /\ state = "IVAL" /\ \E k \in IKeys : h = Saw(k)
    PROVE  KInv'
<1>1. xd_state' = state /\ hist' = h /\ krpc' = krpc /\ typed' = typed
  BY DEF Key
<1>2. Types'
  BY <1>1 DEF KInv, Types
<1>3. hist \in XDHist
  BY DEF KInv, Types
<1>4. RepliesLeft' /\ Sides'
  BY <1>1, <1>3, SawKinds DEF KInv, RepliesLeft, Sides
<1>5. SeenHasValue'
  <2>1. CASE h.seen = hist.seen
    BY <1>1, <2>1 DEF KInv, SeenHasValue, Reading, Awaits
  <2>2. ASSUME NEW k \in OKeys, state = "OVAL", h = Saw(k) PROVE SeenHasValue'
    BY <1>1, <1>3, <2>2, SawFacts DEF KInv, SeenHasValue, Reading, Awaits, OKeys
  <2>3. ASSUME NEW k \in IKeys, state = "IVAL", h = Saw(k) PROVE SeenHasValue'
    BY <1>1, <1>3, <2>3, SawFacts DEF KInv, SeenHasValue, Reading, Awaits, IKeys
  <2>4. QED
    BY <2>1, <2>2, <2>3
<1>6. HandlerFields' /\ MethodAmongKinds'
  BY <1>1 DEF HandlerFields, MethodAmongKinds, Reading
<1>7. QED
  BY <1>2, <1>4, <1>5, <1>6 DEF KInv

LEMMA OuterKeyKInv == ASSUME KInv, NEW s, OuterKey(s) PROVE KInv'
<1>1. Reading /\ xd_state = "OKEY" /\ hist \in XDHist
  BY DEF OuterKey, KInv, Types
<1>2. CASE Key("OVAL", hist)
  BY <1>1, <1>2, KeyKInv
<1>3. CASE Key("OVAL", [hist EXCEPT !.key = NOKEY])
  <2> DEFINE h == [hist EXCEPT !.key = NOKEY]
  <2>1. h \in XDHist /\ h.seen = hist.seen /\ h.kind = hist.kind
    BY <1>1 DEF XDHist
  <2> HIDE DEF h
  <2>2. Key("OVAL", h)
    BY <1>3 DEF h
  <2>3. QED
    BY <1>1, <2>1, <2>2, KeyKInv
<1>4. CASE Leave("error")
  BY <1>4, LeaveKInv
<1>5. CASE s.name \in OKeys /\ Key("OVAL", Saw(s.name))
  <2>1. Saw(s.name) \in XDHist
    BY <1>1, <1>5, SawFacts
  <2>2. QED
    BY <1>1, <1>5, <2>1, KeyKInv
<1>6. QED
  BY <1>2, <1>3, <1>4, <1>5 DEF OuterKey

LEMMA InnerKeyKInv == ASSUME KInv, NEW s, InnerKey(s) PROVE KInv'
<1>1. Reading /\ xd_state = "IKEY" /\ hist \in XDHist
  BY DEF InnerKey, KInv, Types
<1>2. CASE Key("IVAL", hist)
  BY <1>1, <1>2, KeyKInv
<1>3. CASE Key("IVAL", [hist EXCEPT !.key = NOKEY])
  <2> DEFINE h == [hist EXCEPT !.key = NOKEY]
  <2>1. h \in XDHist /\ h.seen = hist.seen /\ h.kind = hist.kind
    BY <1>1 DEF XDHist
  <2> HIDE DEF h
  <2>2. Key("IVAL", h)
    BY <1>3 DEF h
  <2>3. QED
    BY <1>1, <2>1, <2>2, KeyKInv
<1>4. CASE s.name \in IKnown /\ Key("IVAL", Saw(s.name))
  <2>1. s.name \in IKeys
    BY <1>4 DEF IKnown
  <2>2. Saw(s.name) \in XDHist
    BY <1>1, <2>1, SawFacts
  <2>3. QED
    BY <1>1, <1>4, <2>1, <2>2, KeyKInv
<1>5. QED
  BY <1>2, <1>3, <1>4 DEF InnerKey

-----------------------------------------------------------------------------
(* Values.                                                                 *)

\* A value may rule out all queries or all replies, and single queries.
LEMMA ValueKInv ==
    ASSUME KInv, Reading, NEW state \in {"OKEY", "IKEY", "IVLIST"}, NEW f \in Object,
           f.status = "reading", NEW kind \in SUBSET hist.kind,
           kind \cap R_ANY \in {{}, hist.kind \cap R_ANY}, Value(state, f, kind),
           "Q_AP" \in kind /\ "Q_GP" \in hist.kind => "Q_GP" \in kind,
           typed =>
              /\ "id" \in hist.seen => f.nid
              /\ "info_hash" \in hist.seen => f.ih
              /\ "target" \in hist.seen => f.target
              /\ "nodes" \in hist.seen => f.n_nodes > 0
              /\ "t" \in hist.seen => f.tok # "null"
    PROVE  KInv'
<1>1. /\ xd_state' = state /\ krpc' = f /\ typed' = typed
      /\ hist' = [hist EXCEPT !.kind = kind]
  BY DEF Value
<1>2. hist \in XDHist
  BY DEF KInv, Types
<1>3. hist' \in XDHist /\ hist'.seen = hist.seen /\ hist'.key = hist.key /\ hist'.kind = kind
  BY <1>1, <1>2 DEF XDHist
<1>4. Types'
  BY <1>1, <1>3 DEF KInv, Types
<1>5. Sides'
  BY <1>3 DEF KInv, Sides
<1>6. RepliesLeft'
  <2>1. CASE kind \cap R_ANY = {}
    BY <1>3, <2>1 DEF RepliesLeft
  <2>2. CASE kind \cap R_ANY = hist.kind \cap R_ANY
    BY <1>3, <2>2 DEF KInv, RepliesLeft, R_ANY
  <2>3. QED
    BY <2>1, <2>2
<1>7. SeenHasValue'
  BY <1>1, <1>3 DEF SeenHasValue
<1>8. HandlerFields' /\ MethodAmongKinds'
  BY <1>1 DEF HandlerFields, MethodAmongKinds
<1>9. QED
  BY <1>4, <1>5, <1>6, <1>7, <1>8 DEF KInv

LEMMA QueryOfFacts ==
    ASSUME NEW name
    PROVE  QueryOf(name) \cap R_ANY = {} /\ TypeOf(name) \in {R_ANY, Q_ANY, {}}
  BY DEF QueryOf, TypeOf, R_ANY

\* Outside of an inner dictionary only the value of t may be missing.
LEMMA OuterValues ==
    ASSUME KInv, Reading, xd_state \in {"OVAL", "OKEY", "IVLIST"}, typed
    PROVE  /\ "id" \in hist.seen => krpc.nid
           /\ "info_hash" \in hist.seen => krpc.ih
           /\ "target" \in hist.seen => krpc.target
           /\ "nodes" \in hist.seen => krpc.n_nodes > 0
           /\ ("t" \in hist.seen /\ (xd_state # "OVAL" \/ hist.key # "t")) => krpc.tok # "null"
  BY DEF KInv, SeenHasValue, Awaits

LEMMA OuterValKInv == ASSUME KInv, NEW s, OuterVal(s) PROVE KInv'
<1>1. /\ Reading /\ xd_state = "OVAL" /\ krpc \in Object /\ krpc.status = "reading"
      /\ hist.kind \in SUBSET ANY
  BY DEF OuterVal, KInv, Types, Reading, XDHist
<1>2. CASE Leave("error")
  BY <1>2, LeaveKInv
<1>3. CASE hist.key = "q" /\ Value("OKEY", krpc, hist.kind \cap QueryOf(s.name))
  <2>1. (hist.kind \cap QueryOf(s.name)) \cap R_ANY = {}
    BY QueryOfFacts
  <2>2. "Q_AP" \notin hist.kind \cap QueryOf(s.name)
    BY DEF QueryOf
  <2>3. QED
    BY <1>1, <1>3, <2>1, <2>2, OuterValues, ValueKInv
<1>4. CASE hist.key = "t" /\ Value("OKEY", [krpc EXCEPT !.tok = TokKind(s)], hist.kind)
  <2> DEFINE f == [krpc EXCEPT !.tok = TokKind(s)]
  <2>1. TokKind(s) \in {"gp", "fn", "pg", "other"}
    BY DEF TokKind
  <2>2. /\ f \in Object /\ f.status = "reading" /\ f.tok # "null"
        /\ f.nid = krpc.nid /\ f.ih = krpc.ih /\ f.target = krpc.target
        /\ f.n_nodes = krpc.n_nodes
    BY <1>1, <2>1 DEF Object
  <2> HIDE DEF f
  <2>3. Value("OKEY", f, hist.kind)
    BY <1>4 DEF f
  <2>4. QED
    BY <1>1, <2>2, <2>3, OuterValues, ValueKInv
<1>5. CASE hist.key = "y" /\ Value("OKEY", krpc, hist.kind \cap TypeOf(s.name))
  <2>1. (hist.kind \cap TypeOf(s.name)) \cap R_ANY \in {{}, hist.kind \cap R_ANY}
    <3>1. CASE TypeOf(s.name) = R_ANY
      BY <3>1
    <3>2. CASE TypeOf(s.name) \in {Q_ANY, {}}
      BY <3>2 DEF Q_ANY, R_ANY
    <3>3. QED
      BY <3>1, <3>2, QueryOfFacts
  <2>2. "Q_AP" \in TypeOf(s.name) => "Q_GP" \in TypeOf(s.name)
    BY DEF TypeOf, Q_ANY, R_ANY
  <2>3. QED
    BY <1>1, <1>5, <2>1, <2>2, OuterValues, ValueKInv
<1>6. CASE hist.key \notin {"q", "t", "y"} /\ Value("OKEY", krpc, hist.kind)
  BY <1>1, <1>6, OuterValues, ValueKInv
<1>7. QED
  BY <1>2, <1>3, <1>4, <1>5, <1>6 DEF OuterVal

\* A value of a good length fills the field of its key and no other.
LEMMA FieldsFacts ==
    ASSUME krpc \in Object, NEW s, s.len \in Nat, GoodLength(hist.key, s.len)
    PROVE  /\ Fields(s) \in Object /\ Fields(s).status = krpc.status
           /\ Fields(s).tok = krpc.tok
           /\ Fields(s).nid = (krpc.nid \/ hist.key = "id")
           /\ Fields(s).ih = (krpc.ih \/ hist.key = "info_hash")
           /\ Fields(s).target = (krpc.target \/ hist.key = "target")
           /\ hist.key = "nodes" => Fields(s).n_nodes > 0
           /\ hist.key # "nodes" => Fields(s).n_nodes = krpc.n_nodes
<1>1. CASE hist.key = "id"
  BY <1>1 DEF Fields, Object
<1>2. CASE hist.key = "info_hash"
  BY <1>2 DEF Fields, Object
<1>3. CASE hist.key = "target"
  BY <1>3 DEF Fields, Object
<1>4. CASE hist.key = "token"
  BY <1>4 DEF Fields, Object, TokenKind
<1>5. CASE hist.key = "nodes"
  <2> DEFINE n == IF s.len > PNODE_LEN * MAX_NODES THEN MAX_NODES ELSE s.len \div PNODE_LEN
  <2>1. s.len > 0 /\ s.len % 26 = 0
    BY <1>5 DEF GoodLength, PNODE_LEN
  <2>2. n \in 1..MAX_NODES
    BY <2>1, KrpcAssumption DEF PNODE_LEN
  <2>3. Fields(s) = [krpc EXCEPT !.n_nodes = n]
    BY <1>5 DEF Fields
  <2> HIDE DEF n
  <2>4. QED
    BY <1>5, <2>2, <2>3 DEF Object
<1>6. CASE hist.key \notin {"id", "info_hash", "target", "token", "nodes"}
  BY <1>6 DEF Fields, Object
<1>7. QED
  BY <1>1, <1>2, <1>3, <1>4, <1>5, <1>6

LEMMA InnerValKInv == ASSUME KInv, NEW s, s.len \in Nat, InnerVal(s) PROVE KInv'
<1>1. /\ Reading /\ xd_state = "IVAL" /\ krpc \in Object /\ krpc.status = "reading"
  BY DEF InnerVal, KInv, Types, Reading
<1>2. CASE Leave("error")
  BY <1>2, LeaveKInv
<1>3. CASE GoodLength(hist.key, s.len) /\ Value("IKEY", Fields(s), hist.kind)
  <2>1. /\ Fields(s) \in Object /\ Fields(s).status = "reading"
        /\ typed =>
              /\ "id" \in hist.seen => Fields(s).nid
              /\ "info_hash" \in hist.seen => Fields(s).ih
              /\ "target" \in hist.seen => Fields(s).target
              /\ "nodes" \in hist.seen => Fields(s).n_nodes > 0
              /\ "t" \in hist.seen => Fields(s).tok # "null"
    BY <1>1, <1>3, FieldsFacts DEF KInv, SeenHasValue, Awaits
  <2>2. QED
    BY <1>1, <1>3, <2>1, ValueKInv
<1>4. QED
  BY <1>2, <1>3 DEF InnerVal

LEMMA ListValKInv == ASSUME KInv, NEW s, ListVal(s) PROVE KInv'
<1>1. /\ Reading /\ xd_state = "IVLIST" /\ krpc \in Object /\ krpc.status = "reading"
  BY DEF ListVal, KInv, Types, Reading
<1>2. CASE Leave("error")
  BY <1>2, LeaveKInv
<1>3. CASE Value("IVLIST", [krpc EXCEPT !.n_peers = IF @ < MAX_PEERS THEN @ + 1 ELSE @],
                 hist.kind)
  <2> DEFINE n == IF krpc.n_peers < MAX_PEERS THEN krpc.n_peers + 1 ELSE krpc.n_peers
             f == [krpc EXCEPT !.n_peers = n]
  <2>1. n \in 0..MAX_PEERS
    BY <1>1, KrpcAssumption DEF Object
  <2>2. Value("IVLIST", f, hist.kind)
    BY <1>3
  <2> HIDE DEF n
  <2>3. /\ f \in Object /\ f.status = "reading" /\ f.tok = krpc.tok
        /\ f.nid = krpc.nid /\ f.ih = krpc.ih /\ f.target = krpc.target
        /\ f.n_nodes = krpc.n_nodes
    BY <1>1, <2>1 DEF Object
  <2> HIDE DEF f
  <2>4. QED
    BY <1>1, <2>2, <2>3, OuterValues, ValueKInv
<1>4. QED
  BY <1>2, <1>3 DEF ListVal

\* A value that is no string leaves a key without one, or is none of the keys
\* whose value is asked for.
LEMMA SkipKInv ==
    ASSUME KInv, Reading, NEW state \in {"OKEY", "IKEY", "IVLIST"}, Skip(state),
           xd_state \in {"OVAL", "IVAL"}
    PROVE  KInv'
<1>1. /\ xd_state' = state /\ hist' = hist /\ krpc' = krpc
      /\ typed' = (typed /\ hist.key \notin {"id", "info_hash", "target", "nodes", "t"})
  BY DEF Skip
<1>2. Types'
  BY <1>1 DEF KInv, Types
<1>3. RepliesLeft' /\ Sides'
  BY <1>1 DEF KInv, RepliesLeft, Sides
<1>4. SeenHasValue'
  BY <1>1 DEF KInv, SeenHasValue, Reading, Awaits
<1>5. HandlerFields' /\ MethodAmongKinds'
  BY <1>1 DEF HandlerFields, MethodAmongKinds, Reading
<1>6. QED
  BY <1>2, <1>3, <1>4, <1>5 DEF KInv

\* A dictionary or a list that opens or closes beside no value.
LEMMA MoveKInv ==
    ASSUME KInv, Reading, NEW state \in {"OKEY", "IKEY"}, xd_state' = state,
           UNCHANGED <<hist, krpc, typed>>, xd_state \in {"START", "IKEY", "IVLIST"}
    PROVE  KInv'
<1>1. Types'
  BY DEF KInv, Types
<1>2. RepliesLeft' /\ Sides' /\ SeenHasValue'
  BY DEF KInv, RepliesLeft, Sides, SeenHasValue, Reading, Awaits
<1>3. HandlerFields' /\ MethodAmongKinds'
  BY DEF HandlerFields, MethodAmongKinds, Reading
<1>4. QED
  BY <1>1, <1>2, <1>3 DEF KInv

LEMMA ReadIntKInv == ASSUME KInv, ReadInt PROVE KInv'
  BY LeaveKInv, SkipKInv DEF ReadInt

LEMMA ReadListKInv == ASSUME KInv, ReadList PROVE KInv'
  BY LeaveKInv, SkipKInv DEF ReadList

LEMMA ReadDictKInv == ASSUME KInv, ReadDict PROVE KInv'
  BY LeaveKInv, SkipKInv, MoveKInv DEF ReadDict

-----------------------------------------------------------------------------
(* The end of the message.                                                 *)

\* A query may be of one kind or of several.
LEMMA OneOrMore ==
    ASSUME NEW kind \in SUBSET Q_ANY, kind # {}
    PROVE  kind \in {{"Q_AP"}, {"Q_FN"}, {"Q_GP"}, {"Q_PG"}} \/ Cardinality(kind) > 1
<1>1. IsFiniteSet(Q_ANY)
  <2>1. Q_ANY = {"Q_AP"} \cup {"Q_FN"} \cup {"Q_GP"} \cup {"Q_PG"}
    BY DEF Q_ANY
  <2>2. IsFiniteSet({"Q_AP"})
    BY FS_Singleton
  <2>3. IsFiniteSet({"Q_AP"} \cup {"Q_FN"})
    BY <2>2, FS_AddElement
  <2>4. IsFiniteSet({"Q_AP"} \cup {"Q_FN"} \cup {"Q_GP"})
    BY <2>3, FS_AddElement
  <2>5. QED
    BY <2>1, <2>4, FS_AddElement
<1>2. IsFiniteSet(kind)
  BY <1>1, FS_Subset
<1>3. Cardinality(kind) \in Nat /\ Cardinality(kind) # 0
  BY <1>2, FS_CardinalityType, FS_EmptySet
<1>4. CASE Cardinality(kind) = 1
  <2>1. PICK x : kind = {x}
    BY <1>2, <1>4, FS_Singleton
  <2>2. x \in Q_ANY
    BY <2>1
  <2>3. QED
    BY <2>1, <2>2 DEF Q_ANY
<1>5. QED
  BY <1>3, <1>4

\* What a query must have had to be let through.
LEMMA QueryVerdictFacts ==
    ASSUME hist.kind \in SUBSET Q_ANY, hist.kind # {}, QueryVerdict \in ANY
    PROVE  /\ QueryVerdict \in hist.kind
           /\ QueryVerdict \in {"Q_GP", "Q_AP"} => "info_hash" \in hist.seen
           /\ QueryVerdict = "Q_FN" => "target" \in hist.seen
<1>1. "error" \notin ANY /\ "abort" \notin ANY
  BY DEF ANY, Q_ANY, R_ANY
<1>2. CASE hist.kind \in {{"Q_AP"}, {"Q_GP"}}
  BY <1>1, <1>2 DEF QueryVerdict, Has
<1>3. CASE hist.kind \in {{"Q_FN"}, {"Q_PG"}}
  BY <1>1, <1>3 DEF QueryVerdict, Has
<1>4. CASE hist.kind \notin {{"Q_AP"}, {"Q_FN"}, {"Q_GP"}, {"Q_PG"}}
  <2>1. Cardinality(hist.kind) > 1
    BY <1>4, OneOrMore
  <2>2. QueryVerdict = "error"
    BY <1>4, <2>1 DEF QueryVerdict
  <2>3. QED
    BY <1>1, <2>2
<1>5. QED
  BY <1>2, <1>3, <1>4

\* What a reply must have had to be let through.
LEMMA ReplyVerdictFacts ==
    ASSUME RepliesLeft, hist.kind \cap R_ANY # {}, ReplyVerdict \in ANY
    PROVE  /\ ReplyVerdict \in hist.kind /\ ReplyVerdict \in R_ANY
           /\ ReplyVerdict = "R_GP" => krpc.tok = "gp" /\ krpc.n_nodes + krpc.n_peers > 0
           /\ ReplyVerdict = "R_FN" => "nodes" \in hist.seen
<1>1. "error" \notin ANY
  BY DEF ANY, Q_ANY, R_ANY
<1>2. CASE Has({"token"}) /\ Has({"values", "nodes"})
  BY <1>1, <1>2 DEF ReplyVerdict, Has, RepliesLeft, R_ANY
<1>3. CASE Has({"values"}) /\ ~ Has({"token"})
  BY <1>1, <1>3 DEF ReplyVerdict, Has
<1>4. CASE Has({"nodes"}) /\ ~ Has({"values", "token"})
  BY <1>1, <1>4 DEF ReplyVerdict, Has, RepliesLeft, R_ANY
<1>5. CASE ~ Has({"nodes", "values"})
  BY <1>1, <1>5 DEF ReplyVerdict, Has, RepliesLeft, R_ANY
<1>6. QED
  BY <1>2, <1>3, <1>4, <1>5 DEF Has

LEMMA VerdictFacts ==
    ASSUME KInv, Verdict \in ANY
    PROVE  /\ Verdict \in hist.kind /\ {"id", "t"} \subseteq hist.seen
           /\ Verdict \in {"Q_GP", "Q_AP"} => "info_hash" \in hist.seen
           /\ Verdict = "Q_FN" => "target" \in hist.seen
           /\ Verdict = "R_GP" => krpc.tok = "gp" /\ krpc.n_nodes + krpc.n_peers > 0
           /\ Verdict = "R_FN" => "nodes" \in hist.seen
<1>1. "error" \notin ANY /\ "abort" \notin ANY /\ hist.kind \in SUBSET ANY
  BY DEF ANY, Q_ANY, R_ANY, KInv, Types, XDHist
<1>2. {"id", "t"} \subseteq hist.seen
  BY <1>1 DEF Verdict
<1>3. CASE hist.kind \cap Q_ANY # {} /\ hist.kind \cap R_ANY = {}
  <2>1. Verdict = QueryVerdict
    BY <1>2, <1>3 DEF Verdict
  <2>2. hist.kind \in SUBSET Q_ANY /\ hist.kind # {}
    BY <1>1, <1>3 DEF ANY
  <2>3. Verdict \in Q_ANY
    BY <2>1, <2>2, QueryVerdictFacts
  <2>4. Verdict # "R_GP" /\ Verdict # "R_FN"
    BY <2>3 DEF Q_ANY
  <2>5. QED
    BY <1>2, <2>1, <2>2, <2>4, QueryVerdictFacts
<1>4. CASE hist.kind \cap Q_ANY = {} /\ hist.kind \cap R_ANY # {}
  <2>1. Verdict = ReplyVerdict
    BY <1>2, <1>4 DEF Verdict
  <2>2. Verdict \in R_ANY
    BY <1>4, <2>1, ReplyVerdictFacts DEF KInv
  <2>3. Verdict \notin {"Q_GP", "Q_AP"} /\ Verdict # "Q_FN"
    BY <2>2 DEF R_ANY
  <2>4. QED
    BY <1>2, <1>4, <2>1, <2>3, ReplyVerdictFacts DEF KInv
<1>5. CASE hist.kind \cap Q_ANY # {} /\ hist.kind \cap R_ANY # {}
  BY <1>1, <1>2, <1>5 DEF Verdict
<1>6. CASE hist.kind \cap Q_ANY = {} /\ hist.kind \cap R_ANY = {}
  BY <1>1, <1>2, <1>6 DEF Verdict
<1>7. QED
  BY <1>3, <1>4, <1>5, <1>6

\* When the assertion of validate fails or its token is null.
LEMMA AbortFacts ==
    ASSUME KInv, Verdict = "abort"
    PROVE  \/ hist.seen \subseteq {"id", "t", "port", "token", "y"}
           \/ /\ hist.seen \cap {"implied_port", "name"} # {} /\ "info_hash" \in hist.seen
              /\ krpc.token = "null"
<1>1. hist.kind \in SUBSET ANY /\ hist.seen \in SUBSET (OKeys \cup IKeys)
  BY DEF KInv, Types, XDHist
<1>2. hist.kind \cap Q_ANY # {}
  <2>1. ASSUME hist.kind \cap Q_ANY = {}, hist.kind \cap R_ANY # {} PROVE ReplyVerdict # "abort"
    <3>1. CASE Has({"token"}) /\ Has({"values", "nodes"})
      BY <3>1 DEF ReplyVerdict, Has
    <3>2. CASE Has({"values"}) /\ ~ Has({"token"})
      BY <3>2 DEF ReplyVerdict, Has
    <3>3. CASE Has({"nodes"}) /\ ~ Has({"values", "token"})
      BY <3>3 DEF ReplyVerdict, Has
    <3>4. CASE ~ Has({"nodes", "values"})
      BY <3>4 DEF ReplyVerdict, Has
    <3>5. QED
      BY <3>1, <3>2, <3>3, <3>4 DEF Has
  <2>2. QED
    BY <2>1 DEF Verdict
<1>3. CASE hist.kind \cap R_ANY # {}
  <2>1. ASSUME NEW k \in hist.seen, k \notin {"id", "t", "port", "token", "y"} PROVE FALSE
    <3>1. hist.kind \subseteq Narrows(k)
      BY DEF KInv, Sides
    <3>2. Narrows(k) \cap Q_ANY = {} \/ Narrows(k) \cap R_ANY = {}
      BY <1>1, <2>1, SideKeys
    <3>3. QED
      BY <1>2, <1>3, <3>1, <3>2
  <2>2. QED
    BY <2>1
<1>4. CASE hist.kind \cap R_ANY = {}
  <2>1. Verdict = QueryVerdict
    BY <1>2, <1>4 DEF Verdict
  <2>2. hist.kind \in SUBSET Q_ANY /\ hist.kind # {}
    BY <1>1, <1>2, <1>4 DEF ANY
  <2>3. CASE hist.kind = {"Q_AP"}
    <3>1. Has({"info_hash"}) /\ krpc.token = "null"
      BY <2>1, <2>3 DEF QueryVerdict
    <3>2. hist.seen \cap {"implied_port", "name"} # {}
      BY <2>3 DEF KInv, Sides
    <3>3. QED
      BY <3>1, <3>2 DEF Has
  <2>4. CASE hist.kind \in {{"Q_FN"}, {"Q_PG"}, {"Q_GP"}}
    BY <2>1, <2>4 DEF QueryVerdict
  <2>5. CASE hist.kind \notin {{"Q_AP"}, {"Q_FN"}, {"Q_GP"}, {"Q_PG"}}
    <3>1. Cardinality(hist.kind) > 1
      BY <2>2, <2>5, OneOrMore
    <3>2. QueryVerdict = "error"
      BY <2>5, <3>1 DEF QueryVerdict
    <3>3. QED
      BY <2>1, <3>2
  <2>6. QED
    BY <2>3, <2>4, <2>5
<1>5. QED
  BY <1>3, <1>4

LEMMA ReadEndKInv == ASSUME KInv, ReadEnd PROVE KInv'
<1>1. Reading
  BY DEF ReadEnd
<1>2. CASE xd_state = "IKEY" /\ xd_state' = "OKEY" /\ UNCHANGED <<hist, krpc, typed>>
  BY <1>1, <1>2, MoveKInv
<1>3. CASE xd_state = "IVLIST" /\ xd_state' = "IKEY" /\ UNCHANGED <<hist, krpc, typed>>
  BY <1>1, <1>3, MoveKInv
<1>4. CASE Leave("error")
  BY <1>4, LeaveKInv
<1>5. CASE Verdict \in {"error", "abort"} /\ Leave(Verdict)
  BY <1>5, LeaveKInv
<1>6. CASE /\ xd_state = "OKEY" /\ Verdict \in ANY
           /\ krpc' = [krpc EXCEPT !.status = "ok", !.method = Verdict]
           /\ UNCHANGED <<xd_state, hist, typed>>
  <2> DEFINE v == Verdict
  <2>1. v \in ANY /\ krpc \in Object
    BY <1>6 DEF KInv, Types
  <2>2. /\ v \in hist.kind /\ {"id", "t"} \subseteq hist.seen
        /\ v \in {"Q_GP", "Q_AP"} => "info_hash" \in hist.seen
        /\ v = "Q_FN" => "target" \in hist.seen
        /\ v = "R_GP" => krpc.tok = "gp" /\ krpc.n_nodes + krpc.n_peers > 0
        /\ v = "R_FN" => "nodes" \in hist.seen
    BY <2>1, VerdictFacts
  <2>3. krpc' = [krpc EXCEPT !.status = "ok", !.method = v]
    BY <1>6
  <2> HIDE DEF v
  <2>4. /\ krpc' \in Object /\ krpc'.status = "ok" /\ krpc'.method = v
        /\ krpc'.tok = krpc.tok /\ krpc'.nid = krpc.nid /\ krpc'.ih = krpc.ih
        /\ krpc'.target = krpc.target /\ krpc'.n_nodes = krpc.n_nodes
        /\ krpc'.n_peers = krpc.n_peers
    BY <2>1, <2>3 DEF Object
  <2>5. Types'
    BY <1>6, <2>4 DEF KInv, Types
  <2>6. SeenHasValue' /\ RepliesLeft' /\ Sides' /\ MethodAmongKinds'
    BY <1>6, <2>2, <2>4 DEF KInv, SeenHasValue, RepliesLeft, Sides, MethodAmongKinds, Reading
  <2>7. HandlerFields'
    <3> SUFFICES ASSUME typed PROVE HandlerFields'
      BY <1>6 DEF HandlerFields
    <3>1. /\ "id" \in hist.seen => krpc.nid
          /\ "info_hash" \in hist.seen => krpc.ih
          /\ "target" \in hist.seen => krpc.target
          /\ "nodes" \in hist.seen => krpc.n_nodes > 0
          /\ "t" \in hist.seen => krpc.tok # "null"
      BY <1>1, <1>6, OuterValues
    <3>2. QED
      BY <2>2, <2>4, <3>1 DEF HandlerFields
  <2>8. QED
    BY <2>5, <2>6, <2>7 DEF KInv
<1>7. QED
  BY <1>2, <1>3, <1>4, <1>5, <1>6 DEF ReadEnd

\* Each step of the parser keeps its invariant.
LEMMA NextKInv == ASSUME KInv, Next PROVE KInv'
<1>1. ASSUME NEW s \in Str, OuterKey(s) \/ InnerKey(s) \/ OuterVal(s) \/ InnerVal(s) \/ ListVal(s)
      PROVE  KInv'
  BY <1>1, KrpcAssumption, OuterKeyKInv, InnerKeyKInv, OuterValKInv, InnerValKInv, ListValKInv
<1>2. CASE ReadInt \/ ReadList \/ ReadDict \/ ReadEnd
  BY <1>2, ReadIntKInv, ReadListKInv, ReadDictKInv, ReadEndKInv
<1>3. CASE ReadBad \/ DataEnds
  BY <1>3, LeaveKInv DEF ReadBad, DataEnds
<1>4. CASE NextDatagram
  <2>1. xd_state' = "START" /\ hist' = NoHist /\ krpc' = Cleared /\ typed' = TRUE
    BY <1>4 DEF NextDatagram
  <2>2. QED
    BY <2>1, RestartKInv
<1>5. QED
  BY <1>1, <1>2, <1>3, <1>4 DEF Next

-----------------------------------------------------------------------------
(* Datagrams: their elements and their size.                               *)

IsSeq(E) == \E T : E \in Seq(T)

LEMMA IsSeqConcat == ASSUME NEW x, NEW y, IsSeq(x), IsSeq(y) PROVE IsSeq(x \o y)
<1>1. PICK X : x \in Seq(X)
  BY DEF IsSeq
<1>2. PICK Y : y \in Seq(Y)
  BY DEF IsSeq
<1>3. x \o y \in Seq(X \cup Y)
  BY <1>1, <1>2
<1>4. QED
  BY <1>3 DEF IsSeq

LEMMA IsSeqTuple ==
    ASSUME NEW x, NEW y, NEW z
    PROVE  IsSeq(<< >>) /\ IsSeq(<<x>>) /\ IsSeq(<<x, y>>) /\ IsSeq(<<x, y, z>>)
<1>1. << >> \in Seq({}) /\ <<x>> \in Seq({x}) /\ <<x, y>> \in Seq({x, y})
      /\ <<x, y, z>> \in Seq({x, y, z})
  OBVIOUS
<1>2. QED
  BY <1>1 DEF IsSeq

QueryElems(D, sid, args, method, tok, b) ==
    /\ IsSeq(D) /\ Len(D) = 13 + b /\ b \in Nat
    /\ D[1] = Dict /\ D[2] = Elem(S("a", 1)) /\ D[3] = Dict
    /\ D[4] = Elem(S("id", 2)) /\ D[5] = Elem(Hash(sid))
    /\ \A i \in 1..b : D[5 + i] = args[i]
    /\ D[6 + b] = End
    /\ D[7 + b] = Elem(S("q", 1)) /\ D[8 + b] = Elem(method)
    /\ D[9 + b] = Elem(S("t", 1)) /\ D[10 + b] = Elem(tok)
    /\ D[11 + b] = Elem(S("y", 1)) /\ D[12 + b] = Elem(S("q", 1))
    /\ D[13 + b] = End

LEMMA QueryElements ==
    ASSUME NEW sid, NEW args, IsSeq(args), NEW method, NEW tok,
           NEW D, D = Query(sid, args, method, tok), NEW b, b = Len(args)
    PROVE  QueryElems(D, sid, args, method, tok, b)
<1>1. PICK T : args \in Seq(T)
  BY DEF IsSeq
<1>2. IsSeq(D)
  BY IsSeqConcat, IsSeqTuple DEF Query, Pair
<1>3. QED
  BY <1>1, <1>2 DEF Query, Pair, QueryElems

ReplyElems(D, nid, body, tok, b) ==
    /\ IsSeq(D) /\ Len(D) = 11 + b /\ b \in Nat
    /\ D[1] = Dict /\ D[2] = Elem(S("y", 1)) /\ D[3] = Elem(S("r", 1))
    /\ D[4] = Elem(S("r", 1)) /\ D[5] = Dict
    /\ D[6] = Elem(S("id", 2)) /\ D[7] = Elem(Hash(write_sid(nid)))
    /\ \A i \in 1..b : D[7 + i] = body[i]
    /\ D[8 + b] = End
    /\ D[9 + b] = Elem(S("t", 1)) /\ D[10 + b] = Elem(tok)
    /\ D[11 + b] = End

LEMMA ReplyElements ==
    ASSUME NEW nid, NEW body, IsSeq(body), NEW tok,
           NEW D, D = Reply(nid, body, tok), NEW b, b = Len(body)
    PROVE  ReplyElems(D, nid, body, tok, b)
<1>1. PICK T : body \in Seq(T)
  BY DEF IsSeq
<1>2. IsSeq(D)
  BY IsSeqConcat, IsSeqTuple DEF Reply, Pair
<1>3. Len(D) = 11 + b /\ b \in Nat
  BY <1>1 DEF Reply, Pair
<1>4. /\ D[1] = Dict /\ D[2] = Elem(S("y", 1)) /\ D[3] = Elem(S("r", 1))
      /\ D[4] = Elem(S("r", 1)) /\ D[5] = Dict
      /\ D[6] = Elem(S("id", 2)) /\ D[7] = Elem(Hash(write_sid(nid)))
  BY <1>1 DEF Reply, Pair
<1>5. \A i \in 1..b : D[7 + i] = body[i]
  BY <1>1 DEF Reply, Pair
<1>6. D[8 + b] = End /\ D[9 + b] = Elem(S("t", 1)) /\ D[10 + b] = Elem(tok) /\ D[11 + b] = End
  BY <1>1 DEF Reply, Pair
<1>7. QED
  BY <1>2, <1>3, <1>4, <1>5, <1>6 DEF ReplyElems

\* What follows the first p elements of the datagram E is still to be read.
Unread(E, p) == IsSeq(E) /\ p \in 0..Len(E) /\ rest = SubSeq(E, p + 1, Len(E))

LEMMA AllUnread == ASSUME NEW E, IsSeq(E), rest' = E PROVE Unread(E, 0)'
  BY DEF Unread, IsSeq

LEMMA NextElement ==
    ASSUME NEW E, NEW p, Unread(E, p), rest # << >>
    PROVE  p < Len(E) /\ Head(rest) = E[p + 1] /\ (rest' = Tail(rest) => Unread(E, p + 1)')
<1>1. PICK T : E \in Seq(T)
  BY DEF Unread, IsSeq
<1>2. p \in 0..Len(E) /\ rest = SubSeq(E, p + 1, Len(E)) /\ Len(E) \in Nat
  BY <1>1 DEF Unread
<1>3. p # Len(E)
  BY <1>1, <1>2
<1>4. Head(rest) = E[p + 1] /\ Tail(rest) = SubSeq(E, p + 2, Len(E))
  BY <1>1, <1>2, <1>3
<1>5. p + 1 \in 0..Len(E) /\ (p + 1) + 1 = p + 2
  BY <1>2, <1>3
<1>6. rest' = Tail(rest) => Unread(E, p + 1)'
  BY <1>4, <1>5, <1>1, Zenon DEF Unread, IsSeq
<1>7. QED
  BY <1>2, <1>3, <1>4, <1>6

LEMMA NothingUnread == ASSUME NEW E, NEW p, Unread(E, p), rest = << >> PROVE p = Len(E)
<1>1. PICK T : E \in Seq(T)
  BY DEF Unread, IsSeq
<1>2. p \in 0..Len(E) /\ rest = SubSeq(E, p + 1, Len(E)) /\ Len(E) \in Nat
  BY <1>1 DEF Unread
<1>3. Len(SubSeq(E, p + 1, Len(E))) = Len(E) - p /\ Len(<< >>) = 0
  BY <1>1, <1>2
<1>4. Len(E) - p = 0
  BY <1>2, <1>3
<1>5. QED
  BY <1>2, <1>4

\* The least element of a non-empty set of naturals.
LEMMA MinIsLeast ==
    ASSUME NEW Num, Num \subseteq Nat, Num # {}
    PROVE  Min(Num) \in Num /\ \A y \in Num : Min(Num) <= y
<1> DEFINE R == OpToRel(<, Nat)
<1>1. IsWellFoundedOn(R, Nat) /\ \A x, y \in Nat : y < x => <<y, x>> \in R
  BY NatLessThanWellFounded, Zenon DEF OpToRel
<1> HIDE DEF R
<1>2. PICK x \in Num : \A y \in Num : ~ (<<y, x>> \in R)
  BY <1>1, WFMin
<1>3. \A y \in Num : ~ (y < x)
  BY <1>1, <1>2, Zenon
<1>4. \A y \in Num : x <= y
  BY <1>3
<1>5. QED
  BY <1>4 DEF Min

\* A running sum exists.
LEMMA RunningSum ==
    ASSUME NEW n \in Nat, NEW v \in [1..n -> Nat]
    PROVE  \E f \in [0..n -> Nat] : f[0] = 0 /\ \A i \in 1..n : f[i] = f[i - 1] + v[i]
<1> DEFINE IsSum(m, f) ==
              f \in [0..m -> Nat] /\ f[0] = 0 /\ \A i \in 1..m : f[i] = f[i - 1] + v[i]
           Bad == {m \in 0..n : ~ \E f : IsSum(m, f)}
<1>1. CASE Bad = {}
  <2>1. n \in 0..n /\ n \notin Bad
    <3> HIDE DEF Bad
    <3>1. QED
      BY <1>1
  <2>2. PICK f : IsSum(n, f)
    BY <2>1
  <2>3. QED
    BY <2>2
<1>2. CASE Bad # {}
  <2>1. Bad \subseteq Nat
    OBVIOUS
  <2>2. PICK m \in Bad : \A k \in Bad : m <= k
    BY <1>2, <2>1, MinIsLeast
  <2>3. m \in 0..n /\ ~ \E f : IsSum(m, f)
    OBVIOUS
  <2>4. CASE m = 0
    <3>1. IsSum(0, [i \in 0..0 |-> 0])
      OBVIOUS
    <3>2. QED
      BY <2>3, <2>4, <3>1
  <2>5. CASE m # 0
    <3>1. m - 1 \in 0..n /\ ~ (m <= m - 1)
      BY <2>3, <2>5
    <3> HIDE DEF Bad
    <3>2. m - 1 \notin Bad
      BY <2>2, <3>1
    <3> USE DEF Bad
    <3>3. PICK f : IsSum(m - 1, f)
      BY <3>1, <3>2
    <3>4. IsSum(m, [i \in 0..m |-> IF i = m THEN f[m - 1] + v[m] ELSE f[i]])
      BY <2>3, <2>5, <3>3
    <3>5. QED
      BY <2>3, <3>4
  <2>6. QED
    BY <2>4, <2>5
<1>3. QED
  BY <1>1, <1>2

\* The size of a datagram is that of its elements.
LEMMA SizeSums ==
    ASSUME NEW E, IsSeq(E), \A i \in 1..Len(E) : SizeOf(E[i]) \in Nat
    PROVE  \E f \in [0..Len(E) -> Nat] :
              f[0] = 0 /\ (\A i \in 1..Len(E) : f[i] = f[i - 1] + SizeOf(E[i]))
              /\ Size(E) = f[Len(E)]
<1> DEFINE n == Len(E)
           v == [i \in 1..n |-> SizeOf(E[i])]
           upTo == CHOOSE f : f = [i \in 0..n |-> IF i = 0 THEN 0 ELSE f[i - 1] + SizeOf(E[i])]
<1>1. n \in Nat
  BY DEF IsSeq
<1>2. Size(E) = upTo[n]
  BY DEF Size
<1>3. v \in [1..n -> Nat] /\ \A i \in 1..n : v[i] = SizeOf(E[i])
  OBVIOUS
<1> HIDE DEF n, v
<1>4. PICK f \in [0..n -> Nat] : f[0] = 0 /\ \A i \in 1..n : f[i] = f[i - 1] + v[i]
  BY <1>1, <1>3, RunningSum
<1>5. f = [i \in 0..n |-> IF i = 0 THEN 0 ELSE f[i - 1] + SizeOf(E[i])]
  BY <1>1, <1>3, <1>4
<1>6. upTo = [i \in 0..n |-> IF i = 0 THEN 0 ELSE upTo[i - 1] + SizeOf(E[i])]
  BY <1>5
<1> HIDE DEF upTo
<1>7. upTo[0] = 0 /\ \A i \in 1..n : upTo[i] = upTo[i - 1] + SizeOf(E[i])
  BY <1>1, <1>6
<1>8. \A i \in 0..n : upTo[i] = f[i]
  <2> DEFINE Bad == {i \in 0..n : upTo[i] # f[i]}
  <2>1. CASE Bad # {}
    <3>1. PICK m \in Bad : \A k \in Bad : m <= k
      <4>1. Bad \subseteq Nat
        OBVIOUS
      <4> HIDE DEF Bad
      <4>2. QED
        BY <2>1, <4>1, MinIsLeast
    <3>2. m \in 0..n /\ upTo[m] # f[m] /\ m # 0
      BY <1>4, <1>7
    <3>3. m - 1 \in 0..n /\ ~ (m <= m - 1) /\ m \in 1..n
      BY <1>1, <3>2
    <3>4. m - 1 \notin Bad
      <4> HIDE DEF Bad
      <4>1. QED
        BY <3>1, <3>3
    <3>5. upTo[m - 1] = f[m - 1]
      BY <3>3, <3>4
    <3>6. QED
      BY <1>3, <1>4, <1>7, <3>2, <3>3, <3>5
  <2>2. QED
    BY <2>1
<1>9. f[0] = 0 /\ (\A i \in 1..n : f[i] = f[i - 1] + SizeOf(E[i])) /\ Size(E) = f[n]
  BY <1>1, <1>2, <1>3, <1>4, <1>8
<1>10. QED
  BY <1>9, Zenon DEF n

-----------------------------------------------------------------------------
(* One element: where the parser is before and after it.                   *)

Stage(state, seen, kind) ==
    krpc.status = "reading" /\ xd_state = state /\ hist.seen = seen /\ hist.kind = kind

LEMMA ElementCases ==
    ASSUME NEW s
    PROVE  /\ ReadElem(Elem(s)) => ReadString(s) /\ at' = Stores(s)
           /\ ReadElem(Dict) => ReadDict /\ at' = at
           /\ ReadElem(End) => ReadEnd /\ at' = at
           /\ ReadElem(Int4) => ReadInt /\ at' = at
           /\ ReadElem(Nul) => ReadBad /\ at' = at
  BY DEF ReadElem, Elem, Dict, End, Int4, Nul

LEMMA OuterKeyStage ==
    ASSUME NEW seen, NEW kind, Stage("OKEY", seen, kind), NEW k \in OKeys, ReadElem(Elem(S(k, 1))),
           k = "r" => seen \cap {"a", "q"} = {}, k \in {"a", "q"} => "r" \notin seen
    PROVE  /\ Stage("OVAL", seen \cup {k}, kind \cap Narrows(k))' /\ hist'.key = k
           /\ krpc' = krpc /\ at' = at
<1>1. ReadString(S(k, 1)) /\ at' = Stores(S(k, 1))
  BY ElementCases
<1>2. at' = at
  BY <1>1 DEF Stage, Stores
<1>3. OuterKey(S(k, 1)) /\ S(k, 1).name = k /\ S(k, 1).len = 1
  BY <1>1 DEF ReadString, Stage, InnerKey, OuterVal, InnerVal, S
<1>4. ~ Clash(k)
  BY DEF Clash, Stage, OKeys
<1>5. Key("OVAL", Saw(k))
  BY <1>3, <1>4 DEF OuterKey
<1>6. k # "port"
  BY DEF OKeys
<1>7. QED
  BY <1>2, <1>5, <1>6 DEF Key, Saw, Stage

LEMMA InnerKeyStage ==
    ASSUME NEW seen, NEW kind, Stage("IKEY", seen, kind), NEW k \in IKeys, k # "name",
           NEW len \in {2, 4, 5, 6, 9, 12}, ReadElem(Elem(S(k, len)))
    PROVE  /\ Stage("IVAL", seen \cup {k}, kind \cap Narrows(k))'
           /\ hist'.key = (IF k = "port" THEN hist.key ELSE k)
           /\ krpc' = krpc /\ at' = at
<1>1. ReadString(S(k, len)) /\ at' = Stores(S(k, len))
  BY ElementCases
<1>2. at' = at
  BY <1>1 DEF Stage, Stores
<1>3. InnerKey(S(k, len)) /\ S(k, len).name = k /\ S(k, len).len = len
  BY <1>1 DEF ReadString, Stage, OuterKey, OuterVal, InnerVal, S
<1>4. k \in IKnown
  BY DEF IKnown
<1>5. Key("IVAL", Saw(k))
  BY <1>3, <1>4 DEF InnerKey
<1>6. QED
  BY <1>2, <1>5 DEF Key, Saw, Stage

LEMMA TokStage ==
    ASSUME KInv, NEW seen, NEW kind, Stage("OVAL", seen, kind), hist.key = "t",
           NEW s, s.len \in 0..MAXLEN_TOK, ReadElem(Elem(s))
    PROVE  /\ Stage("OKEY", seen, kind)' /\ krpc'.tok = TokKind(s)
           /\ krpc'.n_nodes = krpc.n_nodes /\ krpc'.n_peers = krpc.n_peers
           /\ at' = [at EXCEPT !["t"] = s]
<1>1. ReadString(s) /\ at' = Stores(s)
  BY ElementCases
<1>2. at' = [at EXCEPT !["t"] = s]
  BY <1>1 DEF Stage, Stores
<1>3. OuterVal(s)
  BY <1>1 DEF ReadString, Stage, OuterKey, InnerKey, InnerVal
<1>4. Value("OKEY", [krpc EXCEPT !.tok = TokKind(s)], hist.kind)
  BY <1>3 DEF OuterVal, MAXLEN_TOK
<1>5. krpc \in Object /\ hist \in XDHist
  BY DEF KInv, Types
<1>6. QED
  BY <1>2, <1>4, <1>5 DEF Value, Stage, Object, XDHist

LEMMA QueryNameStage ==
    ASSUME KInv, NEW seen, NEW kind, Stage("OVAL", seen, kind), hist.key = "q",
           NEW s, ReadElem(Elem(s))
    PROVE  /\ QueryOf(s.name) # {} => Stage("OKEY", seen, kind \cap QueryOf(s.name))'
           /\ QueryOf(s.name) = {} => krpc'.status = "error"
           /\ at' = at
<1>1. ReadString(s) /\ at' = Stores(s)
  BY ElementCases
<1>2. at' = at
  BY <1>1 DEF Stage, Stores
<1>3. OuterVal(s)
  BY <1>1 DEF ReadString, Stage, OuterKey, InnerKey, InnerVal
<1>4. \/ QueryOf(s.name) = {} /\ Leave("error")
      \/ QueryOf(s.name) # {} /\ Value("OKEY", krpc, hist.kind \cap QueryOf(s.name))
  BY <1>3 DEF OuterVal
<1>5. krpc \in Object /\ hist \in XDHist
  BY DEF KInv, Types
<1>6. QED
  BY <1>2, <1>4, <1>5 DEF Value, Leave, Stage, Object, XDHist

LEMMA TypeStage ==
    ASSUME KInv, NEW seen, NEW kind, Stage("OVAL", seen, kind), hist.key = "y",
           NEW name \in {"q", "r"}, ReadElem(Elem(S(name, 1)))
    PROVE  /\ Stage("OKEY", seen, kind \cap TypeOf(name))' /\ krpc' = krpc
           /\ at' = at
<1>1. ReadString(S(name, 1)) /\ at' = Stores(S(name, 1)) /\ S(name, 1).name = name
  BY ElementCases DEF S
<1>2. at' = at
  BY <1>1 DEF Stage, Stores
<1>3. OuterVal(S(name, 1))
  BY <1>1 DEF ReadString, Stage, OuterKey, InnerKey, InnerVal
<1>4. TypeOf(name) # {}
  BY DEF TypeOf, R_ANY, Q_ANY
<1>5. Value("OKEY", krpc, hist.kind \cap TypeOf(name))
  BY <1>1, <1>3, <1>4 DEF OuterVal
<1>6. krpc \in Object /\ hist \in XDHist
  BY DEF KInv, Types
<1>7. QED
  BY <1>2, <1>5, <1>6 DEF Value, Stage, Object, XDHist

LEMMA InnerValStage ==
    ASSUME KInv, NEW seen, NEW kind, Stage("IVAL", seen, kind),
           NEW s, s.len \in Nat, GoodLength(hist.key, s.len), ReadElem(Elem(s))
    PROVE  /\ Stage("IKEY", seen, kind)' /\ krpc'.tok = krpc.tok /\ hist'.key = hist.key
           /\ hist.key = "nodes" => krpc'.n_nodes > 0
           /\ hist.key # "nodes" => krpc'.n_nodes = krpc.n_nodes
           /\ at' = IF hist.key = "id" THEN [at EXCEPT !["id"] = s] ELSE at
<1>1. ReadString(s) /\ at' = Stores(s)
  BY ElementCases
<1>2. at' = IF hist.key = "id" THEN [at EXCEPT !["id"] = s] ELSE at
  BY <1>1 DEF Stage, Stores
<1>3. InnerVal(s)
  BY <1>1 DEF ReadString, Stage, OuterKey, InnerKey, OuterVal
<1>4. Value("IKEY", Fields(s), hist.kind)
  BY <1>3 DEF InnerVal
<1>5. krpc \in Object /\ hist \in XDHist
  BY DEF KInv, Types
<1>6. Fields(s).status = krpc.status /\ Fields(s).tok = krpc.tok
      /\ (hist.key = "nodes" => Fields(s).n_nodes > 0)
      /\ (hist.key # "nodes" => Fields(s).n_nodes = krpc.n_nodes)
  BY <1>5, FieldsFacts
<1>7. QED
  BY <1>2, <1>4, <1>5, <1>6 DEF Value, Stage, XDHist

LEMMA DictStage ==
    ASSUME NEW seen, NEW kind, NEW state \in {"START", "OVAL"}, Stage(state, seen, kind),
           ReadElem(Dict)
    PROVE  /\ Stage(IF state = "START" THEN "OKEY" ELSE "IKEY", seen, kind)'
           /\ krpc' = krpc /\ at' = at
<1>1. ReadDict /\ at' = at
  BY ElementCases
<1>2. QED
  BY <1>1 DEF Stage, ReadDict, Skip

LEMMA IntStage ==
    ASSUME NEW seen, NEW kind, Stage("IVAL", seen, kind), ReadElem(Int4)
    PROVE  Stage("IKEY", seen, kind)' /\ krpc' = krpc /\ at' = at
<1>1. ReadInt /\ at' = at
  BY ElementCases
<1>2. QED
  BY <1>1 DEF Stage, ReadInt, Skip

LEMMA EndStage ==
    ASSUME NEW seen, NEW kind, Stage("IKEY", seen, kind), ReadElem(End)
    PROVE  Stage("OKEY", seen, kind)' /\ krpc' = krpc /\ at' = at
<1>1. ReadEnd /\ at' = at
  BY ElementCases
<1>2. QED
  BY <1>1 DEF Stage, ReadEnd

LEMMA LastEndStage ==
    ASSUME KInv, NEW seen, NEW kind, Stage("OKEY", seen, kind), ReadElem(End), Verdict \in ANY
    PROVE  krpc'.status = "ok" /\ krpc'.method = Verdict /\ at' = at
<1>1. ReadEnd /\ at' = at
  BY ElementCases
<1>2. "error" \notin ANY /\ "abort" \notin ANY
  BY DEF ANY, Q_ANY, R_ANY
<1>3. krpc' = [krpc EXCEPT !.status = "ok", !.method = Verdict]
  BY <1>1, <1>2 DEF Stage, ReadEnd
<1>4. krpc \in Object
  BY DEF KInv, Types
<1>5. QED
  BY <1>1, <1>3, <1>4 DEF Object

-----------------------------------------------------------------------------
(* A query: where the parser is after p elements.                          *)

\* The key of the hash that a find_node, a get_peers or an announcement has.
ArgKey(q) == IF q = "Q_FN" THEN "target" ELSE "info_hash"

\* The arguments of a query of kind q.
IsArgs(q, args) ==
    /\ IsSeq(args)
    /\ Len(args) \in (IF q = "Q_PG" THEN {0} ELSE IF q = "Q_AP" THEN {6} ELSE {2, 4})
    /\ Len(args) >= 2 =>
          args[1] = Elem(S(ArgKey(q), IF q = "Q_FN" THEN 6 ELSE 9))
          /\ \E ih : args[2] = Elem(Hash(ih))
    /\ Len(args) >= 4 => args[3] = Elem(S("port", 4)) /\ args[4] = Int4
    /\ Len(args) = 6 => args[5] = Elem(S("token", 5)) /\ args[6] = Elem(OUR_TOKEN)

\* The keys seen and the kinds left after j elements of the arguments.
ArgSeen(q, j) ==
    {"a", "id"} \cup (IF j >= 1 THEN {ArgKey(q)} ELSE {}) \cup (IF j >= 3 THEN {"port"} ELSE {})
        \cup (IF j >= 5 THEN {"token"} ELSE {})

ArgKinds(q, j) == IF j = 0 THEN Q_ANY ELSE IF q = "Q_FN" THEN {"Q_FN"} ELSE {"Q_GP", "Q_AP"}

ArgsAt(q, j) ==
    /\ Stage(IF j \in {1, 3, 5} THEN "IVAL" ELSE "IKEY", ArgSeen(q, j), ArgKinds(q, j))
    /\ j \in {1, 2, 3} => hist.key = ArgKey(q)
    /\ j = 5 => hist.key = "token"

QueryAt(q, b, p) ==
    LET keys == ArgSeen(q, b)
    IN  \/ p = 0 /\ Stage("START", {}, ANY)
        \/ p = 1 /\ Stage("OKEY", {}, ANY)
        \/ p = 2 /\ Stage("OVAL", {"a"}, Q_ANY)
        \/ p = 3 /\ Stage("IKEY", {"a"}, Q_ANY)
        \/ p = 4 /\ Stage("IVAL", {"a", "id"}, Q_ANY) /\ hist.key = "id"
        \/ p \in 5..(5 + b) /\ ArgsAt(q, p - 5)
        \/ p = 6 + b /\ Stage("OKEY", keys, ArgKinds(q, b))
        \/ p = 7 + b /\ Stage("OVAL", keys \cup {"q"}, ArgKinds(q, b)) /\ hist.key = "q"
        \/ /\ q # "Q_AP"
           /\ \/ p = 8 + b /\ Stage("OKEY", keys \cup {"q"}, {q})
              \/ p = 9 + b /\ Stage("OVAL", keys \cup {"q", "t"}, {q}) /\ hist.key = "t"
              \/ p = 10 + b /\ Stage("OKEY", keys \cup {"q", "t"}, {q})
              \/ p = 11 + b /\ Stage("OVAL", keys \cup {"q", "t", "y"}, {q}) /\ hist.key = "y"
              \/ p = 12 + b /\ Stage("OKEY", keys \cup {"q", "t", "y"}, {q})
              \/ p = 13 + b /\ krpc.status = "ok" /\ krpc.method = q

\* The values that were stored after p elements.
Stored(id, tok, i, j, p) ==
    /\ DOMAIN at = {"id", "t"}
    /\ p >= i => at["id"] = id
    /\ p >= j => at["t"] = tok

LEMMA EvenArgs == ASSUME NEW b \in {0, 2, 4, 6} PROVE b \notin {1, 3, 5}
  OBVIOUS

\* Only a ping has no argument, only an announcement has three.
ArgLength(q, b) == b \in {0, 2, 4, 6} /\ (b = 0 <=> q = "Q_PG") /\ (q # "Q_AP" => b # 6)

LEMMA ArgLengths ==
    ASSUME NEW q, NEW args, IsArgs(q, args)
    PROVE  ArgLength(q, Len(args))
<1> SUFFICES ASSUME NEW b, b = Len(args)
             PROVE  b \in {0, 2, 4, 6} /\ (b = 0 <=> q = "Q_PG") /\ (q # "Q_AP" => b # 6)
  BY DEF ArgLength
<1>1. b \in (IF q = "Q_PG" THEN {0} ELSE IF q = "Q_AP" THEN {6} ELSE {2, 4})
  BY Zenon DEF IsArgs
<1>2. CASE q = "Q_PG"
  <2>1. b = 0
    BY <1>1, <1>2, Zenon
  <2>2. QED
    BY <1>2, <2>1
<1>3. CASE q = "Q_AP"
  <2>1. b = 6
    BY <1>1, <1>3
  <2>2. QED
    BY <1>3, <2>1
<1>4. CASE q # "Q_PG" /\ q # "Q_AP"
  <2>1. b \in {2, 4}
    BY <1>1, <1>4, Zenon
  <2>2. QED
    BY <1>4, <2>1
<1>5. QED
  BY <1>2, <1>3, <1>4, Zenon

LEMMA ArgsStep ==
    ASSUME KInv, NEW q \in Q_ANY, NEW args, IsArgs(q, args), NEW j \in 0..(Len(args) - 1),
           ArgsAt(q, j), ReadElem(args[j + 1])
    PROVE  ArgsAt(q, j + 1)' /\ at' = at
<1>1. Len(args) \in {0, 2, 4, 6} /\ j \in 0..5
  BY DEF IsArgs
<1>2. CASE j = 0
  <2>1. /\ Stage("IKEY", {"a", "id"}, Q_ANY)
        /\ ReadElem(Elem(S(ArgKey(q), IF q = "Q_FN" THEN 6 ELSE 9)))
    BY <1>1, <1>2 DEF IsArgs, ArgsAt, ArgSeen, ArgKinds
  <2>2. /\ Stage("IVAL", {"a", "id"} \cup {ArgKey(q)}, Q_ANY \cap Narrows(ArgKey(q)))'
        /\ hist'.key = ArgKey(q) /\ at' = at
    BY <2>1, InnerKeyStage DEF ArgKey, IKeys
  <2>3. Q_ANY \cap Narrows(ArgKey(q)) = ArgKinds(q, 1) /\ {"a", "id"} \cup {ArgKey(q)} = ArgSeen(q, 1)
    BY DEF ArgKey, ArgKinds, ArgSeen, Narrows, Q_ANY
  <2>4. QED
    BY <1>2, <2>2, <2>3 DEF ArgsAt, Stage
<1>3. CASE j = 1
  <2>1. /\ Stage("IVAL", ArgSeen(q, 1), ArgKinds(q, 1)) /\ hist.key = ArgKey(q)
    BY <1>3 DEF ArgsAt
  <2>2. PICK ih : ReadElem(Elem(Hash(ih)))
    BY <1>1, <1>3 DEF IsArgs
  <2>3. Hash(ih).len = 20 /\ GoodLength(hist.key, 20)
    BY <2>1 DEF Hash, Bytes, NIH_LEN, GoodLength, ArgKey
  <2>4. Stage("IKEY", ArgSeen(q, 1), ArgKinds(q, 1))' /\ at' = at /\ hist'.key = hist.key
    BY <2>1, <2>2, <2>3, InnerValStage DEF ArgKey
  <2>5. ArgSeen(q, 1) = ArgSeen(q, 2) /\ ArgKinds(q, 1) = ArgKinds(q, 2)
    BY DEF ArgSeen, ArgKinds
  <2>6. QED
    BY <1>3, <2>1, <2>4, <2>5 DEF ArgsAt, Stage
<1>4. CASE j = 2
  <2>0. Len(args) >= 4 /\ args[j + 1] = args[3]
    <3>1. 2 <= Len(args) - 1
      BY <1>4
    <3>2. \A k \in {0, 2, 4, 6} : 2 <= k - 1 => k >= 4
      OBVIOUS
    <3>3. j + 1 = 3
      BY <1>4
    <3>4. QED
      BY <1>1, <3>1, <3>2, <3>3, Zenon
  <2>1. /\ Stage("IKEY", ArgSeen(q, 2), ArgKinds(q, 2)) /\ ReadElem(Elem(S("port", 4)))
        /\ hist.key = ArgKey(q)
    <3>1. Stage("IKEY", ArgSeen(q, 2), ArgKinds(q, 2)) /\ hist.key = ArgKey(q)
      BY <1>4 DEF ArgsAt
    <3>2. args[3] = Elem(S("port", 4))
      BY <2>0 DEF IsArgs
    <3>3. QED
      BY <2>0, <3>1, <3>2
  <2>2. /\ Stage("IVAL", ArgSeen(q, 2) \cup {"port"}, ArgKinds(q, 2) \cap Narrows("port"))'
        /\ hist'.key = ArgKey(q) /\ at' = at
    BY <2>1, InnerKeyStage DEF IKeys
  <2>3. /\ ArgKinds(q, 2) \cap Narrows("port") = ArgKinds(q, 3)
        /\ ArgSeen(q, 2) \cup {"port"} = ArgSeen(q, 3)
    BY DEF ArgKinds, ArgSeen, Narrows, Q_ANY, ANY
  <2>4. QED
    BY <1>4, <2>2, <2>3 DEF ArgsAt, Stage
<1>5. CASE j = 3
  <2>1. Stage("IVAL", ArgSeen(q, 3), ArgKinds(q, 3)) /\ ReadElem(Int4)
    BY <1>1, <1>5 DEF IsArgs, ArgsAt
  <2>2. Stage("IKEY", ArgSeen(q, 3), ArgKinds(q, 3))' /\ at' = at
    BY <2>1, IntStage
  <2>3. ArgSeen(q, 3) = ArgSeen(q, 4) /\ ArgKinds(q, 3) = ArgKinds(q, 4)
    BY DEF ArgSeen, ArgKinds
  <2>4. QED
    BY <1>5, <2>2, <2>3 DEF ArgsAt, Stage
<1>6. CASE j = 4
  <2>1. /\ Stage("IKEY", ArgSeen(q, 4), ArgKinds(q, 4)) /\ ReadElem(Elem(S("token", 5)))
        /\ q = "Q_AP"
    BY <1>1, <1>6 DEF IsArgs, ArgsAt
  <2>2. /\ Stage("IVAL", ArgSeen(q, 4) \cup {"token"}, ArgKinds(q, 4) \cap Narrows("token"))'
        /\ hist'.key = "token" /\ at' = at
    BY <2>1, InnerKeyStage DEF IKeys
  <2>3. /\ ArgKinds(q, 4) \cap Narrows("token") = ArgKinds(q, 5)
        /\ ArgSeen(q, 4) \cup {"token"} = ArgSeen(q, 5)
    BY <2>1 DEF ArgKinds, ArgSeen, Narrows, Q_ANY, ANY
  <2>4. QED
    BY <1>6, <2>2, <2>3 DEF ArgsAt, Stage
<1>7. CASE j = 5
  <2>1. /\ Stage("IVAL", ArgSeen(q, 5), ArgKinds(q, 5)) /\ ReadElem(Elem(OUR_TOKEN))
        /\ hist.key = "token"
    BY <1>1, <1>7 DEF IsArgs, ArgsAt
  <2>2. OUR_TOKEN.len = 1 /\ GoodLength(hist.key, 1)
    BY <2>1 DEF OUR_TOKEN, S, GoodLength, MAXLEN_TOKEN
  <2>3. Stage("IKEY", ArgSeen(q, 5), ArgKinds(q, 5))' /\ at' = at
    BY <2>1, <2>2, InnerValStage
  <2>4. ArgSeen(q, 5) = ArgSeen(q, 6) /\ ArgKinds(q, 5) = ArgKinds(q, 6)
    BY DEF ArgSeen, ArgKinds
  <2>5. QED
    BY <1>7, <2>3, <2>4 DEF ArgsAt, Stage
<1>8. QED
  BY <1>1, <1>2, <1>3, <1>4, <1>5, <1>6, <1>7

LEMMA QueryAccepted ==
    ASSUME NEW q \in Q_ANY \ {"Q_AP"}, NEW b \in {0, 2, 4}, b = 0 <=> q = "Q_PG",
           Stage("OKEY", ArgSeen(q, b) \cup {"q", "t", "y"}, {q})
    PROVE  Verdict = q
<1>1. hist.seen = ArgSeen(q, b) \cup {"q", "t", "y"} /\ hist.kind = {q}
  BY DEF Stage
<1>2. /\ {"id", "t"} \subseteq hist.seen
      /\ hist.kind \cap Q_ANY # {} /\ hist.kind \cap R_ANY = {}
  BY <1>1 DEF ArgSeen, Q_ANY, R_ANY
<1>3. Verdict = QueryVerdict
  BY <1>2 DEF Verdict
<1>8. /\ hist.kind = {q} /\ ~ (Cardinality(hist.kind) > 1)
      /\ hist.kind # {"Q_AP"}
      /\ q # "Q_GP" => hist.kind # {"Q_GP"}
      /\ q # "Q_FN" => hist.kind # {"Q_FN"}
      /\ q # "Q_PG" => hist.kind # {"Q_PG"}
  <2>1. Cardinality({q}) = 1
    BY FS_Singleton
  <2>2. ~ (Cardinality({q}) > 1)
    BY <2>1
  <2>3. QED
    BY <1>1, <2>2
<1>4. CASE q = "Q_PG"
  <2> USE <1>4
  <2>1. hist.seen = {"a", "id", "q", "t", "y"}
    BY <1>1, <1>4 DEF ArgSeen
  <2>2. ~ Has(IKEY_ANY_BODY)
    BY <2>1 DEF Has, IKEY_ANY_BODY
  <2>3. QueryVerdict = "Q_PG"
    BY <1>8, <2>2 DEF QueryVerdict
  <2>4. QED
    BY <1>3, <2>3
<1>5. CASE q = "Q_FN"
  <2>1. Has({"target"})
    BY <1>1, <1>5 DEF ArgSeen, ArgKey, Has
  <2>2. QED
    BY <1>3, <1>5, <1>8, <2>1 DEF QueryVerdict
<1>6. CASE q = "Q_GP"
  <2>1. Has({"info_hash"})
    BY <1>1, <1>6 DEF ArgSeen, ArgKey, Has
  <2>2. QED
    BY <1>3, <1>6, <1>8, <2>1 DEF QueryVerdict
<1>7. QED
  BY <1>4, <1>5, <1>6 DEF Q_ANY

\* The parser reads a query element by element as it was written; only an
\* announcement is refused on the way.
LEMMA QueryStep ==
    ASSUME KInv, NEW q \in Q_ANY, NEW args, IsArgs(q, args), NEW b, b = Len(args),
           NEW sid, NEW tok, tok.len \in 0..MAXLEN_TOK,
           NEW D, D = Query(sid, args, ForeignName(q), tok), NEW p \in 0..(12 + b),
           QueryAt(q, b, p), Stored(Hash(sid), tok, 5, 10 + b, p), ReadElem(D[p + 1])
    PROVE  \/ QueryAt(q, b, p + 1)' /\ Stored(Hash(sid), tok, 5, 10 + b, p + 1)'
           \/ q = "Q_AP" /\ krpc'.status = "error"
<1>1. b \in {0, 2, 4, 6} /\ (b = 0 <=> q = "Q_PG") /\ (q # "Q_AP" => b # 6)
  <2>1. ArgLength(q, b)
    BY ArgLengths, Zenon
  <2>2. QED
    BY <2>1, Zenon DEF ArgLength
<1>0. IsSeq(args)
  BY DEF IsArgs
<1>2. /\ D[1] = Dict /\ D[2] = Elem(S("a", 1)) /\ D[3] = Dict
      /\ D[4] = Elem(S("id", 2)) /\ D[5] = Elem(Hash(sid))
      /\ \A i \in 1..b : D[5 + i] = args[i]
      /\ D[6 + b] = End
      /\ D[7 + b] = Elem(S("q", 1)) /\ D[8 + b] = Elem(ForeignName(q))
      /\ D[9 + b] = Elem(S("t", 1)) /\ D[10 + b] = Elem(tok)
      /\ D[11 + b] = Elem(S("y", 1)) /\ D[12 + b] = Elem(S("q", 1))
      /\ D[13 + b] = End
  <2>1. QueryElems(D, sid, args, ForeignName(q), tok, b)
    BY <1>0, QueryElements, Zenon
  <2>2. QED
    BY <2>1 DEF QueryElems
<1> DEFINE keys == ArgSeen(q, b)
<1>3. Stored(Hash(sid), tok, 5, 10 + b, p) /\ at' = at /\ p # 4 /\ p # 9 + b
         => Stored(Hash(sid), tok, 5, 10 + b, p + 1)'
  BY <1>1 DEF Stored
<1>4. "a" \in OKeys /\ "q" \in OKeys /\ "t" \in OKeys /\ "y" \in OKeys
      /\ "r" \notin {} /\ "r" \notin keys /\ "r" \notin keys \cup {"q"}
      /\ "r" \notin keys \cup {"q", "t"}
  BY DEF OKeys, ArgSeen, ArgKey
<1>5. /\ ANY \cap Narrows("a") = Q_ANY /\ Q_ANY \cap Narrows("id") = Q_ANY
      /\ ArgKinds(q, b) \cap Narrows("q") = ArgKinds(q, b)
      /\ {q} \cap Narrows("t") = {q} /\ {q} \cap Narrows("y") = {q} /\ {q} \cap TypeOf("q") = {q}
  BY DEF Narrows, TypeOf, ArgKinds, ANY, Q_ANY, R_ANY
<1>6. CASE p = 0
  <2>1. Stage("START", {}, ANY) /\ ReadElem(Dict)
    <3>1. Stage("START", {}, ANY)
      BY <1>1, <1>6 DEF QueryAt
    <3>2. QED
      BY <1>1, <1>2, <1>6, <3>1
  <2>2. Stage("OKEY", {}, ANY)' /\ at' = at
    BY <2>1, DictStage
  <2>3. QED
    BY <1>1, <1>3, <1>6, <2>2 DEF QueryAt
<1>7. CASE p = 1
  <2>1. Stage("OKEY", {}, ANY) /\ ReadElem(Elem(S("a", 1)))
    <3>1. Stage("OKEY", {}, ANY)
      BY <1>1, <1>7 DEF QueryAt
    <3>2. QED
      BY <1>1, <1>2, <1>7, <3>1
  <2> DEFINE none == {}
  <2>2. Stage("OVAL", none \cup {"a"}, ANY \cap Narrows("a"))' /\ at' = at
    <3>1. Stage("OKEY", none, ANY) /\ "r" \notin none /\ none \cap {"a", "q"} = {}
      BY <2>1
    <3> HIDE DEF none
    <3>2. QED
      BY <1>4, <2>1, <3>1, OuterKeyStage
  <2>3. Stage("OVAL", {"a"}, Q_ANY)'
    BY <1>5, <2>2 DEF Stage
  <2>4. QED
    BY <1>1, <1>3, <1>7, <2>2, <2>3 DEF QueryAt
<1>8. CASE p = 2
  <2>1. Stage("OVAL", {"a"}, Q_ANY) /\ ReadElem(Dict)
    <3>1. Stage("OVAL", {"a"}, Q_ANY)
      BY <1>1, <1>8 DEF QueryAt
    <3>2. QED
      BY <1>1, <1>2, <1>8, <3>1
  <2>2. Stage("IKEY", {"a"}, Q_ANY)' /\ at' = at
    BY <2>1, DictStage
  <2>3. QED
    BY <1>1, <1>3, <1>8, <2>2 DEF QueryAt
<1>9. CASE p = 3
  <2>1. Stage("IKEY", {"a"}, Q_ANY) /\ ReadElem(Elem(S("id", 2)))
    <3>1. Stage("IKEY", {"a"}, Q_ANY)
      BY <1>1, <1>9 DEF QueryAt
    <3>2. QED
      BY <1>1, <1>2, <1>9, <3>1
  <2>2. /\ Stage("IVAL", {"a"} \cup {"id"}, Q_ANY \cap Narrows("id"))' /\ hist'.key = "id"
        /\ at' = at
    BY <2>1, InnerKeyStage DEF IKeys
  <2>3. Stage("IVAL", {"a", "id"}, Q_ANY)'
    BY <1>5, <2>2 DEF Stage
  <2>4. QED
    BY <1>1, <1>3, <1>9, <2>2, <2>3 DEF QueryAt
<1>10. CASE p = 4
  <2>1. Stage("IVAL", {"a", "id"}, Q_ANY) /\ hist.key = "id" /\ ReadElem(Elem(Hash(sid)))
    <3>1. Stage("IVAL", {"a", "id"}, Q_ANY) /\ hist.key = "id"
      BY <1>1, <1>10 DEF QueryAt
    <3>2. QED
      BY <1>1, <1>2, <1>10, <3>1
  <2>2. Hash(sid).len = 20 /\ GoodLength(hist.key, 20)
    BY <2>1 DEF Hash, Bytes, NIH_LEN, GoodLength
  <2>3. Stage("IKEY", {"a", "id"}, Q_ANY)' /\ at' = [at EXCEPT !["id"] = Hash(sid)]
    BY <2>1, <2>2, InnerValStage
  <2>4. ArgsAt(q, 0)'
    BY <2>3 DEF ArgsAt, Stage, ArgSeen, ArgKinds
  <2>5. Stored(Hash(sid), tok, 5, 10 + b, 5)'
    BY <1>1, <1>10, <2>3 DEF Stored
  <2>6. QED
    BY <1>1, <1>10, <2>4, <2>5 DEF QueryAt
<1>11. CASE p \in 5..(4 + b)
  <2>1. ArgsAt(q, p - 5) /\ ReadElem(args[(p - 5) + 1]) /\ p - 5 \in 0..(Len(args) - 1)
    <3>1. ArgsAt(q, p - 5)
      BY <1>1, <1>11 DEF QueryAt
    <3>2. p - 4 \in 1..b /\ D[5 + (p - 4)] = args[p - 4]
      BY <1>1, <1>2, <1>11
    <3>3. QED
      BY <1>1, <1>11, <3>1, <3>2
  <2>2. ArgsAt(q, (p - 5) + 1)' /\ at' = at
    BY <2>1, ArgsStep
  <2>3. (p - 5) + 1 = (p + 1) - 5 /\ p + 1 \in 5..(5 + b)
    BY <1>1, <1>11
  <2>4. QED
    BY <1>1, <1>3, <1>11, <2>2, <2>3 DEF QueryAt
<1>12. CASE p = 5 + b
  <2>1. ArgsAt(q, b) /\ ReadElem(End)
    <3>1. ArgsAt(q, b)
      BY <1>1, <1>12 DEF QueryAt
    <3>2. QED
      BY <1>1, <1>2, <1>12, <3>1
  <2>2. Stage("IKEY", keys, ArgKinds(q, b))
    <3>1. b \notin {1, 3, 5}
      BY <1>1, EvenArgs
    <3>2. QED
      BY <2>1, <3>1 DEF ArgsAt
  <2>3. Stage("OKEY", keys, ArgKinds(q, b))' /\ at' = at
    BY <2>1, <2>2, EndStage
  <2>4. QED
    BY <1>1, <1>3, <1>12, <2>3 DEF QueryAt
<1>13. CASE p = 6 + b
  <2>1. Stage("OKEY", keys, ArgKinds(q, b)) /\ ReadElem(Elem(S("q", 1)))
    <3>0. p \notin {0, 1, 2, 3, 4, 7 + b, 8 + b, 9 + b, 10 + b, 11 + b, 12 + b, 13 + b}
             /\ p \notin 5..(5 + b)
      <4>1. b \in Nat
        BY <1>1
      <4>2. QED
        BY <1>13, <4>1
    <3>1. Stage("OKEY", keys, ArgKinds(q, b))
      BY <3>0, Zenon DEF QueryAt
    <3>2. QED
      BY <1>1, <1>2, <1>13, <3>1
  <2>2. /\ Stage("OVAL", keys \cup {"q"}, ArgKinds(q, b) \cap Narrows("q"))' /\ hist'.key = "q"
        /\ at' = at
    BY <1>4, <2>1, OuterKeyStage
  <2>3. Stage("OVAL", keys \cup {"q"}, ArgKinds(q, b))'
    BY <1>5, <2>2 DEF Stage
  <2>4. QED
    BY <1>1, <1>3, <1>13, <2>2, <2>3 DEF QueryAt
<1>14. CASE p = 7 + b
  <2>1. /\ Stage("OVAL", keys \cup {"q"}, ArgKinds(q, b)) /\ hist.key = "q"
        /\ ReadElem(Elem(ForeignName(q)))
    <3>1. Stage("OVAL", keys \cup {"q"}, ArgKinds(q, b)) /\ hist.key = "q"
      BY <1>1, <1>14 DEF QueryAt
    <3>2. QED
      BY <1>1, <1>2, <1>14, <3>1
  <2>2. QueryOf(ForeignName(q).name) = IF q = "Q_AP" THEN {} ELSE {q}
    BY DEF QueryOf, ForeignName, S, Q_ANY
  <2>3. at' = at /\ (q = "Q_AP" => krpc'.status = "error")
    BY <2>1, <2>2, QueryNameStage
  <2>4. CASE q # "Q_AP"
    <3>1. Stage("OKEY", keys \cup {"q"}, ArgKinds(q, b) \cap {q})'
      BY <2>1, <2>2, <2>4, QueryNameStage
    <3>2. ArgKinds(q, b) \cap {q} = {q}
      BY <1>1, <2>4 DEF ArgKinds, Q_ANY
    <3>3. Stage("OKEY", keys \cup {"q"}, {q})'
      BY <3>1, <3>2 DEF Stage
    <3>4. QED
      BY <1>1, <1>3, <1>14, <2>3, <2>4, <3>3 DEF QueryAt
  <2>5. QED
    BY <2>3, <2>4
<1>15. CASE p = 8 + b
  <2>1. Stage("OKEY", keys \cup {"q"}, {q}) /\ ReadElem(Elem(S("t", 1))) /\ q # "Q_AP"
    <3>1. Stage("OKEY", keys \cup {"q"}, {q}) /\ q # "Q_AP"
      BY <1>1, <1>15 DEF QueryAt
    <3>2. QED
      BY <1>1, <1>2, <1>15, <3>1
  <2>2. /\ Stage("OVAL", (keys \cup {"q"}) \cup {"t"}, {q} \cap Narrows("t"))' /\ hist'.key = "t"
        /\ at' = at
    BY <1>4, <2>1, OuterKeyStage
  <2>3. Stage("OVAL", keys \cup {"q", "t"}, {q})'
    BY <1>5, <2>2 DEF Stage
  <2>4. QED
    BY <1>1, <1>3, <1>15, <2>1, <2>2, <2>3 DEF QueryAt
<1>16. CASE p = 9 + b
  <2>1. /\ Stage("OVAL", keys \cup {"q", "t"}, {q}) /\ hist.key = "t" /\ q # "Q_AP"
        /\ ReadElem(Elem(tok))
    <3>1. Stage("OVAL", keys \cup {"q", "t"}, {q}) /\ hist.key = "t" /\ q # "Q_AP"
      BY <1>1, <1>16 DEF QueryAt
    <3>2. QED
      BY <1>1, <1>2, <1>16, <3>1
  <2>2. Stage("OKEY", keys \cup {"q", "t"}, {q})' /\ at' = [at EXCEPT !["t"] = tok]
    BY <2>1, TokStage
  <2>3. Stored(Hash(sid), tok, 5, 10 + b, 10 + b)'
    BY <1>1, <1>16, <2>2 DEF Stored
  <2>4. QED
    BY <1>1, <1>16, <2>1, <2>2, <2>3 DEF QueryAt
<1>17. CASE p = 10 + b
  <2>1. Stage("OKEY", keys \cup {"q", "t"}, {q}) /\ ReadElem(Elem(S("y", 1))) /\ q # "Q_AP"
    <3>1. Stage("OKEY", keys \cup {"q", "t"}, {q}) /\ q # "Q_AP"
      BY <1>1, <1>17 DEF QueryAt
    <3>2. QED
      BY <1>1, <1>2, <1>17, <3>1
  <2>2. /\ Stage("OVAL", (keys \cup {"q", "t"}) \cup {"y"}, {q} \cap Narrows("y"))'
        /\ hist'.key = "y" /\ at' = at
    BY <1>4, <2>1, OuterKeyStage
  <2>3. Stage("OVAL", keys \cup {"q", "t", "y"}, {q})'
    BY <1>5, <2>2 DEF Stage
  <2>4. QED
    BY <1>1, <1>3, <1>17, <2>1, <2>2, <2>3 DEF QueryAt
<1>18. CASE p = 11 + b
  <2>1. /\ Stage("OVAL", keys \cup {"q", "t", "y"}, {q}) /\ hist.key = "y" /\ q # "Q_AP"
        /\ ReadElem(Elem(S("q", 1)))
    <3>1. Stage("OVAL", keys \cup {"q", "t", "y"}, {q}) /\ hist.key = "y" /\ q # "Q_AP"
      BY <1>1, <1>18 DEF QueryAt
    <3>2. QED
      BY <1>1, <1>2, <1>18, <3>1
  <2>2. Stage("OKEY", keys \cup {"q", "t", "y"}, {q} \cap TypeOf("q"))' /\ at' = at
    BY <2>1, TypeStage
  <2>3. Stage("OKEY", keys \cup {"q", "t", "y"}, {q})'
    BY <1>5, <2>2 DEF Stage
  <2>4. QED
    BY <1>1, <1>3, <1>18, <2>1, <2>2, <2>3 DEF QueryAt
<1>19. CASE p = 12 + b
  <2>1. Stage("OKEY", keys \cup {"q", "t", "y"}, {q}) /\ ReadElem(End) /\ q # "Q_AP"
    <3>1. Stage("OKEY", keys \cup {"q", "t", "y"}, {q}) /\ q # "Q_AP"
      BY <1>1, <1>19 DEF QueryAt
    <3>2. QED
      BY <1>1, <1>2, <1>19, <3>1
  <2>2. Verdict = q /\ q \in ANY
    BY <1>1, <2>1, QueryAccepted DEF ANY
  <2>3. krpc'.status = "ok" /\ krpc'.method = q /\ at' = at
    BY <2>1, <2>2, LastEndStage
  <2>4. QED
    BY <1>1, <1>3, <1>19, <2>1, <2>3 DEF QueryAt
<1>20. QED
  BY <1>1, <1>6, <1>7, <1>8, <1>9, <1>10, <1>11, <1>12, <1>13, <1>14, <1>15, <1>16, <1>17, <1>18,
     <1>19

-----------------------------------------------------------------------------
(* A reply, likewise.  Its kind is told by the length of its body.         *)

ReplyKind(b) == IF b = 0 THEN "R_PG" ELSE IF b = 2 THEN "R_FN" ELSE "R_GP"
ReplyTok(b) == IF b = 0 THEN "pg" ELSE IF b = 2 THEN "fn" ELSE "gp"

IsBody(body) ==
    /\ IsSeq(body) /\ Len(body) \in {0, 2, 4}
    /\ Len(body) >= 2 => body[1] = Elem(S("nodes", 5)) /\ body[2] = Elem(S("pnode", PNODE_LEN))
    /\ Len(body) = 4 => body[3] = Elem(S("token", 5)) /\ body[4] = Elem(OUR_TOKEN)

BodySeen(j) ==
    {"y", "r", "id"} \cup (IF j >= 1 THEN {"nodes"} ELSE {}) \cup (IF j >= 3 THEN {"token"} ELSE {})

BodyKinds(j) == IF j = 0 THEN R_ANY ELSE {"R_FN", "R_GP"}

BodyAt(j) ==
    /\ Stage(IF j \in {1, 3} THEN "IVAL" ELSE "IKEY", BodySeen(j), BodyKinds(j))
    /\ j = 1 => hist.key = "nodes"
    /\ j = 3 => hist.key = "token"
    /\ j >= 2 => krpc.n_nodes > 0

ReplyAt(b, p) ==
    \/ p = 0 /\ Stage("START", {}, ANY)
    \/ p = 1 /\ Stage("OKEY", {}, ANY)
    \/ p = 2 /\ Stage("OVAL", {"y"}, ANY) /\ hist.key = "y"
    \/ p = 3 /\ Stage("OKEY", {"y"}, R_ANY)
    \/ p = 4 /\ Stage("OVAL", {"y", "r"}, R_ANY)
    \/ p = 5 /\ Stage("IKEY", {"y", "r"}, R_ANY)
    \/ p = 6 /\ Stage("IVAL", {"y", "r", "id"}, R_ANY) /\ hist.key = "id"
    \/ p \in 7..(7 + b) /\ BodyAt(p - 7)
    \/ p = 11 + b /\ krpc.status = "ok" /\ krpc.method = ReplyKind(b)
    \/ /\ b >= 2 => krpc.n_nodes > 0
       /\ \/ p = 8 + b /\ Stage("OKEY", BodySeen(b), BodyKinds(b))
          \/ p = 9 + b /\ Stage("OVAL", BodySeen(b) \cup {"t"}, BodyKinds(b)) /\ hist.key = "t"
          \/ /\ p = 10 + b /\ Stage("OKEY", BodySeen(b) \cup {"t"}, BodyKinds(b))
             /\ krpc.tok = ReplyTok(b)

LEMMA BodyStep ==
    ASSUME KInv, NEW body, IsBody(body), NEW j \in 0..(Len(body) - 1),
           BodyAt(j), ReadElem(body[j + 1])
    PROVE  BodyAt(j + 1)' /\ at' = at
<1>1. Len(body) \in {0, 2, 4} /\ j \in 0..3
  BY DEF IsBody
<1>2. CASE j = 0
  <2>1. Stage("IKEY", {"y", "r", "id"}, R_ANY) /\ ReadElem(Elem(S("nodes", 5)))
    BY <1>1, <1>2 DEF IsBody, BodyAt, BodySeen, BodyKinds
  <2>2. /\ Stage("IVAL", {"y", "r", "id"} \cup {"nodes"}, R_ANY \cap Narrows("nodes"))'
        /\ hist'.key = "nodes" /\ at' = at
    BY <2>1, InnerKeyStage DEF IKeys
  <2>3. /\ R_ANY \cap Narrows("nodes") = BodyKinds(1)
        /\ {"y", "r", "id"} \cup {"nodes"} = BodySeen(1)
    BY DEF BodyKinds, BodySeen, Narrows, R_ANY
  <2>4. QED
    BY <1>2, <2>2, <2>3 DEF BodyAt, Stage
<1>3. CASE j = 1
  <2>1. /\ Stage("IVAL", BodySeen(1), BodyKinds(1)) /\ hist.key = "nodes"
        /\ ReadElem(Elem(S("pnode", PNODE_LEN)))
    BY <1>1, <1>3 DEF IsBody, BodyAt
  <2>2. S("pnode", PNODE_LEN).len = 26 /\ GoodLength(hist.key, 26)
    BY <2>1 DEF S, PNODE_LEN, GoodLength
  <2>3. Stage("IKEY", BodySeen(1), BodyKinds(1))' /\ at' = at /\ krpc'.n_nodes > 0
    BY <2>1, <2>2, InnerValStage
  <2>4. BodySeen(1) = BodySeen(2) /\ BodyKinds(1) = BodyKinds(2)
    BY DEF BodySeen, BodyKinds
  <2>5. QED
    BY <1>3, <2>3, <2>4 DEF BodyAt, Stage
<1>4. CASE j = 2
  <2>1. /\ Stage("IKEY", BodySeen(2), BodyKinds(2)) /\ ReadElem(Elem(S("token", 5)))
        /\ krpc.n_nodes > 0
    BY <1>1, <1>4 DEF IsBody, BodyAt
  <2>2. /\ Stage("IVAL", BodySeen(2) \cup {"token"}, BodyKinds(2) \cap Narrows("token"))'
        /\ hist'.key = "token" /\ at' = at /\ krpc' = krpc
    BY <2>1, InnerKeyStage DEF IKeys
  <2>3. /\ BodyKinds(2) \cap Narrows("token") = BodyKinds(3)
        /\ BodySeen(2) \cup {"token"} = BodySeen(3)
    BY DEF BodyKinds, BodySeen, Narrows, ANY, R_ANY
  <2>4. QED
    BY <1>4, <2>1, <2>2, <2>3 DEF BodyAt, Stage
<1>5. CASE j = 3
  <2>1. /\ Stage("IVAL", BodySeen(3), BodyKinds(3)) /\ ReadElem(Elem(OUR_TOKEN))
        /\ hist.key = "token" /\ krpc.n_nodes > 0
    BY <1>1, <1>5 DEF IsBody, BodyAt
  <2>2. OUR_TOKEN.len = 1 /\ GoodLength(hist.key, 1)
    BY <2>1 DEF OUR_TOKEN, S, GoodLength, MAXLEN_TOKEN
  <2>3. Stage("IKEY", BodySeen(3), BodyKinds(3))' /\ at' = at /\ krpc'.n_nodes = krpc.n_nodes
    BY <2>1, <2>2, InnerValStage
  <2>4. BodySeen(3) = BodySeen(4) /\ BodyKinds(3) = BodyKinds(4)
    BY DEF BodySeen, BodyKinds
  <2>5. QED
    BY <1>5, <2>1, <2>3, <2>4 DEF BodyAt, Stage
<1>6. QED
  BY <1>1, <1>2, <1>3, <1>4, <1>5

LEMMA ReplyAccepted ==
    ASSUME KInv, NEW b \in {0, 2, 4}, Stage("OKEY", BodySeen(b) \cup {"t"}, BodyKinds(b)),
           krpc.tok = ReplyTok(b), b >= 2 => krpc.n_nodes > 0
    PROVE  Verdict = ReplyKind(b)
<1>1. hist.seen = BodySeen(b) \cup {"t"} /\ hist.kind = BodyKinds(b)
  BY DEF Stage
<1>2. /\ {"id", "t"} \subseteq hist.seen
      /\ hist.kind \cap Q_ANY = {} /\ hist.kind \cap R_ANY # {}
  BY <1>1 DEF BodySeen, BodyKinds, Q_ANY, R_ANY
<1>3. Verdict = ReplyVerdict
  BY <1>2 DEF Verdict
<1>4. krpc.n_nodes \in Nat /\ krpc.n_peers \in Nat
  BY KrpcAssumption DEF KInv, Types, Object
<1>5. CASE b = 0
  <2>1. hist.seen = {"y", "r", "id", "t"}
    BY <1>1, <1>5 DEF BodySeen
  <2>2. /\ ~ Has({"token"}) /\ ~ Has({"values"}) /\ ~ Has({"nodes"}) /\ ~ Has({"nodes", "values"})
        /\ ~ Has(IKEY_ANY_NON_TOKEN_BODY)
    BY <2>1 DEF Has, IKEY_ANY_NON_TOKEN_BODY, IKEY_ANY_BODY
  <2>3. krpc.tok = "pg" /\ ReplyKind(b) = "R_PG"
    BY <1>5 DEF ReplyTok, ReplyKind
  <2>4. QED
    BY <1>3, <2>2, <2>3 DEF ReplyVerdict
<1>6. CASE b = 2
  <2>1. hist.seen = {"y", "r", "id", "t", "nodes"}
    BY <1>1, <1>6 DEF BodySeen
  <2>2. /\ ~ Has({"token"}) /\ ~ Has({"values"}) /\ Has({"nodes"}) /\ ~ Has({"values", "token"})
        /\ Has({"nodes", "values"})
    BY <2>1 DEF Has
  <2>3. krpc.tok = "fn" /\ ReplyKind(b) = "R_FN"
    BY <1>6 DEF ReplyTok, ReplyKind
  <2>4. QED
    BY <1>3, <2>2, <2>3 DEF ReplyVerdict
<1>7. CASE b = 4
  <2>1. hist.seen = {"y", "r", "id", "t", "nodes", "token"}
    BY <1>1, <1>7 DEF BodySeen
  <2>2. /\ Has({"token"}) /\ ~ Has({"values"}) /\ Has({"values", "token"})
        /\ Has({"nodes", "values"}) /\ Has({"values", "nodes"})
    BY <2>1 DEF Has
  <2>3. krpc.tok = "gp" /\ ReplyKind(b) = "R_GP" /\ krpc.n_nodes + krpc.n_peers > 0
    BY <1>4, <1>7 DEF ReplyTok, ReplyKind
  <2>4. QED
    BY <1>3, <2>2, <2>3 DEF ReplyVerdict
<1>8. QED
  BY <1>5, <1>6, <1>7

\* The parser reads a reply to one of its own queries as it was written.
LEMMA ReplyStep ==
    ASSUME KInv, NEW body, IsBody(body), NEW b, b = Len(body), NEW nid, NEW tok,
           tok.len \in 0..MAXLEN_TOK, TokKind(tok) = ReplyTok(b),
           NEW D, D = Reply(nid, body, tok), NEW p \in 0..(10 + b),
           ReplyAt(b, p), Stored(Hash(write_sid(nid)), tok, 7, 10 + b, p), ReadElem(D[p + 1])
    PROVE  ReplyAt(b, p + 1)' /\ Stored(Hash(write_sid(nid)), tok, 7, 10 + b, p + 1)'
<1>1. b \in {0, 2, 4}
  BY DEF IsBody
<1>2. /\ D[1] = Dict /\ D[2] = Elem(S("y", 1)) /\ D[3] = Elem(S("r", 1))
      /\ D[4] = Elem(S("r", 1)) /\ D[5] = Dict
      /\ D[6] = Elem(S("id", 2)) /\ D[7] = Elem(Hash(write_sid(nid)))
      /\ \A i \in 1..b : D[7 + i] = body[i]
      /\ D[8 + b] = End
      /\ D[9 + b] = Elem(S("t", 1)) /\ D[10 + b] = Elem(tok)
      /\ D[11 + b] = End
  <2>1. IsSeq(body)
    BY DEF IsBody
  <2>2. ReplyElems(D, nid, body, tok, b)
    BY <2>1, ReplyElements, Zenon
  <2>3. QED
    BY <2>2 DEF ReplyElems
<1> DEFINE none == {}
           keys == BodySeen(b)
           id == Hash(write_sid(nid))
<1>3. at' = at /\ p # 6 /\ p # 9 + b => Stored(id, tok, 7, 10 + b, p + 1)'
  BY <1>1 DEF Stored
<1>4. /\ "y" \in OKeys /\ "r" \in OKeys /\ "t" \in OKeys
      /\ "y" \notin {"r", "a", "q"} /\ "t" \notin {"r", "a", "q"} /\ {"y"} \cap {"a", "q"} = {}
  BY DEF OKeys
<1>5. /\ ANY \cap Narrows("y") = ANY /\ ANY \cap TypeOf("r") = R_ANY
      /\ R_ANY \cap Narrows("r") = R_ANY /\ R_ANY \cap Narrows("id") = R_ANY
      /\ BodyKinds(b) \cap Narrows("t") = BodyKinds(b)
  BY DEF Narrows, TypeOf, BodyKinds, ANY, Q_ANY, R_ANY
<1>6. CASE p = 0
  <2>1. Stage("START", {}, ANY) /\ ReadElem(Dict)
    BY <1>1, <1>2, <1>6 DEF ReplyAt
  <2>2. Stage("OKEY", {}, ANY)' /\ at' = at
    BY <2>1, DictStage
  <2>3. QED
    BY <1>1, <1>3, <1>6, <2>2 DEF ReplyAt
<1>7. CASE p = 1
  <2>1. Stage("OKEY", none, ANY) /\ ReadElem(Elem(S("y", 1)))
    BY <1>1, <1>2, <1>7 DEF ReplyAt
  <2>2. Stage("OVAL", none \cup {"y"}, ANY \cap Narrows("y"))' /\ hist'.key = "y" /\ at' = at
    <3> HIDE DEF none
    <3>1. QED
      BY <1>4, <2>1, OuterKeyStage
  <2>3. Stage("OVAL", {"y"}, ANY)'
    BY <1>5, <2>2 DEF Stage
  <2>4. QED
    BY <1>1, <1>3, <1>7, <2>2, <2>3 DEF ReplyAt
<1>8. CASE p = 2
  <2>1. Stage("OVAL", {"y"}, ANY) /\ hist.key = "y" /\ ReadElem(Elem(S("r", 1)))
    BY <1>1, <1>2, <1>8 DEF ReplyAt
  <2>2. Stage("OKEY", {"y"}, ANY \cap TypeOf("r"))' /\ at' = at
    BY <2>1, TypeStage
  <2>3. Stage("OKEY", {"y"}, R_ANY)'
    BY <1>5, <2>2 DEF Stage
  <2>4. QED
    BY <1>1, <1>3, <1>8, <2>2, <2>3 DEF ReplyAt
<1>9. CASE p = 3
  <2>1. Stage("OKEY", {"y"}, R_ANY) /\ ReadElem(Elem(S("r", 1)))
    BY <1>1, <1>2, <1>9 DEF ReplyAt
  <2>2. Stage("OVAL", {"y"} \cup {"r"}, R_ANY \cap Narrows("r"))' /\ at' = at
    BY <1>4, <2>1, OuterKeyStage
  <2>3. Stage("OVAL", {"y", "r"}, R_ANY)'
    BY <1>5, <2>2 DEF Stage
  <2>4. QED
    BY <1>1, <1>3, <1>9, <2>2, <2>3 DEF ReplyAt
<1>10. CASE p = 4
  <2>1. Stage("OVAL", {"y", "r"}, R_ANY) /\ ReadElem(Dict)
    BY <1>1, <1>2, <1>10 DEF ReplyAt
  <2>2. Stage("IKEY", {"y", "r"}, R_ANY)' /\ at' = at
    BY <2>1, DictStage
  <2>3. QED
    BY <1>1, <1>3, <1>10, <2>2 DEF ReplyAt
<1>11. CASE p = 5
  <2>1. Stage("IKEY", {"y", "r"}, R_ANY) /\ ReadElem(Elem(S("id", 2)))
    BY <1>1, <1>2, <1>11 DEF ReplyAt
  <2>2. /\ Stage("IVAL", {"y", "r"} \cup {"id"}, R_ANY \cap Narrows("id"))' /\ hist'.key = "id"
        /\ at' = at
    BY <2>1, InnerKeyStage DEF IKeys
  <2>3. Stage("IVAL", {"y", "r", "id"}, R_ANY)'
    BY <1>5, <2>2 DEF Stage
  <2>4. QED
    BY <1>1, <1>3, <1>11, <2>2, <2>3 DEF ReplyAt
<1>12. CASE p = 6
  <2>1. Stage("IVAL", {"y", "r", "id"}, R_ANY) /\ hist.key = "id" /\ ReadElem(Elem(id))
    BY <1>1, <1>2, <1>12 DEF ReplyAt
  <2>2. id.len = 20 /\ GoodLength(hist.key, 20)
    BY <2>1 DEF Hash, Bytes, NIH_LEN, GoodLength
  <2>3. Stage("IKEY", {"y", "r", "id"}, R_ANY)' /\ at' = [at EXCEPT !["id"] = id]
    <3> HIDE DEF id
    <3>1. QED
      BY <2>1, <2>2, InnerValStage
  <2>4. BodyAt(0)'
    BY <2>3 DEF BodyAt, Stage, BodySeen, BodyKinds
  <2>5. Stored(id, tok, 7, 10 + b, 7)'
    BY <1>1, <1>12, <2>3 DEF Stored
  <2>6. QED
    BY <1>1, <1>12, <2>4, <2>5 DEF ReplyAt
<1>13. CASE p \in 7..(6 + b)
  <2>1. BodyAt(p - 7)
    BY <1>1, <1>13 DEF ReplyAt
  <2>2. ReadElem(body[(p - 7) + 1]) /\ p - 7 \in 0..(Len(body) - 1)
    <3>1. p - 6 \in 1..b /\ 7 + (p - 6) = p + 1 /\ (p - 7) + 1 = p - 6
      BY <1>1, <1>13
    <3>2. D[p + 1] = body[(p - 7) + 1]
      BY <1>2, <3>1
    <3>3. p - 7 \in 0..(b - 1)
      BY <1>1, <1>13
    <3>4. QED
      BY <3>2, <3>3
  <2>3. BodyAt((p - 7) + 1)' /\ at' = at
    BY <2>1, <2>2, BodyStep
  <2>4. (p - 7) + 1 = (p + 1) - 7 /\ p + 1 \in 7..(7 + b)
    BY <1>1, <1>13
  <2>5. QED
    BY <1>1, <1>3, <1>13, <2>3, <2>4 DEF ReplyAt
<1>14. CASE p = 7 + b
  <2>1. BodyAt(b) /\ ReadElem(End)
    <3>1. BodyAt(b)
      BY <1>1, <1>14 DEF ReplyAt
    <3>2. QED
      BY <1>1, <1>2, <1>14, <3>1
  <2>2. Stage("IKEY", keys, BodyKinds(b)) /\ (b >= 2 => krpc.n_nodes > 0)
    <3>1. b \notin {1, 3}
      BY <1>1, EvenArgs
    <3>2. QED
      BY <2>1, <3>1 DEF BodyAt
  <2>3. Stage("OKEY", keys, BodyKinds(b))' /\ at' = at /\ krpc' = krpc
    BY <2>1, <2>2, EndStage
  <2>4. QED
    BY <1>1, <1>3, <1>14, <2>2, <2>3 DEF ReplyAt
<1>15. CASE p = 8 + b
  <2>1. /\ Stage("OKEY", keys, BodyKinds(b)) /\ (b >= 2 => krpc.n_nodes > 0)
        /\ ReadElem(Elem(S("t", 1)))
    <3>1. Stage("OKEY", keys, BodyKinds(b)) /\ (b >= 2 => krpc.n_nodes > 0)
      BY <1>1, <1>15 DEF ReplyAt
    <3>2. QED
      BY <1>1, <1>2, <1>15, <3>1
  <2>2. /\ Stage("OVAL", keys \cup {"t"}, BodyKinds(b) \cap Narrows("t"))' /\ hist'.key = "t"
        /\ at' = at /\ krpc' = krpc
    BY <1>4, <2>1, OuterKeyStage
  <2>3. Stage("OVAL", keys \cup {"t"}, BodyKinds(b))'
    BY <1>5, <2>2 DEF Stage
  <2>4. QED
    BY <1>1, <1>3, <1>15, <2>1, <2>2, <2>3 DEF ReplyAt
<1>16. CASE p = 9 + b
  <2>1. /\ Stage("OVAL", keys \cup {"t"}, BodyKinds(b)) /\ hist.key = "t"
        /\ (b >= 2 => krpc.n_nodes > 0) /\ ReadElem(Elem(tok))
    <3>1. /\ Stage("OVAL", keys \cup {"t"}, BodyKinds(b)) /\ hist.key = "t"
          /\ (b >= 2 => krpc.n_nodes > 0)
      BY <1>1, <1>16 DEF ReplyAt
    <3>2. QED
      BY <1>1, <1>2, <1>16, <3>1
  <2>2. /\ Stage("OKEY", keys \cup {"t"}, BodyKinds(b))' /\ at' = [at EXCEPT !["t"] = tok]
        /\ krpc'.tok = TokKind(tok) /\ krpc'.n_nodes = krpc.n_nodes
    BY <2>1, TokStage
  <2>3. Stored(id, tok, 7, 10 + b, 10 + b)'
    BY <1>1, <1>16, <2>2 DEF Stored
  <2>4. QED
    BY <1>1, <1>16, <2>1, <2>2, <2>3 DEF ReplyAt
<1>17. CASE p = 10 + b
  <2>1. /\ Stage("OKEY", keys \cup {"t"}, BodyKinds(b)) /\ krpc.tok = ReplyTok(b)
        /\ (b >= 2 => krpc.n_nodes > 0) /\ ReadElem(End)
    <3>1. /\ Stage("OKEY", keys \cup {"t"}, BodyKinds(b)) /\ krpc.tok = ReplyTok(b)
          /\ (b >= 2 => krpc.n_nodes > 0)
      BY <1>1, <1>17 DEF ReplyAt
    <3>2. QED
      BY <1>1, <1>2, <1>17, <3>1
  <2>2. Verdict = ReplyKind(b) /\ ReplyKind(b) \in ANY
    BY <1>1, <2>1, ReplyAccepted DEF ReplyKind, ANY, R_ANY
  <2>3. krpc'.status = "ok" /\ krpc'.method = ReplyKind(b) /\ at' = at
    BY <2>1, <2>2, LastEndStage
  <2>4. QED
    BY <1>1, <1>3, <1>17, <2>3 DEF ReplyAt
<1>18. QED
  BY <1>1, <1>6, <1>7, <1>8, <1>9, <1>10, <1>11, <1>12, <1>13, <1>14, <1>15, <1>16, <1>17

-----------------------------------------------------------------------------
(* The sizes of what is written.                                           *)

\* The strings of a datagram have a length.
GoodElem(e) == e.el = "s" => e.s.len \in Nat

\* E is the first c elements of D, and perhaps a zero byte.
Written(E, D, c) ==
    /\ IsSeq(E) /\ c \in 0..Len(D) /\ Len(E) \in {c, c + 1}
    /\ \A i \in 1..c : E[i] = D[i]
    /\ Len(E) = c + 1 => E[c + 1] = Nul

LEMMA SizeOfGood == ASSUME NEW e, GoodElem(e) PROVE SizeOf(e) \in Nat
  BY DEF GoodElem, SizeOf

LEMMA SizeOfString ==
    ASSUME NEW s, s.len \in Nat
    PROVE  GoodElem(Elem(s)) /\ SizeOf(Elem(s)) = (IF s.len < 10 THEN 2 ELSE 3) + s.len
  BY DEF GoodElem, Elem, SizeOf

LEMMA SizeOfOthers ==
    /\ GoodElem(Dict) /\ GoodElem(End) /\ GoodElem(Int4) /\ GoodElem(Nul)
    /\ SizeOf(Dict) = 1 /\ SizeOf(End) = 1 /\ SizeOf(Int4) = 6 /\ SizeOf(Nul) = 1
  BY DEF GoodElem, SizeOf, Dict, End, Int4, Nul

LEMMA SizeOfNamed ==
    ASSUME NEW name, NEW len \in Nat
    PROVE  /\ GoodElem(Elem(S(name, len)))
           /\ SizeOf(Elem(S(name, len))) = (IF len < 10 THEN 2 ELSE 3) + len
<1>1. S(name, len).len = len
  BY DEF S
<1>2. QED
  BY <1>1, SizeOfString

LEMMA SizeOfTok ==
    ASSUME NEW tok, tok.len \in 0..MAXLEN_TOK
    PROVE  /\ GoodElem(Elem(tok)) /\ SizeOf(Elem(tok)) \in 2..35
           /\ SizeOf(Elem(tok)) \in (2 + tok.len)..(3 + tok.len)
<1>1. tok.len \in 0..32
  BY DEF MAXLEN_TOK
<1>2. QED
  BY <1>1, SizeOfString

LEMMA SizeOfHash == ASSUME NEW nih PROVE GoodElem(Elem(Hash(nih))) /\ SizeOf(Elem(Hash(nih))) = 23
<1>1. Hash(nih).len = 20
  BY DEF Hash, Bytes, NIH_LEN
<1>2. QED
  BY <1>1, SizeOfString

LEMMA UpToSix ==
    ASSUME NEW b \in {0, 2, 4, 6}, NEW i \in 1..b
    PROVE  i \in 1..6 /\ b >= 2 /\ (i \in {3, 4} => b >= 4) /\ (i \in {5, 6} => b = 6 /\ b >= 4)
  OBVIOUS

LEMMA UpToFour ==
    ASSUME NEW b \in {0, 2, 4}, NEW i \in 1..b
    PROVE  i \in 1..4 /\ b >= 2 /\ (i \in {3, 4} => b = 4)
  OBVIOUS

\* The elements of the arguments of a query, and their sizes.
LEMMA ArgSizes ==
    ASSUME NEW q \in Q_ANY, NEW args, IsArgs(q, args), NEW b, b = Len(args), NEW i \in 1..b
    PROVE  GoodElem(args[i]) /\ SizeOf(args[i]) \in 1..23
<1>0. b \in {0, 2, 4, 6}
  BY DEF IsArgs
<1>1. i \in 1..6 /\ b >= 2 /\ (i \in {3, 4} => b >= 4) /\ (i \in {5, 6} => b = 6 /\ b >= 4)
  BY <1>0, UpToSix, Zenon
<1>2. CASE i = 1
  <2>1. args[i] = Elem(S(ArgKey(q), IF q = "Q_FN" THEN 6 ELSE 9))
    BY <1>1, <1>2 DEF IsArgs
  <2>2. QED
    BY <2>1, SizeOfNamed
<1>3. CASE i = 2
  <2>1. PICK ih : args[i] = Elem(Hash(ih))
    BY <1>1, <1>3 DEF IsArgs
  <2>2. QED
    BY <2>1, SizeOfHash
<1>4. CASE i = 3 \/ i = 5
  <2>1. args[i] = Elem(S("port", 4)) \/ args[i] = Elem(S("token", 5))
    <3>1. CASE i = 3
      BY <1>1, <3>1 DEF IsArgs
    <3>2. CASE i = 5
      BY <1>1, <3>2 DEF IsArgs
    <3>3. QED
      BY <1>4, <3>1, <3>2
  <2>2. QED
    BY <2>1, SizeOfNamed
<1>5. CASE i = 4
  <2>1. args[i] = Int4
    BY <1>1, <1>5 DEF IsArgs
  <2>2. QED
    BY <2>1, SizeOfOthers
<1>6. CASE i = 6
  <2>1. args[i] = Elem(S("ours", 1))
    BY <1>1, <1>6 DEF IsArgs, OUR_TOKEN
  <2>2. QED
    BY <2>1, SizeOfNamed
<1>7. QED
  BY <1>1, <1>2, <1>3, <1>4, <1>5, <1>6

LEMMA BodySizes ==
    ASSUME NEW body, IsBody(body), NEW b, b = Len(body), NEW i \in 1..b
    PROVE  GoodElem(body[i]) /\ SizeOf(body[i]) = IF i = 2 THEN 29 ELSE IF i = 4 THEN 3 ELSE 7
<1>0. b \in {0, 2, 4}
  BY DEF IsBody
<1>1. i \in 1..4 /\ b >= 2 /\ (i \in {3, 4} => b = 4)
  BY <1>0, UpToFour, Zenon
<1>5. CASE i = 1 \/ i = 3
  <2>1. body[i] = Elem(S("nodes", 5)) \/ body[i] = Elem(S("token", 5))
    BY <1>1, <1>5 DEF IsBody
  <2>2. QED
    BY <1>5, <2>1, SizeOfNamed
<1>3. CASE i = 2
  <2>1. body[i] = Elem(S("pnode", 26))
    BY <1>1, <1>3 DEF IsBody, PNODE_LEN
  <2>2. QED
    BY <1>3, <2>1, SizeOfNamed
<1>4. CASE i = 4
  <2>1. body[i] = Elem(S("ours", 1))
    BY <1>1, <1>4 DEF IsBody, OUR_TOKEN
  <2>2. QED
    BY <1>4, <2>1, SizeOfNamed
<1>6. QED
  BY <1>1, <1>3, <1>4, <1>5

\* The elements of a query and of a reply by their sizes; their strings have
\* lengths.
QuerySizes(D, b) ==
    /\ IsSeq(D) /\ Len(D) = 13 + b /\ b \in {0, 2, 4, 6}
    /\ \A i \in 1..(13 + b) : GoodElem(D[i])
    /\ SizeOf(D[1]) = 1 /\ SizeOf(D[2]) = 3 /\ SizeOf(D[3]) = 1 /\ SizeOf(D[4]) = 4
    /\ SizeOf(D[5]) = 23
    /\ \A i \in 1..b : SizeOf(D[5 + i]) \in 1..23
    /\ SizeOf(D[6 + b]) = 1 /\ SizeOf(D[7 + b]) = 3 /\ SizeOf(D[8 + b]) \in 6..16
    /\ SizeOf(D[9 + b]) = 3 /\ SizeOf(D[10 + b]) \in 2..35
    /\ SizeOf(D[11 + b]) = 3 /\ SizeOf(D[12 + b]) = 3 /\ SizeOf(D[13 + b]) = 1

ReplySizes(D, b, len) ==
    /\ IsSeq(D) /\ Len(D) = 11 + b /\ b \in {0, 2, 4}
    /\ \A i \in 1..(11 + b) : GoodElem(D[i])
    /\ SizeOf(D[1]) = 1 /\ SizeOf(D[2]) = 3 /\ SizeOf(D[3]) = 3 /\ SizeOf(D[4]) = 3
    /\ SizeOf(D[5]) = 1 /\ SizeOf(D[6]) = 4 /\ SizeOf(D[7]) = 23
    /\ \A i \in 1..b : SizeOf(D[7 + i]) = IF i = 2 THEN 29 ELSE IF i = 4 THEN 3 ELSE 7
    /\ SizeOf(D[8 + b]) = 1 /\ SizeOf(D[9 + b]) = 3
    /\ SizeOf(D[10 + b]) \in (2 + len)..(3 + len)
    /\ SizeOf(D[11 + b]) = 1

LEMMA QueryGood ==
    ASSUME NEW q \in Q_ANY, NEW args, IsArgs(q, args), NEW b, b = Len(args),
           NEW sid, NEW tok, tok.len \in 0..MAXLEN_TOK,
           NEW D, D = Query(sid, args, ForeignName(q), tok)
    PROVE  QuerySizes(D, b)
<1>1. IsSeq(args) /\ b \in {0, 2, 4, 6}
  BY DEF IsArgs
<1>2. QueryElems(D, sid, args, ForeignName(q), tok, b)
  BY <1>1, QueryElements, Zenon
<1>3. /\ GoodElem(D[1]) /\ SizeOf(D[1]) = 1
      /\ GoodElem(D[3]) /\ SizeOf(D[3]) = 1
      /\ GoodElem(D[6 + b]) /\ SizeOf(D[6 + b]) = 1
      /\ GoodElem(D[13 + b]) /\ SizeOf(D[13 + b]) = 1
  BY <1>2, SizeOfOthers DEF QueryElems
<1>4. /\ GoodElem(D[2]) /\ SizeOf(D[2]) = 3
      /\ GoodElem(D[7 + b]) /\ SizeOf(D[7 + b]) = 3
      /\ GoodElem(D[9 + b]) /\ SizeOf(D[9 + b]) = 3
      /\ GoodElem(D[11 + b]) /\ SizeOf(D[11 + b]) = 3
      /\ GoodElem(D[12 + b]) /\ SizeOf(D[12 + b]) = 3
  BY <1>2, SizeOfNamed DEF QueryElems
<1>5. /\ GoodElem(D[4]) /\ SizeOf(D[4]) = 4
      /\ GoodElem(D[5]) /\ SizeOf(D[5]) = 23
  BY <1>2, SizeOfNamed, SizeOfHash DEF QueryElems
<1>6. GoodElem(D[8 + b]) /\ SizeOf(D[8 + b]) \in 6..16
  <2>1. \E name : \E len \in {4, 9, 13} : ForeignName(q) = S(name, len)
    BY DEF ForeignName, Q_ANY
  <2>2. PICK name, len : len \in {4, 9, 13} /\ ForeignName(q) = S(name, len)
    BY <2>1
  <2>3. D[8 + b] = Elem(S(name, len))
    BY <1>2, <2>2 DEF QueryElems
  <2>4. QED
    BY <2>2, <2>3, SizeOfNamed
<1>7. GoodElem(D[10 + b]) /\ SizeOf(D[10 + b]) \in 2..35
  <2>1. D[10 + b] = Elem(tok)
    BY <1>2 DEF QueryElems
  <2>2. QED
    BY <2>1, SizeOfTok
<1>8. \A i \in 1..b : GoodElem(D[5 + i]) /\ SizeOf(D[5 + i]) \in 1..23
  <2>1. ASSUME NEW i \in 1..b PROVE GoodElem(D[5 + i]) /\ SizeOf(D[5 + i]) \in 1..23
    <3>1. D[5 + i] = args[i]
      BY <1>2 DEF QueryElems
    <3>2. QED
      BY <3>1, ArgSizes
  <2>2. QED
    BY <2>1
<1>9. ASSUME NEW i \in 1..(13 + b) PROVE GoodElem(D[i])
  <2>1. CASE i \in 6..(5 + b)
    <3>1. i - 5 \in 1..b /\ 5 + (i - 5) = i
      BY <1>1, <2>1
    <3>2. QED
      BY <1>8, <3>1
  <2>2. CASE i \notin 6..(5 + b)
    <3>1. i \in 1..5 \/ i \in {6 + b, 7 + b, 8 + b, 9 + b, 10 + b, 11 + b, 12 + b, 13 + b}
      <4>1. b \in Nat
        BY <1>1
      <4>2. i \in 1..5 \/ i \in (6 + b)..(13 + b)
        BY <2>2, <4>1
      <4>3. \A k \in (6 + b)..(13 + b) :
               k \in {6 + b, 7 + b, 8 + b, 9 + b, 10 + b, 11 + b, 12 + b, 13 + b}
        BY <4>1
      <4>4. QED
        BY <4>2, <4>3, Zenon
    <3>2. QED
      BY <1>3, <1>4, <1>5, <1>6, <1>7, <3>1
  <2>3. QED
    BY <2>1, <2>2
<1>10. IsSeq(D) /\ Len(D) = 13 + b
  BY <1>2 DEF QueryElems
<1>11. QED
  BY <1>1, <1>3, <1>4, <1>5, <1>6, <1>7, <1>8, <1>9, <1>10 DEF QuerySizes

LEMMA ReplyGood ==
    ASSUME NEW body, IsBody(body), NEW b, b = Len(body), NEW nid,
           NEW tok, tok.len \in 0..MAXLEN_TOK, NEW D, D = Reply(nid, body, tok)
    PROVE  ReplySizes(D, b, tok.len)
<1>1. IsSeq(body) /\ b \in {0, 2, 4}
  BY DEF IsBody
<1>2. ReplyElems(D, nid, body, tok, b)
  BY <1>1, ReplyElements, Zenon
<1>3. /\ GoodElem(D[1]) /\ SizeOf(D[1]) = 1
      /\ GoodElem(D[5]) /\ SizeOf(D[5]) = 1
      /\ GoodElem(D[8 + b]) /\ SizeOf(D[8 + b]) = 1
      /\ GoodElem(D[11 + b]) /\ SizeOf(D[11 + b]) = 1
  BY <1>2, SizeOfOthers DEF ReplyElems
<1>4. /\ GoodElem(D[2]) /\ SizeOf(D[2]) = 3
      /\ GoodElem(D[3]) /\ SizeOf(D[3]) = 3
      /\ GoodElem(D[4]) /\ SizeOf(D[4]) = 3
      /\ GoodElem(D[9 + b]) /\ SizeOf(D[9 + b]) = 3
  BY <1>2, SizeOfNamed DEF ReplyElems
<1>5. /\ GoodElem(D[6]) /\ SizeOf(D[6]) = 4
      /\ GoodElem(D[7]) /\ SizeOf(D[7]) = 23
  BY <1>2, SizeOfNamed, SizeOfHash DEF ReplyElems
<1>6. GoodElem(D[10 + b]) /\ SizeOf(D[10 + b]) \in (2 + tok.len)..(3 + tok.len)
  <2>1. D[10 + b] = Elem(tok)
    BY <1>2 DEF ReplyElems
  <2>2. QED
    BY <2>1, SizeOfTok
<1>7. ASSUME NEW i \in 1..b
      PROVE  /\ GoodElem(D[7 + i])
             /\ SizeOf(D[7 + i]) = IF i = 2 THEN 29 ELSE IF i = 4 THEN 3 ELSE 7
  <2>1. D[7 + i] = body[i]
    BY <1>2 DEF ReplyElems
  <2>2. QED
    BY <2>1, BodySizes
<1>8. ASSUME NEW i \in 1..(11 + b) PROVE GoodElem(D[i])
  <2>1. CASE i \in 8..(7 + b)
    <3>1. i - 7 \in 1..b /\ 7 + (i - 7) = i
      BY <1>1, <2>1
    <3>2. QED
      BY <1>7, <3>1
  <2>2. CASE i \notin 8..(7 + b)
    <3>1. i \in 1..7 \/ i \in {8 + b, 9 + b, 10 + b, 11 + b}
      <4>1. b \in Nat
        BY <1>1
      <4>2. i \in 1..7 \/ i \in (8 + b)..(11 + b)
        BY <2>2, <4>1
      <4>3. \A k \in (8 + b)..(11 + b) : k \in {8 + b, 9 + b, 10 + b, 11 + b}
        BY <4>1
      <4>4. QED
        BY <4>2, <4>3, Zenon
    <3>2. 1..7 = {1, 2, 3, 4, 5, 6, 7}
      BY SMT
    <3>3. QED
      BY <1>3, <1>4, <1>5, <1>6, <3>1, <3>2, Zenon
  <2>3. QED
    BY <2>1, <2>2
<1>9. IsSeq(D) /\ Len(D) = 11 + b
  BY <1>2 DEF ReplyElems
<1>10. QED
  BY <1>1, <1>3, <1>4, <1>5, <1>6, <1>7, <1>8, <1>9 DEF ReplySizes

(* The running sums f of the sizes v of a query's and of a reply's elements. *)

\* A query with b elements of arguments, and perhaps a zero byte.
QuerySums(b, n, f, v) ==
    /\ b \in {0, 2, 4, 6} /\ n \in {13 + b, 14 + b}
    /\ f[0] = 0 /\ \A i \in 1..n : f[i] = f[i - 1] + v[i]
    /\ v[1] = 1 /\ v[2] = 3 /\ v[3] = 1 /\ v[4] = 4 /\ v[5] = 23
    /\ \A i \in 1..b : v[5 + i] \in 1..23
    /\ v[6 + b] = 1 /\ v[7 + b] = 3 /\ v[8 + b] \in 6..16 /\ v[9 + b] = 3
    /\ v[10 + b] \in 2..35
    /\ v[11 + b] = 3 /\ v[12 + b] = 3 /\ v[13 + b] = 1
    /\ n = 14 + b => v[14 + b] = 1

\* A size of a query.
QuerySized(x) == x \in Int /\ 45 <= x /\ x <= 300

\* The sizes of the arguments add up to between 1 and 23 each.
LEMMA QuerySum ==
    ASSUME NEW b, NEW n, NEW f, NEW v, QuerySums(b, n, f, v)
    PROVE  QuerySized(f[n])
<1>1. b \in {0, 2, 4, 6} /\ n \in {13 + b, 14 + b}
  BY Zenon DEF QuerySums
<1>2. b \in Nat /\ n \in Nat /\ 13 + b <= n
  BY <1>1
<1>3. ASSUME NEW i \in Nat, i < n PROVE f[i + 1] = f[i] + v[i + 1]
  <2>1. i + 1 \in 1..n /\ (i + 1) - 1 = i
    BY <1>2, <1>3
  <2>2. \A k \in 1..n : f[k] = f[k - 1] + v[k]
    BY Zenon DEF QuerySums
  <2>3. QED
    BY <2>1, <2>2
<1>4. /\ f[0] = 0 /\ v[1] = 1 /\ v[2] = 3 /\ v[3] = 1 /\ v[4] = 4 /\ v[5] = 23
      /\ v[6 + b] = 1 /\ v[7 + b] = 3 /\ v[8 + b] \in 6..16 /\ v[9 + b] = 3
      /\ v[10 + b] \in 2..35 /\ v[11 + b] = 3 /\ v[12 + b] = 3 /\ v[13 + b] = 1
  BY Zenon DEF QuerySums
<1>5. f[5] = 32
  <2>1. /\ f[1] = f[0] + v[1] /\ f[2] = f[1] + v[2] /\ f[3] = f[2] + v[3]
        /\ f[4] = f[3] + v[4] /\ f[5] = f[4] + v[5]
    BY <1>2, <1>3
  <2>2. QED
    BY <1>4, <2>1
<1> DEFINE Within(i) == f[5 + i] \in Int /\ 32 <= f[5 + i] /\ f[5 + i] <= 32 + 23 * i
<1>6. ASSUME NEW i \in Nat, i < b, Within(i) PROVE Within(i + 1)
  <2>1. v[5 + (i + 1)] \in 1..23
    <3>1. \A k \in 1..b : v[5 + k] \in 1..23
      BY Zenon DEF QuerySums
    <3>2. i + 1 \in 1..b
      BY <1>2, <1>6
    <3>3. QED
      BY <3>1, <3>2, Zenon
  <2>2. f[(5 + i) + 1] = f[5 + i] + v[(5 + i) + 1]
    BY <1>2, <1>3, <1>6
  <2>3. (5 + i) + 1 = 5 + (i + 1) /\ 23 * (i + 1) = 23 * i + 23
    OBVIOUS
  <2>4. PICK d : d = v[5 + (i + 1)]
    OBVIOUS
  <2>5. d \in Int /\ 1 <= d /\ d <= 23
    BY <2>1, <2>4
  <2>6. f[5 + (i + 1)] = f[5 + i] + d
    BY <2>2, <2>3, <2>4
  <2>7. QED
    BY <1>6, <2>3, <2>5, <2>6
<1>7. Within(0)
  BY <1>5
<1> HIDE DEF Within
<1>8. Within(b)
  <2>1. 0 < b => Within(1)
    BY <1>6, <1>7
  <2>2. 1 < b => Within(2)
    BY <1>2, <1>6, <2>1
  <2>3. 2 < b => Within(3)
    BY <1>2, <1>6, <2>2
  <2>4. 3 < b => Within(4)
    BY <1>2, <1>6, <2>3
  <2>5. 4 < b => Within(5)
    BY <1>2, <1>6, <2>4
  <2>6. 5 < b => Within(6)
    BY <1>2, <1>6, <2>5
  <2>7. QED
    BY <1>1, <1>7, <2>2, <2>4, <2>6
<1>9. f[5 + b] \in Int /\ 32 <= f[5 + b] /\ f[5 + b] <= 170
  BY <1>1, <1>8 DEF Within
<1>10. /\ f[6 + b] = f[5 + b] + v[6 + b] /\ f[7 + b] = f[6 + b] + v[7 + b]
       /\ f[8 + b] = f[7 + b] + v[8 + b] /\ f[9 + b] = f[8 + b] + v[9 + b]
       /\ f[10 + b] = f[9 + b] + v[10 + b] /\ f[11 + b] = f[10 + b] + v[11 + b]
       /\ f[12 + b] = f[11 + b] + v[12 + b] /\ f[13 + b] = f[12 + b] + v[13 + b]
  <2>1. \A k \in 5..12 : f[(k + b) + 1] = f[k + b] + v[(k + b) + 1] /\ (k + b) + 1 = (k + 1) + b
    BY <1>2, <1>3
  <2>2. QED
    BY <2>1
<1>11. /\ v[8 + b] \in Int /\ 6 <= v[8 + b] /\ v[8 + b] <= 16
       /\ v[10 + b] \in Int /\ 2 <= v[10 + b] /\ v[10 + b] <= 35
  BY <1>4
<1>12. f[13 + b] \in Int /\ 54 <= f[13 + b] /\ f[13 + b] <= 236
  <2>1. f[9 + b] \in Int /\ 45 <= f[9 + b] /\ f[9 + b] <= 193
    BY <1>4, <1>9, <1>10, <1>11
  <2>2. QED
    BY <1>4, <1>10, <1>11, <2>1
<1>13. f[n] \in Int /\ 54 <= f[n] /\ f[n] <= 237
  <2>1. CASE n = 13 + b
    BY <1>12, <2>1
  <2>2. CASE n = 14 + b
    <3>1. v[14 + b] = 1
      BY <2>2, Zenon DEF QuerySums
    <3>2. f[(13 + b) + 1] = f[13 + b] + v[(13 + b) + 1]
      BY <1>2, <1>3, <2>2
    <3>3. f[14 + b] = f[13 + b] + 1
      BY <1>2, <3>1, <3>2
    <3>4. QED
      BY <1>12, <2>2, <3>3
  <2>3. QED
    BY <1>1, <2>1, <2>2
<1>14. QED
  BY <1>13 DEF QuerySized

\* A reply with b elements in its body and a tok of the length len.
ReplySums(b, len, f, v) ==
    /\ b \in {0, 2, 4} /\ len \in Nat
    /\ f[0] = 0 /\ \A i \in 1..(11 + b) : f[i] = f[i - 1] + v[i]
    /\ v[1] = 1 /\ v[2] = 3 /\ v[3] = 3 /\ v[4] = 3 /\ v[5] = 1 /\ v[6] = 4 /\ v[7] = 23
    /\ \A i \in 1..b : v[7 + i] = IF i = 2 THEN 29 ELSE IF i = 4 THEN 3 ELSE 7
    /\ v[8 + b] = 1 /\ v[9 + b] = 3 /\ v[10 + b] \in (2 + len)..(3 + len) /\ v[11 + b] = 1

LEMMA ReplySum ==
    ASSUME NEW b, NEW len, NEW f, NEW v, ReplySums(b, len, f, v)
    PROVE  f[11 + b] \in 45..(100 + len)
<1> USE DEF ReplySums
<1>1. f[7] = 38
  OBVIOUS
<1>2. f[7 + b] \in 38..84
  <2>1. CASE b = 0
    BY <1>1, <2>1
  <2>2. CASE b = 2
    BY <1>1, <2>2
  <2>3. CASE b = 4
    BY <1>1, <2>3
  <2>4. QED
    BY <2>1, <2>2, <2>3
<1>3. /\ f[8 + b] = f[7 + b] + v[8 + b] /\ f[9 + b] = f[8 + b] + v[9 + b]
      /\ f[10 + b] = f[9 + b] + v[10 + b] /\ f[11 + b] = f[10 + b] + v[11 + b]
  OBVIOUS
<1>4. QED
  BY <1>2, <1>3

\* No query is too short or too long for cb_recv_msg.
LEMMA QuerySize ==
    ASSUME NEW b \in {0, 2, 4, 6}, NEW D, QuerySizes(D, b), NEW E, Written(E, D, 13 + b)
    PROVE  QuerySized(Size(E))
<1> DEFINE n == Len(E)
           v == [i \in 1..n |-> SizeOf(E[i])]
<1>1. /\ IsSeq(E) /\ n \in {13 + b, 14 + b}
      /\ \A i \in 1..(13 + b) : E[i] = D[i]
      /\ n = 14 + b => E[14 + b] = Nul
  BY DEF Written, QuerySizes
<1>2. \A i \in 1..n : v[i] = SizeOf(E[i])
  OBVIOUS
<1> HIDE DEF n, v
<1>3. \A i \in 1..n : i \in 1..(13 + b) \/ (n = 14 + b /\ i = 14 + b)
  BY <1>1
<1>4. \A i \in 1..n : SizeOf(E[i]) \in Nat
  BY <1>1, <1>3, SizeOfGood, SizeOfOthers DEF QuerySizes
<1>5. \E f : f[0] = 0 /\ (\A i \in 1..n : f[i] = f[i - 1] + v[i]) /\ Size(E) = f[n]
  <2>1. PICK f \in [0..n -> Nat] :
              f[0] = 0 /\ (\A i \in 1..n : f[i] = f[i - 1] + SizeOf(E[i])) /\ Size(E) = f[n]
    BY <1>1, <1>4, SizeSums DEF n
  <2>2. QED
    BY <1>2, <2>1, Zenon
<1>6. PICK f : f[0] = 0 /\ (\A i \in 1..n : f[i] = f[i - 1] + v[i]) /\ Size(E) = f[n]
  BY <1>5
<1>7. \A i \in 1..(13 + b) : v[i] = SizeOf(D[i])
  <2>1. 1..(13 + b) \subseteq 1..n
    BY <1>1
  <2>2. QED
    BY <1>1, <1>2, <2>1
<1>8. /\ 1 \in 1..(13 + b) /\ 2 \in 1..(13 + b) /\ 3 \in 1..(13 + b) /\ 4 \in 1..(13 + b)
      /\ 5 \in 1..(13 + b) /\ 6 + b \in 1..(13 + b) /\ 7 + b \in 1..(13 + b)
      /\ 8 + b \in 1..(13 + b) /\ 9 + b \in 1..(13 + b) /\ 10 + b \in 1..(13 + b)
      /\ 11 + b \in 1..(13 + b) /\ 12 + b \in 1..(13 + b) /\ 13 + b \in 1..(13 + b)
      /\ \A i \in 1..b : 5 + i \in 1..(13 + b)
  OBVIOUS
<1>9. /\ v[1] = 1 /\ v[2] = 3 /\ v[3] = 1 /\ v[4] = 4 /\ v[5] = 23
      /\ \A i \in 1..b : v[5 + i] \in 1..23
      /\ v[6 + b] = 1 /\ v[7 + b] = 3 /\ v[8 + b] \in 6..16 /\ v[9 + b] = 3 /\ v[10 + b] \in 2..35
      /\ v[11 + b] = 3 /\ v[12 + b] = 3 /\ v[13 + b] = 1
  BY <1>7, <1>8, Zenon DEF QuerySizes
<1>10. n = 14 + b => v[14 + b] = 1
  <2>1. n = 14 + b => 14 + b \in 1..n
    OBVIOUS
  <2>2. QED
    BY <1>1, <1>2, <2>1, SizeOfOthers
<1>11. QuerySized(f[n])
  <2>1. QuerySums(b, n, f, v)
    BY <1>1, <1>6, <1>9, <1>10, Zenon DEF QuerySums
  <2>2. QED
    BY <2>1, QuerySum, Zenon
<1>12. QED
  BY <1>6, <1>11

\* A reply fits into the buffer of send_msg, and is just long enough to be read.
LEMMA ReplySize ==
    ASSUME NEW b \in {0, 2, 4}, NEW len \in Nat, NEW D, ReplySizes(D, b, len)
    PROVE  Size(D) \in 45..(100 + len)
<1> DEFINE n == 11 + b
           v == [i \in 1..n |-> SizeOf(D[i])]
<1>1. IsSeq(D) /\ Len(D) = n /\ \A i \in 1..n : SizeOf(D[i]) \in Nat
  BY SizeOfGood DEF ReplySizes
<1>2. \A i \in 1..n : v[i] = SizeOf(D[i])
  OBVIOUS
<1> HIDE DEF v
<1>3. \E f : f[0] = 0 /\ (\A i \in 1..n : f[i] = f[i - 1] + v[i]) /\ Size(D) = f[n]
  <2> HIDE DEF n
  <2>1. PICK f \in [0..n -> Nat] :
              f[0] = 0 /\ (\A i \in 1..n : f[i] = f[i - 1] + SizeOf(D[i])) /\ Size(D) = f[n]
    BY <1>1, SizeSums
  <2>2. QED
    BY <1>2, <2>1, Zenon
<1>4. PICK f : f[0] = 0 /\ (\A i \in 1..n : f[i] = f[i - 1] + v[i]) /\ Size(D) = f[n]
  BY <1>3
<1>5. /\ 1 \in 1..n /\ 2 \in 1..n /\ 3 \in 1..n /\ 4 \in 1..n /\ 5 \in 1..n /\ 6 \in 1..n
      /\ 7 \in 1..n /\ 8 + b \in 1..n /\ 9 + b \in 1..n /\ 10 + b \in 1..n /\ 11 + b \in 1..n
      /\ \A i \in 1..b : 7 + i \in 1..n
  OBVIOUS
<1>6. /\ v[1] = 1 /\ v[2] = 3 /\ v[3] = 3 /\ v[4] = 3 /\ v[5] = 1 /\ v[6] = 4 /\ v[7] = 23
      /\ \A i \in 1..b : v[7 + i] = IF i = 2 THEN 29 ELSE IF i = 4 THEN 3 ELSE 7
      /\ v[8 + b] = 1 /\ v[9 + b] = 3 /\ v[10 + b] \in (2 + len)..(3 + len) /\ v[11 + b] = 1
  <2>1. /\ v[1] = 1 /\ v[2] = 3 /\ v[3] = 3 /\ v[4] = 3 /\ v[5] = 1 /\ v[6] = 4 /\ v[7] = 23
    BY <1>2, <1>5, Zenon DEF ReplySizes
  <2>2. \A i \in 1..b : v[7 + i] = IF i = 2 THEN 29 ELSE IF i = 4 THEN 3 ELSE 7
    <3>1. ASSUME NEW i \in 1..b PROVE v[7 + i] = SizeOf(D[7 + i])
      BY <1>2, <1>5, Zenon
    <3>2. \A i \in 1..b : SizeOf(D[7 + i]) = IF i = 2 THEN 29 ELSE IF i = 4 THEN 3 ELSE 7
      BY Zenon DEF ReplySizes
    <3>3. QED
      BY <3>1, <3>2
  <2>3. v[8 + b] = 1 /\ v[9 + b] = 3 /\ v[10 + b] \in (2 + len)..(3 + len) /\ v[11 + b] = 1
    BY <1>2, <1>5, Zenon DEF ReplySizes
  <2>4. QED
    BY <2>1, <2>2, <2>3, Zenon
<1>7. f[n] \in 45..(100 + len)
  <2>1. ReplySums(b, len, f, v)
    BY <1>4, <1>6, Zenon DEF ReplySums
  <2>2. QED
    BY <2>1, ReplySum, Zenon
<1>8. QED
  BY <1>4, <1>7

-----------------------------------------------------------------------------
(* The invariant of the conversation.                                      *)

\* The body of the reply to a query of kind q.
BodyOf(q) == IF q = "Q_PG" THEN << >> ELSE IF q = "Q_FN" THEN R_NODES ELSE R_NODES \o R_TOKEN

\* The datagram E is the first c elements of a query of kind q: all of them,
\* unless it was cut off.  When a crawler wrote it, its tok is the one that
\* goes with its kind and its id is that of the node it was sent to, masked.
Asked(q, sid, args, E, c) ==
    /\ q \in Q_ANY /\ IsArgs(q, args) /\ talk.tok.len \in 0..MAXLEN_TOK
    /\ Written(E, Query(sid, args, ForeignName(q), talk.tok), c)
    /\ \/ talk.meant = "none" /\ talk.foreign /\ c < 13 + Len(args)
       \/ talk.meant = q /\ c = 13 + Len(args) /\ ~ BadSize
    /\ ~ talk.foreign =>
          /\ q # "Q_AP" /\ TokKind(talk.tok) = ReplyTok(Len(BodyOf(q)))
          /\ \E nid \in Nih : talk.nid = Hash(nid) /\ sid = write_sid(nid)

\* The parser has read a part of it, or has stopped at an announcement or at
\* the place where it was cut off.
QueryRead(q, sid, args, E, c) ==
    \/ \E p \in 0..c : /\ Unread(E, p) /\ QueryAt(q, Len(args), p)
                       /\ Stored(Hash(sid), talk.tok, 5, 10 + Len(args), p)
    \/ krpc.status = "error" /\ q = "Q_AP" /\ talk.meant # "none"
    \/ krpc.status \in {"error", "abort"} /\ talk.meant = "none"

QueryLeg == \E q, sid, args, E, c : Asked(q, sid, args, E, c) /\ QueryRead(q, sid, args, E, c)

\* The datagram is the reply to a query with the id nid.
Answered(nid, body) ==
    /\ IsBody(body) /\ talk.tok.len \in 0..MAXLEN_TOK
    /\ size \in MIN_MSG_LEN..(100 + talk.tok.len)
    /\ talk.meant = ReplyKind(Len(body))
    /\ ~ talk.foreign =>
          TokKind(talk.tok) = ReplyTok(Len(body)) /\ talk.nid = Hash(write_sid(nid))

\* A crawler that asked has read a part of it.
ReplyRead(nid, body) ==
    IF talk.foreign THEN krpc.status = "reading"
    ELSE \E p \in 0..(11 + Len(body)) :
            /\ Unread(Reply(nid, body, talk.tok), p) /\ ReplyAt(Len(body), p)
            /\ Stored(Hash(write_sid(nid)), talk.tok, 7, 10 + Len(body), p)

ReplyLeg == \E nid, body : Answered(nid, body) /\ ReplyRead(nid, body)

TalkTyped ==
    \E nid, tok, meant : \E foreign \in BOOLEAN :
        talk = [nid |-> nid, tok |-> tok, meant |-> meant, foreign |-> foreign]

\* The inductive invariant of the conversation.
WInv ==
    /\ KInv /\ DOMAIN at = {"id", "t"} /\ TalkTyped
    /\ \/ leg = "idle"
       \/ leg = "dropped" /\ talk.meant = "none"
       \/ leg = "query" /\ QueryLeg
       \/ leg = "reply" /\ ReplyLeg

-----------------------------------------------------------------------------
(* What is written.                                                        *)

LEMMA WrittenWhole ==
    ASSUME NEW D, IsSeq(D)
    PROVE  Written(D, D, Len(D)) /\ Written(Append(D, Nul), D, Len(D))
<1>1. PICK T : D \in Seq(T)
  BY DEF IsSeq
<1>2. Len(D) \in Nat
  BY <1>1
<1>3. Written(D, D, Len(D))
  BY <1>1, <1>2 DEF Written, IsSeq
<1>4. Append(D, Nul) \in Seq(T \cup {Nul})
  BY <1>1
<1>5. /\ Len(Append(D, Nul)) = Len(D) + 1 /\ Append(D, Nul)[Len(D) + 1] = Nul
      /\ \A i \in 1..Len(D) : Append(D, Nul)[i] = D[i]
  BY <1>1
<1>6. Written(Append(D, Nul), D, Len(D))
  BY <1>2, <1>4, <1>5 DEF Written, IsSeq
<1>7. QED
  BY <1>3, <1>6

LEMMA WrittenCut ==
    ASSUME NEW D, IsSeq(D), NEW k \in 1..(Len(D) - 1), NEW junk \in {<< >>, <<Nul>>}
    PROVE  Written(SubSeq(D, 1, k) \o junk, D, k)
<1>1. PICK T : D \in Seq(T)
  BY DEF IsSeq
<1>2. Len(D) \in Nat /\ k \in 0..Len(D) /\ k \in Nat
  BY <1>1
<1>3. /\ SubSeq(D, 1, k) \in Seq(T) /\ Len(SubSeq(D, 1, k)) = k
      /\ \A i \in 1..k : SubSeq(D, 1, k)[i] = D[i]
  BY <1>1, <1>2
<1> DEFINE E == SubSeq(D, 1, k)
<1> HIDE DEF E
<1>4. E \in Seq(T) /\ Len(E) = k /\ \A i \in 1..k : E[i] = D[i]
  BY <1>3 DEF E
<1>5. CASE junk = << >>
  <2>1. E \o junk \in Seq(T) /\ Len(E \o junk) = k /\ \A i \in 1..k : (E \o junk)[i] = D[i]
    BY <1>2, <1>4, <1>5
  <2>2. QED
    BY <1>2, <2>1 DEF Written, IsSeq, E
<1>6. CASE junk = <<Nul>>
  <2>1. /\ E \o junk \in Seq(T \cup {Nul}) /\ Len(E \o junk) = k + 1
        /\ (E \o junk)[k + 1] = Nul /\ \A i \in 1..k : (E \o junk)[i] = D[i]
    BY <1>2, <1>4, <1>6
  <2>2. QED
    BY <1>2, <2>1 DEF Written, IsSeq, E
<1>7. QED
  BY <1>5, <1>6

LEMMA QueryIsSeq ==
    ASSUME NEW q \in Q_ANY, NEW args, IsArgs(q, args), NEW sid, NEW method, NEW tok
    PROVE  IsSeq(Query(sid, args, method, tok)) /\ Len(Query(sid, args, method, tok)) = 13 + Len(args)
<1>1. IsSeq(args)
  BY DEF IsArgs
<1>2. QueryElems(Query(sid, args, method, tok), sid, args, method, tok, Len(args))
  BY <1>1, QueryElements
<1>3. QED
  BY <1>2 DEF QueryElems

LEMMA ReplyIsSeq ==
    ASSUME NEW body, IsBody(body), NEW nid, NEW tok
    PROVE  IsSeq(Reply(nid, body, tok)) /\ Len(Reply(nid, body, tok)) = 11 + Len(body)
<1>1. IsSeq(body)
  BY DEF IsBody
<1>2. ReplyElems(Reply(nid, body, tok), nid, body, tok, Len(body))
  BY <1>1, ReplyElements
<1>3. QED
  BY <1>2 DEF ReplyElems

\* The arguments that the crawler and the other nodes write.
LEMMA WrittenArgs ==
    ASSUME NEW ih
    PROVE  /\ IsArgs("Q_PG", << >>)
           /\ IsArgs("Q_FN", Pair(S("target", 6), Hash(ih)))
           /\ IsArgs("Q_GP", Pair(S("info_hash", 9), Hash(ih)))
           /\ \A q \in Q_ANY : IsArgs(q, ForeignArgs(q, ih))
<1> DEFINE ap == Pair(S("info_hash", 9), Hash(ih)) \o <<Elem(S("port", 4)), Int4>>
                    \o Pair(S("token", 5), OUR_TOKEN)
           fn == Pair(S("target", 6), Hash(ih)) \o <<Elem(S("port", 4)), Int4>>
<1>1. IsArgs("Q_PG", << >>)
  <2>1. << >> \in Seq({}) /\ Len(<< >>) = 0
    OBVIOUS
  <2>2. ~ (0 >= 2) /\ ~ (0 >= 4) /\ 0 # 6 /\ 0 \in {0}
    OBVIOUS
  <2>3. IsSeq(<< >>)
    BY <2>1 DEF IsSeq
  <2>4. QED
    BY <2>1, <2>2, <2>3, Zenon DEF IsArgs
<1>2. ASSUME NEW key PROVE IsSeq(Pair(key, Hash(ih)))
  <2>1. Pair(key, Hash(ih)) \in Seq({Elem(key), Elem(Hash(ih))})
    BY DEF Pair
  <2>2. QED
    BY <2>1 DEF IsSeq
<1>3. IsArgs("Q_FN", Pair(S("target", 6), Hash(ih)))
  BY <1>2 DEF IsArgs, Pair, ArgKey
<1>4. IsArgs("Q_GP", Pair(S("info_hash", 9), Hash(ih)))
  BY <1>2 DEF IsArgs, Pair, ArgKey
<1>5. IsArgs("Q_FN", fn)
  <2>1. IsSeq(fn)
    BY <1>2, IsSeqTuple, IsSeqConcat
  <2>2. QED
    BY <2>1 DEF IsArgs, Pair, ArgKey
<1>6. IsArgs("Q_AP", ap)
  <2>1. IsSeq(ap)
    BY <1>2, IsSeqTuple, IsSeqConcat DEF Pair
  <2>2. QED
    BY <2>1 DEF IsArgs, Pair, ArgKey
<1>7. /\ ForeignArgs("Q_PG", ih) = << >> /\ ForeignArgs("Q_FN", ih) = fn
      /\ ForeignArgs("Q_GP", ih) = Pair(S("info_hash", 9), Hash(ih))
      /\ ForeignArgs("Q_AP", ih) = ap
  BY DEF ForeignArgs
<1> HIDE DEF ap, fn
<1>8. ASSUME NEW q \in Q_ANY PROVE IsArgs(q, ForeignArgs(q, ih))
  <2>1. CASE q = "Q_PG"
    BY <1>1, <1>7, <2>1, Zenon
  <2>2. CASE q = "Q_FN"
    BY <1>5, <1>7, <2>2, Zenon
  <2>3. CASE q = "Q_GP"
    BY <1>4, <1>7, <2>3, Zenon
  <2>4. CASE q = "Q_AP"
    BY <1>6, <1>7, <2>4, Zenon
  <2>5. QED
    BY <2>1, <2>2, <2>3, <2>4 DEF Q_ANY
<1>9. QED
  BY <1>1, <1>3, <1>4, <1>8

-----------------------------------------------------------------------------
(* The steps of the conversation.                                          *)

LEMMA SendKInv ==
    ASSUME NEW E, Send(E), DOMAIN at = {"id", "t"}
    PROVE  KInv' /\ DOMAIN at' = {"id", "t"} /\ rest' = E /\ size' = Size(E) /\ Stage("START", {}, ANY)'
<1>1. KInv'
  BY RestartKInv DEF Send
<1>2. QED
  BY <1>1 DEF Send, Stage, NoHist, Cleared

\* Somebody sends E, a query of kind q or a part of one.
Asks(q, sid, args, tok, E, c, nid, meant, foreign) ==
    /\ q \in Q_ANY /\ IsArgs(q, args) /\ tok.len \in 0..MAXLEN_TOK
    /\ Written(E, Query(sid, args, ForeignName(q), tok), c)
    /\ leg' = "query"
    /\ foreign \in BOOLEAN
    /\ talk' = [nid |-> Hash(nid), tok |-> tok, meant |-> meant, foreign |-> foreign]
    /\ Send(E)
    /\ \/ meant = "none" /\ foreign /\ c < 13 + Len(args)
       \/ meant = q /\ c = 13 + Len(args)
    /\ foreign \/ ( /\ q # "Q_AP" /\ TokKind(tok) = ReplyTok(Len(BodyOf(q)))
                    /\ nid \in Nih /\ sid = write_sid(nid) )

LEMMA QuerySent ==
    ASSUME WInv, NEW q, NEW sid, NEW args, NEW tok, NEW E, NEW c, NEW nid, NEW meant, NEW foreign,
           Asks(q, sid, args, tok, E, c, nid, meant, foreign)
    PROVE  WInv'
<1> USE DEF Asks
<1> DEFINE D == Query(sid, args, ForeignName(q), tok)
           b == Len(args)
<1>1. KInv' /\ DOMAIN at' = {"id", "t"} /\ rest' = E /\ size' = Size(E) /\ Stage("START", {}, ANY)'
  BY SendKInv DEF WInv
<1>2. /\ talk'.tok = tok /\ talk'.meant = meant /\ talk'.foreign = foreign
      /\ talk'.nid = Hash(nid) /\ TalkTyped'
  BY DEF TalkTyped
<1>3. b \in {0, 2, 4, 6}
  BY DEF IsArgs
<1>4. c = 13 + b => ~ BadSize'
  <2>1. QuerySizes(D, b)
    BY QueryGood
  <2> HIDE DEF D, b
  <2>2. ASSUME c = 13 + b PROVE QuerySized(Size(E))
    BY <1>3, <2>1, <2>2, QuerySize DEF D
  <2>3. PICK n : n = Size(E) /\ size' = n
    BY <1>1
  <2>4. QuerySized(n) => ~ BadSize'
    BY <2>3 DEF QuerySized, BadSize, MIN_MSG_LEN, MAXLEN
  <2>5. QED
    BY <2>2, <2>3, <2>4, Zenon DEF b
<1>5. Asked(q, sid, args, E, c)'
  BY <1>2, <1>4 DEF Asked
<1>6. Unread(E, 0)'
  BY <1>1, AllUnread DEF Written
<1>7. 0 \in 0..c
  BY <1>3 DEF Written
<1>8. QueryAt(q, b, 0)' /\ Stored(Hash(sid), tok, 5, 10 + b, 0)'
  <2>1. QueryAt(q, b, 0)'
    BY <1>1 DEF QueryAt
  <2>2. ~ (0 >= 5) /\ ~ (0 >= 10 + b)
    BY <1>3
  <2>3. QED
    BY <1>1, <2>1, <2>2 DEF Stored
<1>9. QueryRead(q, sid, args, E, c)'
  BY <1>2, <1>6, <1>7, <1>8 DEF QueryRead
<1>10. QueryLeg'
  BY <1>5, <1>9 DEF QueryLeg
<1>11. QED
  BY <1>1, <1>2, <1>10 DEF WInv

LEMMA BodyLengths ==
    /\ Len(BodyOf("Q_PG")) = 0 /\ Len(BodyOf("Q_FN")) = 2 /\ Len(BodyOf("Q_GP")) = 4
    /\ \A q \in Q_ANY : IsBody(BodyOf(q))
<1>1. R_NODES \in Seq({Elem(S("nodes", 5)), Elem(S("pnode", PNODE_LEN))}) /\ Len(R_NODES) = 2
      /\ R_NODES[1] = Elem(S("nodes", 5)) /\ R_NODES[2] = Elem(S("pnode", PNODE_LEN))
  BY DEF R_NODES, Pair
<1>2. R_TOKEN \in Seq({Elem(S("token", 5)), Elem(OUR_TOKEN)}) /\ Len(R_TOKEN) = 2
      /\ R_TOKEN[1] = Elem(S("token", 5)) /\ R_TOKEN[2] = Elem(OUR_TOKEN)
  BY DEF R_TOKEN, Pair
<1> DEFINE both == R_NODES \o R_TOKEN
<1>3. /\ Len(both) = 4 /\ both[1] = Elem(S("nodes", 5)) /\ both[2] = Elem(S("pnode", PNODE_LEN))
      /\ both[3] = Elem(S("token", 5)) /\ both[4] = Elem(OUR_TOKEN)
  BY DEF R_NODES, R_TOKEN, Pair
<1>4. IsSeq(R_NODES) /\ IsSeq(both)
  <2>1. IsSeq(R_NODES) /\ IsSeq(R_TOKEN)
    BY <1>1, <1>2 DEF IsSeq
  <2>2. QED
    BY <2>1, IsSeqConcat
<1>5. IsSeq(<< >>) /\ Len(<< >>) = 0
  <2>1. << >> \in Seq({}) /\ Len(<< >>) = 0
    OBVIOUS
  <2>2. QED
    BY <2>1 DEF IsSeq
<1> HIDE DEF both
<1>6. IsBody(R_NODES)
  BY <1>1, <1>4 DEF IsBody
<1>7. IsBody(both)
  BY <1>3, <1>4 DEF IsBody
<1>8. IsBody(<< >>)
  <2>1. ~ (0 >= 2) /\ 0 # 4 /\ 0 \in {0, 2, 4}
    OBVIOUS
  <2>2. QED
    BY <1>5, <2>1, Zenon DEF IsBody
<1>9. QED
  BY <1>1, <1>3, <1>5, <1>6, <1>7, <1>8 DEF BodyOf, both

LEMMA AskOneWInv == ASSUME WInv, AskOne PROVE WInv'
<1>1. ASSUME NEW nid \in Nih, AskPing(nid) PROVE WInv'
  <2> DEFINE D == Query(write_sid(nid), << >>, ForeignName("Q_PG"), OUR_TOK_PG)
  <2>1. IsArgs("Q_PG", << >>) /\ "Q_PG" \in Q_ANY /\ Len(<< >>) = 0
    BY WrittenArgs DEF Q_ANY
  <2>2. Written(D, D, 13)
    BY <2>1, QueryIsSeq, WrittenWhole
  <2>3. /\ OUR_TOK_PG.len \in 0..MAXLEN_TOK
        /\ TokKind(OUR_TOK_PG) = ReplyTok(Len(BodyOf("Q_PG")))
    BY BodyLengths DEF OUR_TOK_PG, Bytes, MAXLEN_TOK, TokKind, ReplyTok
  <2>4. /\ leg' = "query" /\ Send(D)
        /\ talk' = [nid |-> Hash(nid), tok |-> OUR_TOK_PG, meant |-> "Q_PG", foreign |-> FALSE]
    BY <1>1 DEF AskPing, Ask, q_pg, ForeignName
  <2>5. Asks("Q_PG", write_sid(nid), << >>, OUR_TOK_PG, D, 13, nid, "Q_PG", FALSE)
    <3> HIDE DEF D
    <3>1. "Q_PG" # "Q_AP" /\ FALSE \in BOOLEAN /\ 13 = 13 + 0
      OBVIOUS
    <3>2. QED
      BY <2>1, <2>2, <2>3, <2>4, <3>1, Zenon DEF D, Asks
  <2>6. QED
    BY <2>5, QuerySent, Zenon
<1>2. ASSUME NEW nid \in Nih, AskFindNode(nid) PROVE WInv'
  <2>1. PICK target \in Nih : Ask(nid, q_fn(nid, target), "Q_FN", OUR_TOK_FN)
    BY <1>2 DEF AskFindNode
  <2> DEFINE args == Pair(S("target", 6), Hash(target))
             D == Query(write_sid(nid), args, ForeignName("Q_FN"), OUR_TOK_FN)
  <2>2. IsArgs("Q_FN", args) /\ "Q_FN" \in Q_ANY /\ Len(args) = 2
    BY WrittenArgs DEF Q_ANY, Pair
  <2>3. Written(D, D, 13 + Len(args))
    BY <2>2, QueryIsSeq, WrittenWhole
  <2>4. /\ OUR_TOK_FN.len \in 0..MAXLEN_TOK
        /\ TokKind(OUR_TOK_FN) = ReplyTok(Len(BodyOf("Q_FN")))
    BY BodyLengths DEF OUR_TOK_FN, Bytes, MAXLEN_TOK, TokKind, ReplyTok
  <2>5. /\ leg' = "query" /\ Send(D)
        /\ talk' = [nid |-> Hash(nid), tok |-> OUR_TOK_FN, meant |-> "Q_FN", foreign |-> FALSE]
    BY <2>1 DEF Ask, q_fn, ForeignName
  <2>6. Asks("Q_FN", write_sid(nid), args, OUR_TOK_FN, D, 13 + Len(args), nid, "Q_FN", FALSE)
    <3> HIDE DEF args
    <3>1. "Q_FN" # "Q_AP" /\ FALSE \in BOOLEAN
      OBVIOUS
    <3>2. QED
      BY <2>2, <2>3, <2>4, <2>5, <3>1, Zenon DEF Asks
  <2>7. QED
    BY <2>6, QuerySent, Zenon
<1>3. ASSUME NEW nid \in Nih, AskGetPeers(nid) PROVE WInv'
  <2>1. PICK tok \in GpTok, ih \in Nih : Ask(nid, q_gp(nid, ih, tok), "Q_GP", OUR_TOK_GP(tok))
    BY <1>3 DEF AskGetPeers
  <2> DEFINE args == Pair(S("info_hash", 9), Hash(ih))
             D == Query(write_sid(nid), args, ForeignName("Q_GP"), OUR_TOK_GP(tok))
  <2>2. IsArgs("Q_GP", args) /\ "Q_GP" \in Q_ANY /\ Len(args) = 2
    BY WrittenArgs DEF Q_ANY, Pair
  <2>3. Written(Append(D, Nul), D, 13 + Len(args))
    BY <2>2, QueryIsSeq, WrittenWhole
  <2>4. /\ OUR_TOK_GP(tok).len \in 0..MAXLEN_TOK
        /\ TokKind(OUR_TOK_GP(tok)) = ReplyTok(Len(BodyOf("Q_GP")))
    BY BodyLengths DEF OUR_TOK_GP, Bytes, MAXLEN_TOK, TokKind, ReplyTok
  <2>5. /\ leg' = "query" /\ Send(Append(D, Nul))
        /\ talk' = [nid |-> Hash(nid), tok |-> OUR_TOK_GP(tok), meant |-> "Q_GP", foreign |-> FALSE]
    BY <2>1 DEF Ask, q_gp, ForeignName
  <2>6. Asks("Q_GP", write_sid(nid), args, OUR_TOK_GP(tok), Append(D, Nul), 13 + Len(args), nid,
             "Q_GP", FALSE)
    <3> HIDE DEF args
    <3>1. "Q_GP" # "Q_AP" /\ FALSE \in BOOLEAN
      OBVIOUS
    <3>2. QED
      BY <2>2, <2>3, <2>4, <2>5, <3>1, Zenon DEF Asks
  <2>7. QED
    BY <2>6, QuerySent, Zenon
<1>4. ASSUME NEW query \in ForeignQuery, NEW nid \in Nih, NEW len \in ForeignTok,
             AskForeign(query, nid, len)
      PROVE  WInv'
  <2> DEFINE tok == Bytes("foreign", len, 0)
             args == ForeignArgs(query, nid)
             D == Query(nid, args, ForeignName(query), tok)
  <2>1. query \in Q_ANY /\ len \in 0..MAXLEN_TOK
    BY WireAssumption
  <2>2. IsArgs(query, args) /\ tok.len \in 0..MAXLEN_TOK
    BY <2>1, WrittenArgs DEF Bytes
  <2>3. Written(D, D, 13 + Len(args))
    BY <2>1, <2>2, QueryIsSeq, WrittenWhole
  <2>4. /\ leg' = "query" /\ Send(D)
        /\ talk' = [nid |-> Hash(nid), tok |-> tok, meant |-> query, foreign |-> TRUE]
    BY <1>4 DEF AskForeign
  <2>5. Asks(query, nid, args, tok, D, 13 + Len(args), nid, query, TRUE)
    <3> HIDE DEF args, tok
    <3>1. TRUE \in BOOLEAN
      OBVIOUS
    <3>2. QED
      BY <2>1, <2>2, <2>3, <2>4, <3>1, Zenon DEF Asks
  <2>6. QED
    BY <2>5, QuerySent, Zenon
<1>5. ASSUME NEW nid \in Nih, NEW junk \in {<< >>, <<Nul>>},
             NEW k \in 1..(Len(q_pg(nid)) - 1), AskGarbled(nid, k, junk)
      PROVE  WInv'
  <2> DEFINE D == Query(write_sid(nid), << >>, ForeignName("Q_PG"), OUR_TOK_PG)
             E == SubSeq(D, 1, k) \o junk
  <2>1. IsArgs("Q_PG", << >>) /\ "Q_PG" \in Q_ANY /\ Len(<< >>) = 0
    BY WrittenArgs DEF Q_ANY
  <2>2. D = q_pg(nid)
    BY DEF q_pg, ForeignName
  <2>3. IsSeq(D) /\ Len(D) = 13
    <3>1. IsSeq(D) /\ Len(D) = 13 + Len(<< >>)
      BY <2>1, QueryIsSeq, Zenon
    <3> HIDE DEF D, E
    <3>2. QED
      BY <2>1, <3>1
  <2>4. Written(E, D, k) /\ k < 13 + Len(<< >>)
    <3> HIDE DEF D
    <3>1. Written(E, D, k)
      BY <2>2, <2>3, WrittenCut
    <3>2. QED
      BY <2>1, <2>2, <2>3, <3>1
  <2>5. OUR_TOK_PG.len \in 0..MAXLEN_TOK
    BY DEF OUR_TOK_PG, Bytes, MAXLEN_TOK
  <2>6. /\ leg' = "query" /\ Send(E)
        /\ talk' = [nid |-> Hash(nid), tok |-> OUR_TOK_PG, meant |-> "none", foreign |-> TRUE]
    BY <1>5, <2>2 DEF AskGarbled
  <2>7. Asks("Q_PG", write_sid(nid), << >>, OUR_TOK_PG, E, k, nid, "none", TRUE)
    <3> HIDE DEF E
    <3>1. TRUE \in BOOLEAN
      OBVIOUS
    <3>2. QED
      BY <2>1, <2>4, <2>5, <2>6, <3>1, Zenon DEF Asks
  <2>8. QED
    BY <2>7, QuerySent, Zenon
<1>6. QED
  BY <1>1, <1>2, <1>3, <1>4, <1>5 DEF AskOne

LEMMA ReadElemKInv == ASSUME KInv, NEW e, GoodElem(e), ReadElem(e) PROVE KInv'
<1>1. CASE e.el = "s" /\ ReadString(e.s)
  <2>1. e.s.len \in Nat
    BY <1>1 DEF GoodElem
  <2>2. QED
    BY <1>1, <2>1, OuterKeyKInv, InnerKeyKInv, OuterValKInv, InnerValKInv DEF ReadString
<1>2. CASE ReadBad
  BY <1>2, LeaveKInv DEF ReadBad
<1>3. QED
  BY <1>1, <1>2, ReadDictKInv, ReadEndKInv, ReadIntKInv DEF ReadElem

LEMMA ReadElemAt ==
    ASSUME NEW e, ReadElem(e), DOMAIN at = {"id", "t"}
    PROVE  DOMAIN at' = {"id", "t"}
  BY DEF ReadElem, Stores

\* The next element of a query.
LEMMA ReadQuery ==
    ASSUME WInv, Read, leg = "query"
    PROVE  KInv' /\ QueryLeg'
<1>1. PICK q, sid, args, E, c : Asked(q, sid, args, E, c) /\ QueryRead(q, sid, args, E, c)
  BY DEF WInv, QueryLeg
<1> DEFINE D == Query(sid, args, ForeignName(q), talk.tok)
           b == Len(args)
<1>2. /\ krpc.status = "reading" /\ rest # << >> /\ ReadElem(Head(rest)) /\ rest' = Tail(rest)
      /\ size' = size /\ leg' = leg /\ talk' = talk /\ KInv
  BY DEF Read, WInv
<1>3. PICK p \in 0..c : /\ Unread(E, p) /\ QueryAt(q, b, p)
                        /\ Stored(Hash(sid), talk.tok, 5, 10 + b, p)
  BY <1>1, <1>2 DEF QueryRead
<1>4. /\ q \in Q_ANY /\ IsArgs(q, args) /\ talk.tok.len \in 0..MAXLEN_TOK
      /\ Written(E, D, c) /\ c \in 0..(13 + b)
      /\ QuerySizes(D, b) /\ b \in {0, 2, 4, 6}
  <2>1. q \in Q_ANY /\ IsArgs(q, args) /\ talk.tok.len \in 0..MAXLEN_TOK /\ Written(E, D, c)
    BY <1>1 DEF Asked
  <2>2. QuerySizes(D, b)
    BY <2>1, QueryGood
  <2>3. c \in 0..Len(D) /\ Len(D) = 13 + b /\ b \in {0, 2, 4, 6}
    BY <2>1, <2>2 DEF Written, QuerySizes
  <2>4. QED
    BY <2>1, <2>2, <2>3
<1>5. p < Len(E) /\ ReadElem(E[p + 1]) /\ Unread(E, p + 1)'
  BY <1>2, <1>3, NextElement
<1>6. Asked(q, sid, args, E, c)'
  BY <1>1, <1>2 DEF Asked, BadSize
<1>7. CASE p < c
  <2>1. p + 1 \in 1..c /\ p \in 0..(12 + b) /\ p + 1 \in 0..c /\ p + 1 \in 1..(13 + b)
    BY <1>4, <1>7
  <2>2. E[p + 1] = D[p + 1] /\ GoodElem(D[p + 1])
    <3> HIDE DEF D
    <3>1. QED
      BY <1>4, <2>1 DEF Written, QuerySizes
  <2>3. KInv'
    BY <1>2, <1>5, <2>2, ReadElemKInv
  <2>4. \/ QueryAt(q, b, p + 1)' /\ Stored(Hash(sid), talk.tok, 5, 10 + b, p + 1)'
        \/ q = "Q_AP" /\ krpc'.status = "error"
    BY <1>2, <1>3, <1>4, <1>5, <2>1, <2>2, QueryStep
  <2>5. QueryRead(q, sid, args, E, c)'
    BY <1>2, <1>5, <2>1, <2>4 DEF QueryRead
  <2>6. QED
    BY <1>6, <2>3, <2>5 DEF QueryLeg
<1>8. CASE p = c
  <2>1. E[p + 1] = Nul
    <3>1. Len(E) \in {c, c + 1} /\ (Len(E) = c + 1 => E[c + 1] = Nul)
      BY <1>4 DEF Written
    <3>2. Len(E) = c + 1
      BY <1>4, <1>5, <1>8, <3>1
    <3>3. QED
      BY <1>8, <3>1, <3>2
  <2>2. KInv' /\ krpc'.status = "error"
    <3>1. ReadBad
      BY <1>5, <2>1, ElementCases
    <3>2. KInv'
      BY <1>2, <3>1, LeaveKInv DEF ReadBad
    <3>3. QED
      BY <1>2, <3>1, <3>2 DEF ReadBad, Leave, KInv, Types, Object
  <2>3. talk.meant = "none"
    <3>1. c # 13 + b
      BY <1>2, <1>3, <1>4, <1>8 DEF QueryAt, ArgsAt, Stage
    <3>2. QED
      BY <1>1, <3>1 DEF Asked
  <2>4. QueryRead(q, sid, args, E, c)'
    BY <1>2, <2>2, <2>3 DEF QueryRead
  <2>5. QED
    BY <1>6, <2>2, <2>4 DEF QueryLeg
<1>9. QED
  BY <1>4, <1>7, <1>8

\* The next element of a reply.
LEMMA ReadReply ==
    ASSUME WInv, Read, leg = "reply"
    PROVE  KInv' /\ ReplyLeg'
<1>1. PICK nid, body : Answered(nid, body) /\ ReplyRead(nid, body)
  BY DEF WInv, ReplyLeg
<1> DEFINE D == Reply(nid, body, talk.tok)
           b == Len(body)
<1>2. /\ krpc.status = "reading" /\ rest # << >> /\ ReadElem(Head(rest)) /\ rest' = Tail(rest)
      /\ size' = size /\ leg' = leg /\ talk' = talk /\ ~ talk.foreign /\ KInv
  BY DEF Read, Arriving, WInv
<1>3. PICK p \in 0..(11 + b) : /\ Unread(D, p) /\ ReplyAt(b, p)
                               /\ Stored(Hash(write_sid(nid)), talk.tok, 7, 10 + b, p)
  BY <1>1, <1>2 DEF ReplyRead
<1>4. /\ IsBody(body) /\ talk.tok.len \in 0..MAXLEN_TOK /\ TokKind(talk.tok) = ReplyTok(b)
      /\ ReplySizes(D, b, talk.tok.len) /\ Len(D) = 11 + b /\ b \in {0, 2, 4}
  <2>1. IsBody(body) /\ talk.tok.len \in 0..MAXLEN_TOK /\ TokKind(talk.tok) = ReplyTok(b)
    BY <1>1, <1>2 DEF Answered
  <2>2. ReplySizes(D, b, talk.tok.len)
    BY <2>1, ReplyGood
  <2>3. QED
    BY <2>1, <2>2 DEF ReplySizes
<1>5. p < Len(D) /\ ReadElem(D[p + 1]) /\ Unread(D, p + 1)'
  BY <1>2, <1>3, NextElement
<1>6. p \in 0..(10 + b) /\ p + 1 \in 0..(11 + b) /\ p + 1 \in 1..(11 + b)
  BY <1>4, <1>5
<1>7. KInv'
  <2> HIDE DEF D
  <2>1. GoodElem(D[p + 1])
    BY <1>4, <1>6 DEF ReplySizes
  <2>2. QED
    BY <1>2, <1>5, <2>1, ReadElemKInv
<1>8. ReplyAt(b, p + 1)' /\ Stored(Hash(write_sid(nid)), talk.tok, 7, 10 + b, p + 1)'
  BY <1>2, <1>3, <1>4, <1>5, <1>6, ReplyStep
<1>9. Answered(nid, body)'
  BY <1>1, <1>2 DEF Answered
<1>10. ReplyRead(nid, body)'
  BY <1>2, <1>5, <1>6, <1>8 DEF ReplyRead
<1>11. QED
  BY <1>7, <1>9, <1>10 DEF ReplyLeg

\* A masked id, masked again, is the id.
LEMMA MaskTwice == ASSUME NEW nid \in Nih PROVE write_sid(write_sid(nid)) = nid
<1> DEFINE once == write_sid(nid)
           twice == write_sid(once)
<1>1. \A i \in 1..5 : once[i] = (nid[i] \ SID_MASK[i]) \cup (SID_MASK[i] \ nid[i])
  BY DEF write_sid
<1>2. \A i \in 1..5 : twice[i] = (once[i] \ SID_MASK[i]) \cup (SID_MASK[i] \ once[i])
  BY DEF write_sid
<1>3. twice = [i \in 1..5 |-> twice[i]]
  BY DEF write_sid
<1> HIDE DEF once, twice
<1>4. ASSUME NEW i \in 1..5 PROVE twice[i] = nid[i]
  BY <1>1, <1>2
<1>5. nid = [i \in 1..5 |-> nid[i]]
  BY DEF Nih
<1>6. twice = nid
  BY <1>3, <1>4, <1>5
<1>7. QED
  BY <1>6 DEF once, twice

\* A query that was accepted was read to its end, and is of the kind meant.
LEMMA QueryOk ==
    ASSUME NEW q, NEW sid, NEW args, NEW E, NEW c,
           Asked(q, sid, args, E, c), QueryRead(q, sid, args, E, c), krpc.status = "ok"
    PROVE  /\ q \in {"Q_PG", "Q_FN", "Q_GP"} /\ krpc.method = q /\ talk.meant = q
           /\ at["id"] = Hash(sid) /\ at["t"] = talk.tok
<1> DEFINE b == Len(args)
<1>1. PICK p \in 0..c : QueryAt(q, b, p) /\ Stored(Hash(sid), talk.tok, 5, 10 + b, p)
  BY DEF QueryRead
<1>2. q \in Q_ANY /\ b \in {0, 2, 4, 6}
  BY DEF Asked, IsArgs
<1>3. p = 13 + b /\ krpc.method = q /\ q # "Q_AP"
  BY <1>1, <1>2 DEF QueryAt, ArgsAt, Stage
<1>4. talk.meant = q
  <2>1. c \in 0..Len(Query(sid, args, ForeignName(q), talk.tok))
    BY DEF Asked, Written
  <2>2. ~ (c < 13 + b)
    <3>1. IsArgs(q, args)
      BY DEF Asked
    <3>2. Len(Query(sid, args, ForeignName(q), talk.tok)) = 13 + b
      BY <1>2, <3>1, QueryIsSeq
    <3> HIDE DEF b
    <3>3. QED
      BY <1>1, <1>2, <1>3, <2>1, <3>2
  <2>3. QED
    BY <2>2 DEF Asked
<1>5. at["id"] = Hash(sid) /\ at["t"] = talk.tok
  <2>1. p >= 5 /\ p >= 10 + b
    BY <1>2, <1>3
  <2>2. QED
    BY <1>1, <2>1 DEF Stored
<1>6. QED
  BY <1>2, <1>3, <1>4, <1>5 DEF Q_ANY

LEMMA HandleQueryWInv == ASSUME WInv, HandleQuery PROVE WInv'
<1>1. PICK q, sid, args, E, c : Asked(q, sid, args, E, c) /\ QueryRead(q, sid, args, E, c)
  BY DEF WInv, HandleQuery, QueryLeg
<1>2. /\ q \in {"Q_PG", "Q_FN", "Q_GP"} /\ krpc.method = q /\ talk.meant = q
      /\ at["id"] = Hash(sid) /\ at["t"] = talk.tok
  BY <1>1, QueryOk DEF HandleQuery
<1> DEFINE body == BodyOf(q)
           D == Reply(sid, body, talk.tok)
<1>3. Answers(q) = D
  <2>1. at["id"].val = sid
    BY <1>2 DEF Hash, Bytes
  <2>2. QED
    BY <1>2, <2>1 DEF Answers, r_pg, r_fn, r_gp, BodyOf
<1>4. IsBody(body) /\ ReplyTo(q) = ReplyKind(Len(body)) /\ Len(body) \in {0, 2, 4}
  <2>1. IsBody(body)
    BY <1>2, BodyLengths DEF Q_ANY
  <2>2. CASE q = "Q_PG"
    BY <2>1, <2>2, BodyLengths DEF ReplyTo, ReplyKind
  <2>3. CASE q = "Q_FN"
    BY <2>1, <2>3, BodyLengths DEF ReplyTo, ReplyKind
  <2>4. CASE q = "Q_GP"
    BY <2>1, <2>4, BodyLengths DEF ReplyTo, ReplyKind
  <2>5. QED
    BY <1>2, <2>2, <2>3, <2>4
<1>5. /\ leg' = "reply" /\ Send(D) /\ talk' = [talk EXCEPT !.meant = ReplyTo(q)]
  BY <1>2, <1>3 DEF HandleQuery
<1> HIDE DEF body
<1>6. KInv' /\ DOMAIN at' = {"id", "t"} /\ rest' = D /\ size' = Size(D) /\ Stage("START", {}, ANY)'
  BY <1>5, SendKInv DEF WInv
<1>7. /\ TalkTyped' /\ talk'.meant = ReplyTo(q) /\ talk'.tok = talk.tok
      /\ talk'.nid = talk.nid /\ talk'.foreign = talk.foreign
  <2> DEFINE meant == ReplyTo(q)
  <2> HIDE DEF meant
  <2>1. PICK nid, tok, old : \E foreign \in BOOLEAN :
            talk = [nid |-> nid, tok |-> tok, meant |-> old, foreign |-> foreign]
    BY DEF WInv, TalkTyped
  <2>2. PICK foreign \in BOOLEAN :
            talk = [nid |-> nid, tok |-> tok, meant |-> old, foreign |-> foreign]
    BY <2>1
  <2>3. talk' = [nid |-> nid, tok |-> tok, meant |-> meant, foreign |-> foreign]
    BY <1>5, <2>2 DEF meant
  <2>4. TalkTyped'
    BY <2>3 DEF TalkTyped
  <2>5. QED
    BY <2>2, <2>3, <2>4 DEF meant
<1>8. talk.tok.len \in 0..MAXLEN_TOK
  BY <1>1 DEF Asked
<1>9. Size(D) \in MIN_MSG_LEN..(100 + talk.tok.len)
  <2>1. ReplySizes(D, Len(body), talk.tok.len)
    BY <1>4, <1>8, ReplyGood
  <2>2. talk.tok.len \in Nat
    BY <1>8 DEF MAXLEN_TOK
  <2> HIDE DEF D
  <2>3. Size(D) \in 45..(100 + talk.tok.len)
    BY <1>4, <2>1, <2>2, ReplySize
  <2>4. QED
    BY <2>3 DEF MIN_MSG_LEN
<1>10. ~ talk.foreign => TokKind(talk.tok) = ReplyTok(Len(body)) /\ talk.nid = Hash(write_sid(sid))
  BY <1>1, MaskTwice DEF Asked, body
<1>11. Answered(sid, body)'
  BY <1>4, <1>6, <1>7, <1>8, <1>9, <1>10 DEF Answered
<1>12. Unread(D, 0)'
  <2>1. IsSeq(D)
    BY <1>4, ReplyIsSeq
  <2>2. PICK copy : copy = D
    OBVIOUS
  <2>3. Unread(copy, 0)'
    BY <1>6, <2>1, <2>2, AllUnread
  <2>4. copy = D'
    BY <1>7, <2>2
  <2>5. QED
    BY <2>3, <2>4
<1>13. ReplyAt(Len(body), 0)' /\ Stored(Hash(write_sid(sid)), talk.tok, 7, 10 + Len(body), 0)'
  <2>1. ReplyAt(Len(body), 0)'
    BY <1>6 DEF ReplyAt
  <2>2. ~ (0 >= 7) /\ ~ (0 >= 10 + Len(body))
    BY <1>4
  <2>3. QED
    BY <1>6, <2>1, <2>2 DEF Stored
<1>14. ReplyRead(sid, body)'
  <2>1. krpc'.status = "reading"
    BY <1>6 DEF Stage
  <2>2. 0 \in 0..(11 + Len(body))
    BY <1>4
  <2>3. QED
    BY <1>7, <1>12, <1>13, <2>1, <2>2 DEF ReplyRead
<1>15. QED
  BY <1>5, <1>6, <1>7, <1>11, <1>14 DEF WInv, ReplyLeg

\* Only a query that was cut off may have a size that is refused, or end before
\* it was read.
LEMMA DropWInv == ASSUME WInv, Drop PROVE WInv'
<1>1. CASE leg = "query"
  <2>1. talk.meant = "none"
    BY <1>1 DEF WInv, QueryLeg, Asked, Drop
  <2>2. KInv' /\ DOMAIN at' = {"id", "t"} /\ TalkTyped' /\ leg' = "dropped" /\ talk' = talk
    <3>1. leg' = "dropped" /\ at' = at /\ talk' = talk /\ UNCHANGED vars
      BY DEF Drop
    <3>2. KInv /\ DOMAIN at = {"id", "t"} /\ TalkTyped
      BY DEF WInv
    <3>3. KInv'
      BY <3>1, <3>2, StutterKeepsKInv
    <3>4. TalkTyped'
      BY <3>1, <3>2 DEF TalkTyped
    <3>5. QED
      BY <3>1, <3>2, <3>3, <3>4
  <2>3. QED
    BY <2>1, <2>2 DEF WInv
<1>2. CASE leg = "reply"
  <2>1. PICK nid, body : Answered(nid, body)
    BY <1>2 DEF WInv, ReplyLeg
  <2>2. ~ BadSize
    <3>1. size \in 45..(100 + talk.tok.len) /\ talk.tok.len \in 0..32
      BY <2>1 DEF Answered, MIN_MSG_LEN, MAXLEN_TOK
    <3>2. ~ (size < 45 \/ size >= 1024)
      BY <3>1
    <3>3. QED
      BY <3>2 DEF BadSize, MIN_MSG_LEN, MAXLEN
  <2>3. QED
    BY <2>2 DEF Drop
<1>3. QED
  BY <1>1, <1>2 DEF Drop, Arriving

LEMMA ReadOverWInv == ASSUME WInv, ReadOver PROVE WInv'
<1>1. /\ KInv /\ Leave("abort") /\ Reading /\ rest = << >>
      /\ at' = at /\ rest' = rest /\ size' = size /\ leg' = leg /\ talk' = talk
  BY DEF WInv, ReadOver, DataEnds
<1>2. KInv' /\ krpc'.status = "abort"
  BY <1>1, LeaveKInv DEF Leave, KInv, Types, Object
<1>3. CASE leg = "query"
  <2>1. PICK q, sid, args, E, c : Asked(q, sid, args, E, c) /\ QueryRead(q, sid, args, E, c)
    BY <1>3 DEF WInv, QueryLeg
  <2> DEFINE b == Len(args)
  <2>2. PICK p \in 0..c : Unread(E, p) /\ QueryAt(q, b, p)
    BY <1>1, <2>1 DEF QueryRead, Reading
  <2>3. p = Len(E)
    BY <1>1, <2>2, NothingUnread
  <2>4. b \in {0, 2, 4, 6} /\ Len(E) \in {c, c + 1} /\ c \in Nat
    <3>1. b \in {0, 2, 4, 6} /\ Len(E) \in {c, c + 1}
      BY <2>1 DEF Asked, IsArgs, Written
    <3>2. c \in 0..Len(Query(sid, args, ForeignName(q), talk.tok))
      BY <2>1 DEF Asked, Written
    <3>3. Len(Query(sid, args, ForeignName(q), talk.tok)) = 13 + b
      BY <2>1, QueryIsSeq DEF Asked
    <3>4. QED
      BY <3>1, <3>2, <3>3
  <2>5. p = c /\ ~ (p = 13 + b)
    BY <1>1, <2>2, <2>3, <2>4 DEF QueryAt, ArgsAt, Stage, Reading
  <2>6. talk.meant = "none"
    BY <2>1, <2>5 DEF Asked
  <2>7. Asked(q, sid, args, E, c)' /\ QueryRead(q, sid, args, E, c)'
    BY <1>1, <1>2, <2>1, <2>6 DEF Asked, QueryRead, BadSize
  <2>8. QED
    BY <1>1, <1>2, <1>3, <2>7 DEF WInv, QueryLeg, TalkTyped
<1>4. CASE leg = "reply"
  <2>1. PICK nid, body : Answered(nid, body) /\ ReplyRead(nid, body)
    BY <1>4 DEF WInv, ReplyLeg
  <2> DEFINE b == Len(body)
             D == Reply(nid, body, talk.tok)
  <2>2. ~ talk.foreign
    BY <1>4 DEF ReadOver, Arriving
  <2>3. PICK p \in 0..(11 + b) : Unread(D, p) /\ ReplyAt(b, p)
    BY <2>1, <2>2 DEF ReplyRead
  <2>4. p = Len(D)
    BY <1>1, <2>3, NothingUnread
  <2>5. b \in {0, 2, 4} /\ Len(D) = 11 + b
    <3>1. IsBody(body)
      BY <2>1 DEF Answered
    <3>2. b \in {0, 2, 4}
      BY <3>1 DEF IsBody
    <3>3. QED
      BY <3>1, <3>2, ReplyIsSeq
  <2>6. krpc.status = "ok"
    <3> HIDE DEF D
    <3>1. QED
      BY <2>3, <2>4, <2>5 DEF ReplyAt, BodyAt, Stage
  <2>7. QED
    BY <1>1, <2>6 DEF Reading
<1>5. QED
  BY <1>3, <1>4 DEF ReadOver, Arriving

LEMMA InitWInv == ASSUME WireInit PROVE WInv
<1>1. KInv
  BY StartKInv DEF WireInit, Init
<1>2. TalkTyped /\ DOMAIN at = {"id", "t"} /\ leg = "idle"
  BY DEF WireInit, TalkTyped
<1>3. QED
  BY <1>1, <1>2 DEF WInv

LEMMA NextWInv == ASSUME WInv, [WireNext]_wireVars PROVE WInv'
<1>1. CASE AskAnything
  <2>1. KInv'
    BY <1>1, NextKInv DEF AskAnything, WInv
  <2>2. QED
    BY <1>1, <2>1 DEF AskAnything, WInv, talkVars, TalkTyped
<1>2. CASE Read
  <2>1. leg \in {"query", "reply"} /\ leg' = leg /\ talk' = talk
    BY <1>2 DEF Read, Arriving
  <2>2. KInv' /\ (leg = "query" => QueryLeg') /\ (leg = "reply" => ReplyLeg')
    BY <1>2, <2>1, ReadQuery, ReadReply
  <2>3. DOMAIN at' = {"id", "t"}
    BY <1>2, ReadElemAt DEF Read, WInv
  <2>4. QED
    BY <2>1, <2>2, <2>3 DEF WInv, TalkTyped
<1>3. CASE Finish
  <2>1. KInv' /\ DOMAIN at' = {"id", "t"}
    BY <1>3, SendKInv DEF Finish, WInv
  <2>2. QED
    BY <1>3, <2>1 DEF Finish, WInv, TalkTyped
<1>4. CASE UNCHANGED wireVars
  <2> USE <1>4 DEF wireVars, vars, talkVars
  <2>1. KInv'
    BY DEF WInv, KInv, Types, SeenHasValue, RepliesLeft, Sides, HandlerFields, MethodAmongKinds,
           Awaits, Reading
  <2>2. QueryLeg <=> QueryLeg'
    BY DEF QueryLeg, Asked, QueryRead, BadSize, Unread, QueryAt, ArgsAt, Stage, Stored
  <2>3. ReplyLeg <=> ReplyLeg'
    BY DEF ReplyLeg, Answered, ReplyRead, Unread, ReplyAt, BodyAt, Stage, Stored
  <2>4. QED
    BY <2>1, <2>2, <2>3 DEF WInv, TalkTyped
<1>5. QED
  BY <1>1, <1>2, <1>3, <1>4, AskOneWInv, DropWInv, ReadOverWInv, HandleQueryWInv DEF WireNext

-----------------------------------------------------------------------------
LEMMA KInvImplies == ASSUME KInv PROVE TypeOK /\ HandlerFields /\ MethodAmongKinds /\ WhatAborts
<1>1. TypeOK
  BY DEF KInv, Types, TypeOK, XDHist, Object
<1>2. WhatAborts
  BY AbortFacts DEF WhatAborts
<1>3. QED
  BY <1>1, <1>2 DEF KInv

LEMMA UnderstoodHolds == ASSUME WInv PROVE Understood
<1> SUFFICES ASSUME talk.meant # "none"
             PROVE  /\ leg # "dropped"
                    /\ (leg # "idle" /\ krpc.status # "reading") =>
                          /\ krpc.status # "abort"
                          /\ krpc.status = "ok" => krpc.method = talk.meant
                          /\ talk.meant # "Q_AP" => krpc.status = "ok"
  BY DEF Understood
<1>1. leg # "dropped"
  BY DEF WInv
<1>2. ASSUME leg = "query", krpc.status # "reading"
      PROVE  /\ krpc.status # "abort" /\ (krpc.status = "ok" => krpc.method = talk.meant)
             /\ talk.meant # "Q_AP" => krpc.status = "ok"
  <2>1. PICK q, sid, args, E, c : Asked(q, sid, args, E, c) /\ QueryRead(q, sid, args, E, c)
    BY <1>2 DEF WInv, QueryLeg
  <2>2. krpc.status = "ok" \/ (krpc.status = "error" /\ q = "Q_AP")
    BY <1>2, <2>1 DEF QueryRead, QueryAt, ArgsAt, Stage
  <2>3. talk.meant = q
    BY <2>1 DEF Asked
  <2>4. krpc.status = "ok" => krpc.method = q
    BY <2>1, QueryOk
  <2>5. QED
    BY <2>2, <2>3, <2>4
<1>3. ASSUME leg = "reply", krpc.status # "reading"
      PROVE  krpc.status = "ok" /\ krpc.method = talk.meant
  <2>1. PICK nid, body : Answered(nid, body) /\ ReplyRead(nid, body)
    BY <1>3 DEF WInv, ReplyLeg
  <2>2. krpc.status = "ok" /\ krpc.method = ReplyKind(Len(body))
    BY <1>3, <2>1 DEF ReplyRead, ReplyAt, BodyAt, Stage
  <2>3. QED
    BY <2>1, <2>2 DEF Answered
<1>4. leg \in {"idle", "dropped", "query", "reply"}
  BY DEF WInv
<1>5. QED
  BY <1>1, <1>2, <1>3, <1>4

LEMMA AttributableHolds == ASSUME WInv PROVE Attributable
<1> SUFFICES ASSUME leg = "reply", ~ talk.foreign, krpc.status = "ok"
             PROVE  at["id"] = talk.nid /\ at["t"] = talk.tok
  BY DEF Attributable
<1>1. PICK nid, body : Answered(nid, body) /\ ReplyRead(nid, body)
  BY DEF WInv, ReplyLeg
<1> DEFINE b == Len(body)
<1>2. PICK p \in 0..(11 + b) :
         ReplyAt(b, p) /\ Stored(Hash(write_sid(nid)), talk.tok, 7, 10 + b, p)
  BY <1>1 DEF ReplyRead
<1>3. b \in {0, 2, 4}
  BY <1>1 DEF Answered, IsBody
<1>4. p = 11 + b
  BY <1>2 DEF ReplyAt, BodyAt, Stage
<1>5. p >= 7 /\ p >= 10 + b
  BY <1>3, <1>4
<1>6. QED
  BY <1>1, <1>2, <1>5 DEF Stored, Answered

LEMMA RepliesFitHolds == ASSUME WInv PROVE RepliesFit
<1>1. ASSUME leg = "reply"
      PROVE  size <= 100 + talk.tok.len /\ size < MSG_SEND_LEN /\ size >= MIN_MSG_LEN
  <2>1. PICK nid, body : Answered(nid, body)
    BY <1>1 DEF WInv, ReplyLeg
  <2>2. size \in MIN_MSG_LEN..(100 + talk.tok.len) /\ talk.tok.len \in 0..MAXLEN_TOK
    BY <2>1 DEF Answered
  <2>3. QED
    BY <2>2 DEF MIN_MSG_LEN, MAXLEN_TOK, MSG_SEND_LEN
<1>2. QED
  BY <1>1 DEF RepliesFit

\* Whatever comes, WInv holds.
THEOREM WireInvariant == WireSpec => []WInv
  BY InitWInv, NextWInv, PTL DEF WireSpec

\* The parser's variables have their types, whoever writes and however many
\* strings there are: the nodes and peers it keeps never exceed what a KRPC
\* object has room for.
THEOREM ParserTypeCorrect == WireSpec => []TypeOK
  BY WireInvariant, KInvImplies, PTL DEF WInv

\* A message that xdecode and validate accept has every field that its handler
\* follows a pointer to, provided the values of its string keys were strings.
THEOREM HandlersHaveFields == WireSpec => []HandlerFields
  BY WireInvariant, KInvImplies, PTL DEF WInv

\* The kind that validate picks by the keys seen is one that xdecode had not
\* ruled out.
THEOREM VerdictAmongKinds == WireSpec => []MethodAmongKinds
  BY WireInvariant, KInvImplies, PTL DEF WInv

\* validate aborts only on a message without any key that tells queries from
\* replies, and on an announcement that gave no token string.
THEOREM AbortsAreNamed == WireSpec => []WhatAborts
  BY WireInvariant, KInvImplies, PTL DEF WInv

\* What the writers of msg.cpp write, the parser reads as what was meant, with
\* any tok and with any ids.
THEOREM WritersUnderstood == WireSpec => []Understood
  BY WireInvariant, UnderstoodHolds, PTL

\* The reply of another crawler carries the id and the tok of the query, so
\* that lookup_tok finds its cell: the mask of write_sid is taken off again.
THEOREM RepliesAttributable == WireSpec => []Attributable
  BY WireInvariant, AttributableHolds, PTL

\* Every reply fits into the buffer of send_msg and is long enough to be read.
THEOREM EveryReplyFits == WireSpec => []RepliesFit
  BY WireInvariant, RepliesFitHolds, PTL

=============================================================================
