------------------------------ MODULE BestHops ------------------------------
(***************************************************************************)
(* find_best_hops as a loop over the nodes of a reply, one step per node,   *)
(* so that its loop invariant can be checked against a reference: the best  *)
(* entries are those of smallest distance, earlier nodes first.             *)
(***************************************************************************)
EXTENDS NextHops

CONSTANTS Target,       \* the infohashes asked about
          Node,         \* the node ids that replies carry
          MaxNodes      \* bound on the nodes of a reply

ASSUME BestHopsAssumption ==
    Target \subseteq Nih /\ Node \subseteq Nih /\ MaxNodes \in Nat

VARIABLES ih,       \* the infohash of the call
          nodes,    \* krpc.nodes
          ix,       \* nodes scanned so far
          best,     \* best_ixes and best_dkads
          out       \* next_hop.pnodes of the last call

hopsVars == <<ih, nodes, ix, best, out>>

HopsInit ==
    /\ ih \in Target
    /\ nodes = << >> /\ ix = 0 /\ best = NoBest /\ out = << >>

Dkad(i) == dkad(ih, nodes[i])

\* extract_tok calls find_best_hops for a reply with at least one node.
Call(h, ns) ==
    /\ nodes = << >>
    /\ ns # << >>
    /\ ih' = h /\ nodes' = ns /\ ix' = 0 /\ best' = NoBest /\ out' = << >>

\* One iteration of the outer loop.
Scan ==
    /\ ix < Len(nodes)
    /\ ix' = ix + 1
    /\ best' = Place(best, ix + 1, Dkad(ix + 1))
    /\ UNCHANGED <<ih, nodes, out>>

\* The final loop, and the return.
Return ==
    /\ nodes # << >> /\ ix = Len(nodes) /\ out = << >>
    /\ out' = Pick(best, nodes)
    /\ UNCHANGED <<ih, nodes, ix, best>>

\* The caller is done with next_hop.
Done ==
    /\ out # << >>
    /\ nodes' = << >> /\ ix' = 0 /\ best' = NoBest /\ out' = << >>
    /\ UNCHANGED ih

HopsNext ==
    \/ \E h \in Target, ns \in BoundedSeq(Node, MaxNodes) : Call(h, ns)
    \/ Scan \/ Return \/ Done

HopsSpec == HopsInit /\ [][HopsNext]_hopsVars

-----------------------------------------------------------------------------
\* The scanned nodes that are near enough, and not so near as to be made up.
Plausible == {i \in 1..ix : BULLSHIT_DKAD < Dkad(i) /\ Dkad(i) < FAR}

\* The place of node i among the plausible ones: nearer first, then earlier.
Rank(i) ==
    1 + Cardinality({k \in Plausible :
            Dkad(k) < Dkad(i) \/ (Dkad(k) = Dkad(i) /\ k < i)})

\* The loop invariant of the insertion with displacement: after every node,
\* the plausible nodes seen so far stand at their ranks, and the entries that
\* they leave over are untouched.
BestIsSorted ==
    /\ \A i \in Plausible : Rank(i) <= MAX_GP_PNODES =>
           best[Rank(i)] = [ix |-> i, dkad |-> Dkad(i)]
    /\ \A j \in 1..MAX_GP_PNODES : j > Cardinality(Plausible) => best[j] = NoBest[j]

\* The nodes to pursue are the plausible ones in order, and after them only
\* repetitions of the reply's first node: no other implausible node is asked.
FillerIsFirst ==
    out # << >> =>
        /\ Len(out) <= Len(nodes)
        /\ \A j \in DOMAIN out :
              IF j <= Cardinality(Plausible)
              THEN \E i \in Plausible : Rank(i) = j /\ out[j] = nodes[i]
              ELSE out[j] = nodes[1]

\* A node that agrees with the infohash in more leading bytes is nearer, and
\* the infohash itself is nearest (with, perhaps, ids that differ in the last
\* byte only: distance 0 does not mean equal).
NearerByBytes ==
    \A i, j \in DOMAIN nodes :
        LET di == Differ(ih, nodes[i])
            dj == Differ(ih, nodes[j])
        IN  /\ di = {} => Dkad(i) <= Dkad(j)
            /\ (di # {} /\ dj # {} /\ Min(di) > Min(dj)) => Dkad(i) < Dkad(j)

=============================================================================
