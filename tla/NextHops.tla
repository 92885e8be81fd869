------------------------------ MODULE NextHops ------------------------------
(***************************************************************************)
(* dkad of cht/util.cpp and find_best_hops of cht/gpmap.cpp: the distance   *)
(* of two hashes, and the choice of the nodes of a reply to ask next.       *)
(***************************************************************************)
EXTENDS Integers, Sequences, SequencesExt, FiniteSetsExt, Folds

CONSTANTS BYTE_BITS,      \* 8
          NIH_LEN,        \* 20 bytes in a hash
          MAX_GP_PNODES,  \* 8 nodes pursued of a reply
          BULLSHIT_DKAD   \* 100

ASSUME HopsAssumption ==
    /\ BYTE_BITS \in Nat \ {0} /\ NIH_LEN \in Nat \ {0} /\ MAX_GP_PNODES \in Nat \ {0}
    /\ BULLSHIT_DKAD \in Nat

Bit == 1..BYTE_BITS

\* A byte is the set of its one bits, bit BYTE_BITS the most significant.
Byte == SUBSET Bit

Nih == [1..NIH_LEN -> Byte]

FAR == BYTE_BITS * NIH_LEN     \* 160

\* u8 XOR u8
Xor(x, y) == (x \ y) \cup (y \ x)

\* g_dkad_tab: the position of the highest set bit.
dkad_tab(z) == IF z = {} THEN 0 ELSE Max(z)

\* The bytes in which two hashes differ.
Differ(x, y) == {i \in 1..NIH_LEN : x[i] # y[i]}

\* Mutation: the byte loop takes off one bit less per equal byte.
dkad_slow(x, y) ==
    IF Differ(x, y) = {} THEN 0
    ELSE LET i == Min(Differ(x, y))
         IN  FAR - (BYTE_BITS - 1) * (i - 1) - dkad_tab(Xor(x[i], y[i]))

\* dkad: BYTE_BITS off for every leading equal byte, then the table's value of
\* the first byte that differs is taken off as well; 0 for equal hashes.
dkad(x, y) ==
    IF Differ(x, y) = {} THEN 0
    ELSE LET i == Min(Differ(x, y))
         IN  FAR - BYTE_BITS * (i - 1) - dkad_tab(Xor(x[i], y[i]))

-----------------------------------------------------------------------------
\* The arrays best_dkads and best_ixes as one sequence, as they start: the
\* index 1 stands for the source's 0.
NoBest == [j \in 1..MAX_GP_PNODES |-> [ix |-> 1, dkad |-> FAR]]

\* Mutation: ties displace.
PlaceTies(best, ix, d) ==
    LET worse == {j \in 1..MAX_GP_PNODES : d <= best[j].dkad /\ d > BULLSHIT_DKAD}
    IN  IF worse = {} THEN best
        ELSE [j \in 1..MAX_GP_PNODES |->
                IF j < Min(worse) THEN best[j]
                ELSE IF j = Min(worse) THEN [ix |-> ix, dkad |-> d]
                ELSE best[j - 1]]

\* The inner loop of find_best_hops: node ix at distance d goes in front of
\* the first entry that is farther, and displaces the entries behind it.
Place(best, ix, d) ==
    LET worse == {j \in 1..MAX_GP_PNODES : d < best[j].dkad /\ d > BULLSHIT_DKAD}
    IN  IF worse = {} THEN best
        ELSE [j \in 1..MAX_GP_PNODES |->
                IF j < Min(worse) THEN best[j]
                ELSE IF j = Min(worse) THEN [ix |-> ix, dkad |-> d]
                ELSE best[j - 1]]

\* Mutation: MAX_GP_PNODES entries however few nodes the reply has.
PickAll(best, nodes) ==
    [dx \in 1..(IF nodes = << >> THEN 0 ELSE MAX_GP_PNODES) |-> nodes[best[dx].ix]]

\* The final loop: the chosen entries of the node array, as many as there are
\* nodes or places.
Pick(best, nodes) ==
    [dx \in 1..Min({MAX_GP_PNODES, Len(nodes)}) |-> nodes[best[dx].ix]]

\* find_best_hops(nodes, ih) for nodes at the given distances from ih.
find_best_hops(nodes, dist) ==
    Pick(FoldLeftDomain(LAMBDA best, ix : Place(best, ix, dist[nodes[ix]]), NoBest, nodes),
         nodes)

=============================================================================
