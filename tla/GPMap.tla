------------------------------- MODULE GPMap -------------------------------
(***************************************************************************)
(* The table of get_peers queries in flight of cht/gpmap.cpp, as operators: *)
(* N_BINS cells, indexed by the two-byte token of the query.  A reply is    *)
(* matched to a query by its token and the checksum of the replying node.   *)
(* Times are those of CLOCK_MONOTONIC_COARSE, in ticks; one callback of the *)
(* event loop sees one time.                                                *)
(***************************************************************************)
EXTENDS Integers, FiniteSetsExt

CONSTANTS N_BINS,              \* 2^16 tokens
          GP_MAX_HOPS,
          CTL_GPM_TIMEOUT,     \* CTL_GPM_TIMEOUT_MS, in ticks
          NoIh                 \* the infohash of an untouched cell: zero bytes

ASSUME GPMapAssumption ==
    /\ N_BINS \in Nat \ {0}
    /\ GP_MAX_HOPS \in Nat
    /\ CTL_GPM_TIMEOUT \in Nat

Tok == 0..(N_BINS - 1)

\* g_ifl_buf as it starts.
EmptyBuf ==
    [tok \in Tok |-> [is_set |-> FALSE, ih |-> NoIh, checksum |-> 0, hop |-> 0, last |-> 0]]

\* Mutation: a cell is never taken for timed out.
Live_forever(cell, now) == cell.is_set

\* A query that may still be answered: take_tok does not reuse the cell.
Live(cell, now) == cell.is_set /\ now - cell.last <= CTL_GPM_TIMEOUT

\* The cells at which the loop of take_tok stops.
Reusable(buf, now) == {tok \in Tok : ~ Live(buf[tok], now)}

\* Mutation: the token does not wrap around as a u16 does.
taken_tok_wide(buf, now, rand) == rand + Min(Reusable(buf, now))

\* take_tok, when it returns {true, tok}: the loop walks the cells from the
\* first one and tok from a random one, and stops at the first reusable cell.
taken_tok(buf, now, rand) == (rand + Min(Reusable(buf, now))) % N_BINS

\* unset_cell(tok) assigns false to an is_set that is false, or nothing.
unset_cell(buf, tok) == [buf EXCEPT ![tok].is_set = IF ~ @ THEN FALSE ELSE @]

\* What take_tok does to the cells: it unsets the token's when it stopped at
\* a cell that has timed out.
after_take_tok(buf, now, rand) ==
    IF buf[Min(Reusable(buf, now))].is_set
    THEN unset_cell(buf, taken_tok(buf, now, rand))
    ELSE buf

\* unset_cell(krpc), which is all of clear_tok.
clear_tok(buf, tok, checksum) ==
    IF buf[tok].checksum = checksum THEN unset_cell(buf, tok) ELSE buf

\* Mutation: a set cell keeps the infohash it was set for.
registered_keep_ih(buf, checksum, ih, hop, tok, now) ==
    IF hop > GP_MAX_HOPS THEN buf
    ELSE [buf EXCEPT ![tok] = [is_set |-> TRUE,
                               ih |-> IF @.is_set THEN @.ih ELSE ih,
                               checksum |-> checksum, hop |-> hop, last |-> now]]

\* register_q_gp_ihash.
registered(buf, checksum, ih, hop, tok, now) ==
    IF hop > GP_MAX_HOPS THEN buf
    ELSE [buf EXCEPT ![tok] = [is_set |-> TRUE, ih |-> ih, checksum |-> checksum,
                               hop |-> hop, last |-> now]]

\* Mutation: the sender of the reply is not looked at.
lookup_tok_any(buf, tok, checksum) == buf[tok].is_set

\* The bool of lookup_tok; the cell it comes with is buf[tok].
lookup_tok(buf, tok, checksum) == buf[tok].is_set /\ buf[tok].checksum = checksum

=============================================================================
